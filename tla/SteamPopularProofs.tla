------------------------- MODULE SteamPopularProofs -------------------------
(***************************************************************************)
(* Theorems about SteamPopular for any number of commands, any durations   *)
(* and a clock that may run on for any time: one refresh at a time, what   *)
(* the answers say of the chart's age, and a lock that is never lost.      *)
(***************************************************************************)
EXTENDS SteamPopular, SequenceTheorems, TLAPS

(* A command that refreshes holds the lock.                                *)
HoldsLock ==
  \A c \in Client : Refreshing(c) => lock # << >> /\ Head(lock) = c

(* A snapshot's date errs on the old side, and lies in the past.           *)
SnapshotPast == snapshot # None => cachedAt <= snapshot /\ snapshot <= now

(* A refresh began in the past, after the cooldown; the chart it waits     *)
(* with is no older than the published one.                                *)
RefreshOK(c) ==
  /\ Refreshing(c) =>
       /\ client[c].began <= now
       /\ client[c].began = lastStart
       /\ retryAfter <= lastStart
  /\ client[c].pc = "metadata" =>
       /\ client[c].chart \in Nat
       /\ client[c].began <= client[c].chart
       /\ client[c].chart <= now
       /\ snapshot # None => snapshot <= client[c].chart

(* No refresh starts in the future, and a cooldown is running only after a *)
(* failure; while nobody refreshes, the cache's dates are those of the     *)
(* last refresh.                                                           *)
PauseOK ==
  /\ lastStart <= now
  /\ now < retryAfter => lastEnd = "failed"
  /\ (\A c \in Client : ~Refreshing(c)) =>
       /\ lastEnd = "ok" => snapshot # None /\ cachedAt = lastStart
       /\ lastEnd = "failed" => retryAfter = lastStart + ErrorRetry

IInv ==
  /\ TypeOK
  /\ HoldsLock
  /\ SnapshotPast
  /\ \A c \in Client : RefreshOK(c)
  /\ PauseOK
  /\ FreshMeansFresh

USE DurationAssumption, NoneAssumption

(* The initial states satisfy the invariant.                               *)
LEMMA InitIInv == Init => IInv
  <1> SUFFICES ASSUME Init PROVE IInv
    OBVIOUS
  <1>1. TypeOK
    BY DEF Init, TypeOK, ClientType, NoAnswer, AnswerKind, Time
  <1>2. \A c \in Client : client[c].pc = "idle" /\ client[c].answer.kind = "none"
    BY DEF Init, NoAnswer
  <1>3. HoldsLock /\ \A c \in Client : RefreshOK(c)
    BY <1>2 DEF HoldsLock, RefreshOK, Refreshing
  <1>4. SnapshotPast /\ PauseOK
    BY DEF Init, SnapshotPast, PauseOK
  <1>5. FreshMeansFresh
    BY <1>2 DEF FreshMeansFresh
  <1>6. QED
    BY <1>1, <1>3, <1>4, <1>5 DEF IInv

(* What the commands look like when one of them has its answer.            *)
LEMMA AnsweredFacts ==
  ASSUME TypeOK, NEW c \in Client, NEW kind \in AnswerKind,
         NEW chart \in Nat \cup {None}, Answered(c, kind, chart)
  PROVE  /\ client' \in [Client -> ClientType]
         /\ client'[c].pc = "idle"
         /\ client'[c].answer = [kind |-> kind, chart |-> chart, at |-> now]
         /\ \A d \in Client \ {c} : client'[d] = client[d]
  <1> DEFINE a == [kind |-> kind, chart |-> chart, at |-> now]
             new == [pc |-> "idle", began |-> 0, chart |-> None, answer |-> a]
  <1>1. client \in [Client -> ClientType] /\ now \in Nat
    BY DEF TypeOK, Time
  <1>2. client' = [client EXCEPT ![c] = new]
    BY DEF Answered
  <1>3. a \in [kind : AnswerKind, chart : Nat \cup {None}, at : Nat]
    BY <1>1
  <1> HIDE DEF a
  <1>4. new \in ClientType /\ new.pc = "idle" /\ new.answer = a
    BY <1>3 DEF ClientType, Time
  <1> HIDE DEF new
  <1>5. client' \in [Client -> ClientType] /\ client'[c] = new
        /\ \A d \in Client \ {c} : client'[d] = client[d]
    BY <1>1, <1>2, <1>4
  <1>6. QED
    BY <1>4, <1>5 DEF a

(* What they look like when one goes on to another await.                  *)
LEMMA EnterFacts ==
  ASSUME TypeOK, NEW c \in Client,
         NEW pc \in {"waiting", "chart", "metadata"},
         NEW began \in Nat, NEW chart \in Nat \cup {None},
         Enter(c, pc, began, chart)
  PROVE  /\ client' \in [Client -> ClientType]
         /\ client'[c].pc = pc
         /\ client'[c].began = began
         /\ client'[c].chart = chart
         /\ client'[c].answer = client[c].answer
         /\ \A d \in Client \ {c} : client'[d] = client[d]
  <1> DEFINE a == client[c].answer
             new == [pc |-> pc, began |-> began, chart |-> chart, answer |-> a]
  <1>1. client \in [Client -> ClientType]
    BY DEF TypeOK
  <1>2. client' = [client EXCEPT ![c] = new]
    BY DEF Enter
  <1>3. a \in [kind : AnswerKind, chart : Time \cup {None}, at : Time]
    BY <1>1 DEF ClientType
  <1> HIDE DEF a
  <1>4. /\ new \in ClientType
        /\ new.pc = pc /\ new.began = began /\ new.chart = chart /\ new.answer = a
    BY <1>3 DEF ClientType, Time
  <1> HIDE DEF new
  <1>5. /\ client' \in [Client -> ClientType] /\ client'[c] = new
        /\ \A d \in Client \ {c} : client'[d] = client[d]
    BY <1>1, <1>2, <1>4
  <1>6. QED
    BY <1>4, <1>5 DEF a

(* An answer from the cache is of a kind and chart that answers may have,  *)
(* and one that counts as fresh is young enough.                           *)
LEMMA ServedFacts ==
  ASSUME IInv, NEW c \in Client, Served(c)
  PROVE  /\ client' \in [Client -> ClientType]
         /\ client'[c].pc = "idle"
         /\ \A d \in Client \ {c} : client'[d] = client[d]
         /\ client'[c].answer.kind = "fresh" =>
              client'[c].answer.at - client'[c].answer.chart < CacheTtl
  <1>1. /\ TypeOK
        /\ now \in Nat /\ cachedAt \in Nat /\ snapshot \in Nat \cup {None}
        /\ snapshot # None => cachedAt <= snapshot
    BY DEF IInv, TypeOK, Time, SnapshotPast
  <1>2. CASE Cooling /\ Answered(c, "error", None)
    <2>1. /\ client' \in [Client -> ClientType]
          /\ client'[c].pc = "idle"
          /\ client'[c].answer = [kind |-> "error", chart |-> None, at |-> now]
          /\ \A d \in Client \ {c} : client'[d] = client[d]
      BY <1>1, <1>2, AnsweredFacts DEF AnswerKind
    <2>2. client'[c].answer.kind = "error"
      BY <2>1
    <2>3. QED
      BY <2>1, <2>2
  <1>3. CASE Fresh /\ Answered(c, "fresh", snapshot)
    <2>1. /\ client' \in [Client -> ClientType]
          /\ client'[c].pc = "idle"
          /\ client'[c].answer = [kind |-> "fresh", chart |-> snapshot, at |-> now]
          /\ \A d \in Client \ {c} : client'[d] = client[d]
      BY <1>1, <1>3, AnsweredFacts DEF AnswerKind
    <2>2. now - snapshot < CacheTtl
      BY <1>1, <1>3 DEF Fresh
    <2>3. QED
      BY <2>1, <2>2
  <1>4. CASE Stale /\ Answered(c, "stale", snapshot)
    <2>1. /\ client' \in [Client -> ClientType]
          /\ client'[c].pc = "idle"
          /\ client'[c].answer = [kind |-> "stale", chart |-> snapshot, at |-> now]
          /\ \A d \in Client \ {c} : client'[d] = client[d]
      BY <1>1, <1>4, AnsweredFacts DEF AnswerKind
    <2>2. client'[c].answer.kind = "stale"
      BY <2>1
    <2>3. QED
      BY <2>1, <2>2
  <1>5. QED
    BY <1>2, <1>3, <1>4 DEF Served

(* While one command holds the lock, no other refreshes.                   *)
LEMMA HolderAlone ==
  ASSUME IInv, NEW c \in Client, HasLock(c) \/ Refreshing(c)
  PROVE  /\ lock # << >> /\ Head(lock) = c
         /\ \A d \in Client \ {c} : ~Refreshing(d)
         /\ Tail(lock) \in Seq(Client)
  BY DEF IInv, HoldsLock, HasLock, Refreshing, TypeOK

-----------------------------------------------------------------------------
(* A command that neither was nor starts refreshing: only its own answer   *)
(* may be new, and the lock keeps its holder if one is refreshing.         *)
LEMMA BesideStep ==
  ASSUME IInv, NEW c \in Client, ~Refreshing(c),
         client' \in [Client -> ClientType], lock' \in Seq(Client),
         client'[c].pc \in {"idle", "waiting"},
         \A d \in Client \ {c} : client'[d] = client[d],
         UNCHANGED <<now, cache, history>>,
         client'[c].answer.kind = "fresh" =>
           client'[c].answer.at - client'[c].answer.chart < CacheTtl,
         (\E d \in Client : Refreshing(d)) =>
           lock' # << >> /\ Head(lock') = Head(lock)
  PROVE  IInv'
  <1>1. UNCHANGED <<now, snapshot, cachedAt, retryAfter, lastStart, lastEnd>>
    BY DEF cache, history
  <1>2. TypeOK'
    BY <1>1 DEF IInv, TypeOK
  <1>3. ~Refreshing(c)' /\ \A d \in Client \ {c} : Refreshing(d)' <=> Refreshing(d)
    BY DEF Refreshing
  <1>4. HoldsLock'
    BY <1>3 DEF IInv, HoldsLock
  <1>5. SnapshotPast'
    BY <1>1 DEF IInv, SnapshotPast
  <1>6. \A d \in Client : RefreshOK(d)'
    BY <1>1, <1>3 DEF IInv, RefreshOK
  <1>7. (\A d \in Client : ~Refreshing(d)') <=> (\A d \in Client : ~Refreshing(d))
    BY <1>3
  <1>8. PauseOK'
    BY <1>1, <1>7 DEF IInv, PauseOK
  <1>9. FreshMeansFresh'
    BY DEF IInv, FreshMeansFresh
  <1>10. QED
    BY <1>2, <1>4, <1>5, <1>6, <1>8, <1>9 DEF IInv

(* get_snapshot before the lock.                                           *)
LEMMA AskStep == ASSUME NEW c \in Client PROVE IInv /\ Ask(c) => IInv'
  <1> SUFFICES ASSUME IInv, Ask(c) PROVE IInv'
    OBVIOUS
  <1>1. TypeOK /\ client[c].pc = "idle" /\ ~Refreshing(c) /\ UNCHANGED <<now, cache, history>>
    BY DEF IInv, Ask, Refreshing
  <1>2. CASE Served(c) /\ UNCHANGED lock
    <2>1. lock' \in Seq(Client) /\ lock' = lock
      BY <1>1, <1>2 DEF TypeOK
    <2>2. QED
      BY <1>1, <1>2, <2>1, ServedFacts, BesideStep DEF IInv, HoldsLock
  <1>3. CASE Enter(c, "waiting", 0, None) /\ lock' = Append(lock, c)
    <2>1. /\ client' \in [Client -> ClientType]
          /\ client'[c].pc = "waiting"
          /\ client'[c].answer = client[c].answer
          /\ \A d \in Client \ {c} : client'[d] = client[d]
      BY <1>1, <1>3, EnterFacts
    <2>2. /\ lock' \in Seq(Client)
          /\ lock # << >> => lock' # << >> /\ Head(lock') = Head(lock)
      BY <1>1, <1>3 DEF TypeOK
    <2>3. client[c].answer.kind = "fresh" =>
            client[c].answer.at - client[c].answer.chart < CacheTtl
      BY DEF IInv, FreshMeansFresh
    <2>4. QED
      BY <1>1, <2>1, <2>2, <2>3, BesideStep DEF IInv, HoldsLock
  <1>4. QED
    BY <1>2, <1>3 DEF Ask

(* get_snapshot when it has the lock: the answer, or a refresh, which      *)
(* starts after the cooldown.                                              *)
LEMMA ResumeStep == ASSUME NEW c \in Client PROVE IInv /\ Resume(c) => IInv'
  <1> SUFFICES ASSUME IInv, Resume(c) PROVE IInv'
    OBVIOUS
  <1>1. /\ TypeOK /\ HasLock(c) /\ ~Refreshing(c)
        /\ UNCHANGED <<now, cache, lastEnd>>
        /\ now \in Nat /\ retryAfter \in Nat /\ snapshot \in Nat \cup {None}
    BY DEF IInv, Resume, HasLock, Refreshing, TypeOK, Time
  <1>2. /\ lock # << >> /\ Head(lock) = c
        /\ \A d \in Client : ~Refreshing(d)
        /\ Tail(lock) \in Seq(Client)
    BY <1>1, HolderAlone
  <1>3. CASE Served(c) /\ lock' = Tail(lock) /\ UNCHANGED lastStart
    <2>1. lock' \in Seq(Client) /\ UNCHANGED history
      BY <1>1, <1>2, <1>3 DEF history
    <2>2. QED
      BY <1>1, <1>2, <1>3, <2>1, ServedFacts, BesideStep
  <1>4. CASE MustRefresh /\ StartRefresh(c) /\ UNCHANGED lock
    <2>1. /\ client' \in [Client -> ClientType]
          /\ client'[c].pc = "chart"
          /\ client'[c].began = now
          /\ client'[c].answer = client[c].answer
          /\ \A d \in Client \ {c} : client'[d] = client[d]
          /\ lastStart' = now
      BY <1>1, <1>4, EnterFacts DEF StartRefresh
    <2>2. UNCHANGED <<now, snapshot, cachedAt, retryAfter, lock, lastEnd>>
      BY <1>1, <1>4 DEF cache
    <2>3. TypeOK'
      BY <1>1, <2>1, <2>2 DEF TypeOK, Time
    <2>4. Refreshing(c)' /\ \A d \in Client \ {c} : ~Refreshing(d)'
      BY <1>2, <2>1 DEF Refreshing
    <2>5. HoldsLock'
      BY <1>2, <2>2, <2>4 DEF HoldsLock
    <2>6. SnapshotPast'
      BY <2>2 DEF IInv, SnapshotPast
    <2>7. retryAfter <= now
      BY <1>1, <1>4 DEF MustRefresh, Cooling, Stale
    <2>8. \A d \in Client : RefreshOK(d)'
      BY <1>1, <2>1, <2>2, <2>4, <2>7 DEF RefreshOK, Refreshing
    <2>9. PauseOK'
      BY <1>1, <2>1, <2>2, <2>4, <2>7 DEF PauseOK
    <2>10. FreshMeansFresh'
      BY <2>1 DEF IInv, FreshMeansFresh
    <2>11. QED
      BY <2>3, <2>5, <2>6, <2>8, <2>9, <2>10 DEF IInv
  <1>5. QED
    BY <1>3, <1>4 DEF Resume

(* The chart is as old as now, and no snapshot is newer.                   *)
LEMMA ChartStep == ASSUME NEW c \in Client PROVE IInv /\ ChartArrives(c) => IInv'
  <1> SUFFICES ASSUME IInv, ChartArrives(c) PROVE IInv'
    OBVIOUS
  <1>1. /\ TypeOK /\ Refreshing(c)
        /\ Enter(c, "metadata", client[c].began, now)
        /\ UNCHANGED <<now, snapshot, cachedAt, retryAfter, lock, lastStart, lastEnd>>
    BY DEF IInv, ChartArrives, Refreshing, cache, history
  <1>2. now \in Nat /\ client[c].began \in Nat /\ snapshot \in Nat \cup {None}
    BY <1>1 DEF TypeOK, ClientType, Time
  <1>3. /\ client' \in [Client -> ClientType]
        /\ client'[c].pc = "metadata"
        /\ client'[c].began = client[c].began
        /\ client'[c].chart = now
        /\ client'[c].answer = client[c].answer
        /\ \A d \in Client \ {c} : client'[d] = client[d]
    BY <1>1, <1>2, EnterFacts
  <1>4. Refreshing(c)' /\ \A d \in Client \ {c} : ~Refreshing(d)'
    BY <1>1, <1>3, HolderAlone DEF Refreshing
  <1>5. TypeOK'
    BY <1>1, <1>3 DEF TypeOK
  <1>6. HoldsLock'
    BY <1>1, <1>4, HolderAlone DEF HoldsLock
  <1>7. SnapshotPast'
    BY <1>1 DEF IInv, SnapshotPast
  <1>8. RefreshOK(c)'
    BY <1>1, <1>2, <1>3 DEF IInv, RefreshOK, SnapshotPast
  <1>9. \A d \in Client \ {c} : RefreshOK(d)'
    BY <1>4 DEF RefreshOK, Refreshing
  <1>10. PauseOK'
    BY <1>1, <1>4 DEF IInv, PauseOK
  <1>11. FreshMeansFresh'
    BY <1>3 DEF IInv, FreshMeansFresh
  <1>12. QED
    BY <1>5, <1>6, <1>7, <1>8, <1>9, <1>10, <1>11 DEF IInv

(* The end of a refresh: nobody refreshes any more; what is left to show   *)
(* concerns the cache's dates only.                                        *)
LEMMA EndStep ==
  ASSUME IInv, NEW c \in Client, Refreshing(c),
         NEW kind \in AnswerKind \ {"fresh"}, NEW chart \in Nat \cup {None},
         Answered(c, kind, chart), lock' = Tail(lock),
         UNCHANGED <<now, lastStart>>,
         TypeOK', SnapshotPast', PauseOK'
  PROVE  IInv'
  <1>1. /\ client'[c].pc = "idle"
        /\ client'[c].answer = [kind |-> kind, chart |-> chart, at |-> now]
        /\ \A d \in Client \ {c} : client'[d] = client[d]
    BY AnsweredFacts DEF IInv
  <1>2. \A d \in Client : ~Refreshing(d)'
    BY <1>1, HolderAlone DEF Refreshing
  <1>3. HoldsLock' /\ \A d \in Client : RefreshOK(d)'
    BY <1>2 DEF HoldsLock, RefreshOK, Refreshing
  <1>4. client'[c].answer.kind # "fresh"
    BY <1>1
  <1>5. FreshMeansFresh'
    BY <1>1, <1>4 DEF IInv, FreshMeansFresh
  <1>6. QED
    BY <1>3, <1>5 DEF IInv

LEMMA PublishStep == ASSUME NEW c \in Client PROVE IInv /\ Publish(c) => IInv'
  <1> SUFFICES ASSUME IInv, Publish(c) PROVE IInv'
    OBVIOUS
  <1> DEFINE chart == client[c].chart
             began == client[c].began
  <1>1. /\ TypeOK /\ Refreshing(c)
        /\ chart \in Nat /\ began \in Nat /\ began <= chart /\ chart <= now
        /\ began = lastStart /\ now \in Nat
    BY DEF IInv, Publish, RefreshOK, Refreshing, TypeOK, ClientType, Time
  <1>2. /\ snapshot' = chart /\ cachedAt' = began /\ retryAfter' = 0
        /\ lock' = Tail(lock) /\ lastEnd' = "ok"
        /\ Answered(c, "new", chart)
        /\ UNCHANGED <<now, lastStart>>
    BY DEF Publish
  <1> HIDE DEF chart, began
  <1>3. client' \in [Client -> ClientType]
    BY <1>1, <1>2, AnsweredFacts DEF AnswerKind
  <1>4. TypeOK'
    BY <1>1, <1>2, <1>3, HolderAlone DEF TypeOK, Time
  <1>5. SnapshotPast'
    BY <1>1, <1>2 DEF SnapshotPast
  <1>6. PauseOK'
    BY <1>1, <1>2 DEF IInv, PauseOK
  <1>7. QED
    BY <1>1, <1>2, <1>4, <1>5, <1>6, EndStep DEF AnswerKind

LEMMA RefreshFailsStep ==
  ASSUME NEW c \in Client PROVE IInv /\ RefreshFails(c) => IInv'
  <1> SUFFICES ASSUME IInv, RefreshFails(c) PROVE IInv'
    OBVIOUS
  <1>1. /\ TypeOK /\ Refreshing(c)
        /\ client[c].began \in Nat /\ client[c].began = lastStart
        /\ snapshot \in Nat \cup {None}
    BY DEF IInv, RefreshFails, RefreshOK, Refreshing, TypeOK, ClientType, Time
  <1>2. /\ retryAfter' = client[c].began + ErrorRetry
        /\ lock' = Tail(lock) /\ lastEnd' = "failed"
        /\ UNCHANGED <<now, snapshot, cachedAt, lastStart>>
    BY DEF RefreshFails
  <1>3. PICK kind \in {"error", "stale"}, chart \in Nat \cup {None} :
          Answered(c, kind, chart)
    BY <1>1 DEF RefreshFails
  <1>4. kind \in AnswerKind \ {"fresh"}
    BY DEF AnswerKind
  <1>5. client' \in [Client -> ClientType]
    BY <1>1, <1>3, <1>4, AnsweredFacts
  <1>6. TypeOK'
    BY <1>1, <1>2, <1>5, HolderAlone DEF TypeOK, Time
  <1>7. SnapshotPast'
    BY <1>2 DEF IInv, SnapshotPast
  <1>8. PauseOK'
    BY <1>1, <1>2 DEF IInv, PauseOK
  <1>9. QED
    BY <1>1, <1>2, <1>3, <1>4, <1>6, <1>7, <1>8, EndStep

LEMMA RefreshBreaksStep ==
  ASSUME NEW c \in Client PROVE IInv /\ RefreshBreaks(c) => IInv'
  <1> SUFFICES ASSUME IInv, RefreshBreaks(c) PROVE IInv'
    OBVIOUS
  <1>1. /\ TypeOK /\ Refreshing(c)
        /\ client[c].began \in Nat /\ now \in Nat /\ retryAfter \in Nat
        /\ client[c].began <= now /\ retryAfter <= client[c].began
    BY DEF IInv, RefreshBreaks, RefreshOK, Refreshing, TypeOK, ClientType, Time
  <1>2. /\ lock' = Tail(lock) /\ lastEnd' = "broken"
        /\ Answered(c, "broken", None)
        /\ UNCHANGED <<now, snapshot, cachedAt, retryAfter, lastStart>>
    BY DEF RefreshBreaks, cache
  <1>3. client' \in [Client -> ClientType]
    BY <1>1, <1>2, AnsweredFacts DEF AnswerKind
  <1>4. TypeOK'
    BY <1>1, <1>2, <1>3, HolderAlone DEF TypeOK
  <1>5. SnapshotPast'
    BY <1>2 DEF IInv, SnapshotPast
  <1>6. PauseOK'
    BY <1>1, <1>2 DEF IInv, PauseOK
  <1>7. QED
    BY <1>1, <1>2, <1>4, <1>5, <1>6, EndStep DEF AnswerKind

(* Time passes.                                                            *)
LEMMA TickStep == IInv /\ Tick => IInv'
  <1> SUFFICES ASSUME IInv, Tick PROVE IInv'
    OBVIOUS
  <1>1. /\ TypeOK
        /\ now' = now + 1
        /\ UNCHANGED <<snapshot, cachedAt, retryAfter, lock, client, lastStart, lastEnd>>
    BY DEF IInv, Tick, cache, history
  <1>2. /\ now \in Nat /\ retryAfter \in Nat /\ snapshot \in Nat \cup {None}
        /\ lastStart \in Nat
        /\ \A c \in Client : client[c] \in ClientType
    BY <1>1 DEF TypeOK, Time
  <1>3. TypeOK'
    BY <1>1, <1>2 DEF TypeOK, Time
  <1>4. HoldsLock' /\ FreshMeansFresh'
    BY <1>1 DEF IInv, HoldsLock, Refreshing, FreshMeansFresh
  <1>5. SnapshotPast'
    BY <1>1, <1>2 DEF IInv, SnapshotPast
  <1>6. \A c \in Client : RefreshOK(c)'
    BY <1>1, <1>2 DEF IInv, RefreshOK, Refreshing, ClientType, Time
  <1>7. PauseOK'
    BY <1>1, <1>2 DEF IInv, PauseOK, Refreshing
  <1>8. QED
    BY <1>3, <1>4, <1>5, <1>6, <1>7 DEF IInv

(* Every step preserves the invariant.                                     *)
LEMMA NextIInv == IInv /\ [Next]_vars => IInv'
  <1> SUFFICES ASSUME IInv, [Next]_vars PROVE IInv'
    OBVIOUS
  <1>1. ASSUME NEW c \in Client, Ask(c) \/ Resume(c) \/ Refresh(c) PROVE IInv'
    BY <1>1, AskStep, ResumeStep, ChartStep, PublishStep, RefreshFailsStep,
       RefreshBreaksStep DEF Refresh
  <1>2. CASE UNCHANGED vars
    BY <1>2 DEF vars, IInv, TypeOK, HoldsLock, SnapshotPast, RefreshOK, PauseOK,
                FreshMeansFresh, Refreshing
  <1>3. QED
    BY <1>1, <1>2, TickStep DEF Next

(* The inductive invariant holds of every behaviour.                       *)
THEOREM Invariance == Spec => []IInv
  BY InitIInv, NextIInv, PTL DEF Spec

(* Every variable of the service keeps its type, for any number of         *)
(* commands and however long the clock runs.                               *)
THEOREM TypeCorrect == Spec => []TypeOK
  BY Invariance, PTL DEF IInv

(* One command at most is refreshing (SteamPopularService._lock).          *)
THEOREM OneRefresh == Spec => []SingleFlight
  <1>1. IInv => SingleFlight
    BY DEF IInv, HoldsLock, SingleFlight
  <1>2. QED
    BY <1>1, Invariance, PTL

(* An answer not marked stale is younger than the cache's time to live.    *)
THEOREM FreshAnswers == Spec => []FreshMeansFresh
  BY Invariance, PTL DEF IInv

-----------------------------------------------------------------------------
(* Only Publish changes the snapshot, to the chart its refresh waits with. *)
LEMMA ChartStepOK ==
  IInv /\ [Next]_vars =>
    (snapshot # None => snapshot' # None /\ snapshot' >= snapshot)
  <1> SUFFICES ASSUME IInv, [Next]_vars, snapshot # None
               PROVE  snapshot' # None /\ snapshot' >= snapshot
    OBVIOUS
  <1>1. snapshot \in Nat
    BY DEF IInv, TypeOK, Time
  <1>2. ASSUME NEW c \in Client, Publish(c)
        PROVE  snapshot' \in Nat /\ snapshot' >= snapshot
    BY <1>1, <1>2 DEF IInv, Publish, RefreshOK
  <1>3. CASE UNCHANGED snapshot
    BY <1>1, <1>3
  <1>4. QED
    BY <1>2, <1>3 DEF Next, Tick, Ask, Resume, Refresh, ChartArrives, RefreshFails,
                      RefreshBreaks, cache, vars

(* The published chart never goes back, however many commands refresh it.  *)
THEOREM ChartMonotone == Spec => ChartNeverGoesBack
  BY Invariance, ChartStepOK, PTL DEF Spec, ChartNeverGoesBack

(* A refresh starts in Resume only, where nobody else refreshes and the    *)
(* checks have failed.                                                     *)
LEMMA StartStepOK ==
  IInv /\ [Next]_vars => (StartsRefresh => now >= lastStart + Pause)
  <1> SUFFICES ASSUME IInv, [Next]_vars,
                      NEW c \in Client, ~Refreshing(c), Refreshing(c)'
               PROVE  now >= lastStart + Pause
    BY DEF StartsRefresh
  <1>1. /\ TypeOK
        /\ now \in Nat /\ retryAfter \in Nat /\ cachedAt \in Nat /\ lastStart \in Nat
        /\ snapshot \in Nat \cup {None}
        /\ \A d \in Client : RefreshOK(d)
    BY DEF IInv, TypeOK, Time
  <1>2. ASSUME NEW d \in Client, Refresh(d) PROVE FALSE
    <2>1. Refreshing(d) /\ d # c
      BY <1>2 DEF Refresh, ChartArrives, Publish, RefreshFails, RefreshBreaks, Refreshing
    <2>2. client'[c] = client[c]
      BY <1>2, <2>1, <1>1 DEF Refresh, ChartArrives, Publish, RefreshFails,
         RefreshBreaks, Enter, Answered, TypeOK
    <2>3. QED
      BY <2>2 DEF Refreshing
  <1>3. ASSUME NEW d \in Client, Ask(d) PROVE FALSE
    <2>1. client'[c] = client[c] \/ client'[c].pc \in {"idle", "waiting"}
      BY <1>1, <1>3 DEF Ask, Served, Enter, Answered, TypeOK
    <2>2. QED
      BY <2>1 DEF Refreshing
  <1>4. ~Tick /\ ~UNCHANGED vars
    BY DEF Tick, vars, Refreshing
  <1>5. PICK d \in Client : Resume(d)
    BY <1>2, <1>3, <1>4 DEF Next
  <1>6. CASE Served(d)
    <2>1. client'[c] = client[c] \/ client'[c].pc = "idle"
      BY <1>1, <1>6 DEF Served, Answered, TypeOK
    <2>2. QED
      BY <2>1 DEF Refreshing
  <1>7. CASE MustRefresh
    <2>1. HasLock(d) /\ ~Refreshing(d)
      BY <1>5 DEF Resume, HasLock, Refreshing
    <2>2. \A e \in Client : ~Refreshing(e)
      BY <2>1, HolderAlone
    <2>3. /\ lastEnd = "ok" => snapshot # None /\ cachedAt = lastStart
          /\ lastEnd = "failed" => retryAfter = lastStart + ErrorRetry
      BY <2>2 DEF IInv, PauseOK
    <2>4. retryAfter <= now /\ (snapshot # None => now - cachedAt >= CacheTtl)
      BY <1>1, <1>7 DEF MustRefresh, Cooling, Stale, Fresh
    <2>5. lastStart <= now
      BY DEF IInv, PauseOK
    <2>6. QED
      BY <1>1, <2>3, <2>4, <2>5 DEF Pause
  <1>8. QED
    BY <1>5, <1>6, <1>7 DEF Resume

(* Steam is left alone for the time to live after a success, and for the   *)
(* cooldown after a failure.                                               *)
THEOREM Sparing == Spec => AskedSparingly
  BY Invariance, StartStepOK, PTL DEF Spec, AskedSparingly

(* A stale answer comes from a failed refresh or from the cooldown that    *)
(* one started, and a cooldown ends before the next refresh begins.        *)
LEMMA StaleStepOK ==
  IInv /\ [Next]_vars =>
    \A c \in Client : AnsweredStale(c) => lastEnd' = "failed"
  <1> SUFFICES ASSUME IInv, [Next]_vars, NEW c \in Client, AnsweredStale(c)
               PROVE  lastEnd' = "failed"
    OBVIOUS
  <1>1. /\ client'[c].answer # client[c].answer
        /\ client'[c].answer.kind = "stale"
    BY DEF AnsweredStale
  <1>2. /\ TypeOK /\ client \in [Client -> ClientType]
        /\ now < retryAfter => lastEnd = "failed"
    BY DEF IInv, TypeOK, PauseOK
  <1>3. ~Tick /\ ~UNCHANGED vars
    BY <1>1 DEF Tick, vars
  <1>4. PICK d \in Client : Ask(d) \/ Resume(d) \/ Refresh(d)
    BY <1>3 DEF Next
  <1>5. ASSUME NEW pc, NEW began, NEW chart PROVE ~Enter(d, pc, began, chart)
    BY <1>1, <1>2 DEF Enter
  <1>6. ASSUME NEW kind, NEW chart, Answered(d, kind, chart) PROVE kind = "stale"
    BY <1>1, <1>2, <1>6 DEF Answered
  <1>7. CASE Served(d) /\ lastEnd' = lastEnd
    BY <1>2, <1>6, <1>7 DEF Served, Stale
  <1>8. CASE RefreshFails(d)
    BY <1>8 DEF RefreshFails
  <1>9. CASE Publish(d) \/ RefreshBreaks(d)
    BY <1>6, <1>9 DEF Publish, RefreshBreaks
  <1>10. QED
    BY <1>4, <1>5, <1>7, <1>8, <1>9
       DEF Ask, Resume, StartRefresh, Refresh, ChartArrives, history

(* The warning of a stale chart is shown only after a failed refresh.      *)
THEOREM StaleAfterFailure == Spec => StaleOnlyAfterFailure
  BY Invariance, StaleStepOK, PTL DEF Spec, StaleOnlyAfterFailure
-----------------------------------------------------------------------------
(* The safety half of EveryAskAnswered: the lock's queue loses nobody.     *)

(* s has each element of S once and nothing else.                          *)
OnceEach(s, S) ==
  /\ \A i, j \in DOMAIN s : s[i] = s[j] => i = j
  /\ \A x : x \in S <=> \E i \in DOMAIN s : s[i] = x

(* One more joins at the end, or the first leaves.                         *)
LEMMA QueueGrows ==
  ASSUME NEW T, NEW s \in Seq(T), NEW S, OnceEach(s, S), NEW x \in T, x \notin S
  PROVE  OnceEach(Append(s, x), S \cup {x})
  <1>1. PICK n \in Nat : Len(s) = n /\ DOMAIN s = 1..n
    BY LenProperties
  <1>2. PICK r : r = Append(s, x)
    OBVIOUS
  <1>3. /\ DOMAIN r = 1..(n + 1) /\ r[n + 1] = x
        /\ \A i \in 1..n : r[i] = s[i]
    <2>1. r \in Seq(T) /\ Len(r) = n + 1
      BY <1>1, <1>2, AppendProperties
    <2>2. \A i \in 1..n : r[i] = s[i]
      BY <1>1, <1>2, AppendProperties
    <2>3. r[n + 1] = x
      BY <1>1, <1>2, AppendProperties
    <2>4. QED
      BY <2>1, <2>2, <2>3, LenProperties
  <1>4. /\ \A i \in 1..(n + 1) : i \in 1..n \/ i = n + 1
        /\ \A i \in 1..n : i \in 1..(n + 1)
        /\ n + 1 \in 1..(n + 1)
    OBVIOUS
  <1>5. \A i \in 1..n : s[i] # x
    BY <1>1 DEF OnceEach
  <1>6. \A i, j \in 1..(n + 1) : r[i] = r[j] => i = j
    BY <1>1, <1>3, <1>4, <1>5 DEF OnceEach
  <1>7. \A y : y \in S \cup {x} <=> \E i \in 1..(n + 1) : r[i] = y
    BY <1>1, <1>3, <1>4 DEF OnceEach
  <1>8. QED
    BY <1>2, <1>3, <1>6, <1>7 DEF OnceEach

LEMMA QueueMoves ==
  ASSUME NEW T, NEW s \in Seq(T), NEW S, OnceEach(s, S), s # << >>
  PROVE  OnceEach(Tail(s), S \ {Head(s)})
  <1>1. PICK n \in Nat : Len(s) = n + 1 /\ DOMAIN s = 1..(n + 1)
    <2>1. Len(s) \in Nat /\ Len(s) # 0 /\ DOMAIN s = 1..Len(s)
      BY LenProperties, EmptySeq
    <2>2. PICK k : k = Len(s)
      OBVIOUS
    <2>3. k \in Nat /\ k # 0 /\ DOMAIN s = 1..k
      BY <2>1, <2>2
    <2>4. k - 1 \in Nat /\ k = (k - 1) + 1
      BY <2>3
    <2>5. Len(s) = (k - 1) + 1 /\ DOMAIN s = 1..((k - 1) + 1)
      BY <2>2, <2>3, <2>4
    <2>6. QED
      BY <2>4, <2>5
  <1>2. PICK r, h : r = Tail(s) /\ h = Head(s)
    OBVIOUS
  <1>3. /\ DOMAIN r = 1..n /\ h = s[1]
        /\ \A i \in 1..n : r[i] = s[i + 1]
    <2>1. r \in Seq(T) /\ Len(r) = n /\ h = s[1]
      BY <1>1, <1>2, HeadTailProperties
    <2>2. \A i \in 1..n : r[i] = s[i + 1]
      BY <1>1, <1>2, <2>1, HeadTailProperties
    <2>3. QED
      BY <2>1, <2>2, LenProperties
  <1>4. /\ \A i \in 1..n : i + 1 \in 1..(n + 1) /\ i + 1 # 1
        /\ \A i \in 1..(n + 1) : i = 1 \/ (i - 1 \in 1..n /\ (i - 1) + 1 = i)
        /\ 1 \in 1..(n + 1)
    OBVIOUS
  <1>5. \A i, j \in 1..n : r[i] = r[j] => i = j
    <2>1. SUFFICES ASSUME NEW i \in 1..n, NEW j \in 1..n, r[i] = r[j] PROVE i = j
      OBVIOUS
    <2>2. s[i + 1] = s[j + 1] /\ i + 1 \in DOMAIN s /\ j + 1 \in DOMAIN s
      BY <1>1, <1>3, <1>4, <2>1
    <2>3. i + 1 = j + 1
      BY <2>2 DEF OnceEach
    <2>4. QED
      BY <2>3
  <1>6. \A y : y \in S \ {h} <=> \E i \in 1..n : r[i] = y
    <2>1. ASSUME NEW y \in S, y # h PROVE \E i \in 1..n : r[i] = y
      <3>1. PICK i \in 1..(n + 1) : s[i] = y
        BY <1>1 DEF OnceEach
      <3>2. i - 1 \in 1..n /\ (i - 1) + 1 = i
        BY <1>3, <1>4, <2>1, <3>1
      <3>3. r[i - 1] = y
        BY <1>3, <3>1, <3>2
      <3>4. QED
        BY <3>2, <3>3
    <2>2. ASSUME NEW i \in 1..n PROVE r[i] \in S /\ r[i] # h
      <3>1. i + 1 \in DOMAIN s /\ 1 \in DOMAIN s /\ i + 1 # 1 /\ r[i] = s[i + 1]
        BY <1>1, <1>3, <1>4
      <3>2. s[i + 1] \in S /\ s[i + 1] # s[1]
        BY <3>1 DEF OnceEach
      <3>3. QED
        BY <1>3, <3>1, <3>2
    <2>3. QED
      BY <2>1, <2>2
  <1>7. QED
    BY <1>2, <1>3, <1>5, <1>6 DEF OnceEach

(* In the lock's queue is exactly who is being served, once.               *)
Busy == {c \in Client : client[c].pc # "idle"}
Queued == OnceEach(lock, Busy)

LEMMA QueuedStep ==
  ASSUME IInv, Queued, [Next]_vars PROVE Queued'
  <1>1. lock \in Seq(Client) /\ client \in [Client -> ClientType]
    BY DEF IInv, TypeOK
  <1>2. ASSUME NEW c \in Client, \A d \in Client \ {c} : client'[d] = client[d],
               client[c].pc = "idle" <=> client'[c].pc = "idle", UNCHANGED lock
        PROVE  Queued'
    <2>1. Busy' = Busy
      BY <1>2 DEF Busy
    <2>2. QED
      BY <1>2, <2>1 DEF Queued
  <1>3. ASSUME NEW c \in Client, \A d \in Client \ {c} : client'[d] = client[d],
               client'[c].pc = "idle", lock # << >>, Head(lock) = c,
               lock' = Tail(lock)
        PROVE  Queued'
    <2>1. Busy' = Busy \ {Head(lock)}
      BY <1>3 DEF Busy
    <2>2. QED
      BY <1>1, <1>3, <2>1, QueueMoves DEF Queued
  <1>4. ASSUME NEW c \in Client, Ask(c) PROVE Queued'
    <2>1. CASE Served(c) /\ UNCHANGED lock
      BY <1>2, <1>4, <2>1, ServedFacts DEF Ask
    <2>2. CASE Enter(c, "waiting", 0, None) /\ lock' = Append(lock, c)
      <3>1. /\ client[c].pc = "idle" /\ client'[c].pc = "waiting"
            /\ \A d \in Client \ {c} : client'[d] = client[d]
        BY <1>4, <2>2, EnterFacts DEF Ask, IInv
      <3>2. c \notin Busy /\ Busy' = Busy \cup {c}
        BY <3>1 DEF Busy
      <3>3. QED
        BY <1>1, <2>2, <3>2, QueueGrows DEF Queued
    <2>3. QED
      BY <1>4, <2>1, <2>2 DEF Ask
  <1>5. ASSUME NEW c \in Client, Resume(c) PROVE Queued'
    <2>1. CASE Served(c) /\ lock' = Tail(lock)
      BY <1>3, <1>5, <2>1, ServedFacts DEF Resume, HasLock
    <2>2. CASE StartRefresh(c) /\ UNCHANGED lock
      <3>1. now \in Nat
        BY DEF IInv, TypeOK, Time
      <3>2. /\ client[c].pc = "waiting" /\ client'[c].pc = "chart"
            /\ \A d \in Client \ {c} : client'[d] = client[d]
        BY <1>5, <2>2, <3>1, EnterFacts DEF Resume, HasLock, StartRefresh, IInv
      <3>3. QED
        BY <1>2, <2>2, <3>2
    <2>3. QED
      BY <1>5, <2>1, <2>2 DEF Resume
  <1>6. ASSUME NEW c \in Client, ChartArrives(c) PROVE Queued'
    <2>1. now \in Nat /\ client[c].began \in Nat
      BY <1>1 DEF IInv, TypeOK, ClientType, Time
    <2>2. /\ client[c].pc = "chart" /\ client'[c].pc = "metadata"
          /\ \A d \in Client \ {c} : client'[d] = client[d]
      BY <1>6, <2>1, EnterFacts DEF ChartArrives, IInv
    <2>3. QED
      BY <1>2, <1>6, <2>2 DEF ChartArrives
  <1>7. ASSUME NEW c \in Client, Publish(c) \/ RefreshFails(c) \/ RefreshBreaks(c)
        PROVE  Queued'
    <2>1. Refreshing(c) /\ lock' = Tail(lock)
      BY <1>7 DEF Publish, RefreshFails, RefreshBreaks, Refreshing
    <2>2. lock # << >> /\ Head(lock) = c
      BY <2>1 DEF IInv, HoldsLock
    <2>3. \E kind, chart : Answered(c, kind, chart)
      BY <1>7 DEF Publish, RefreshFails, RefreshBreaks
    <2>4. client'[c].pc = "idle" /\ \A d \in Client \ {c} : client'[d] = client[d]
      BY <1>1, <2>3 DEF Answered
    <2>5. QED
      BY <1>3, <2>1, <2>2, <2>4
  <1>8. CASE UNCHANGED <<lock, client>>
    BY <1>8 DEF Queued, Busy
  <1>9. QED
    BY <1>4, <1>5, <1>6, <1>7, <1>8 DEF Next, Tick, Refresh, vars

(* Whoever waits is behind one that can go on: the first of the queue has  *)
(* the lock to take, or is refreshing.  No error and no early return keeps *)
(* the lock (steam_popular.py:251-271).                                    *)
THEOREM SomebodyServes ==
  Spec => [](\A c \in Client : client[c].pc # "idle" =>
               \E d \in Client : HasLock(d) \/ Refreshing(d))
  <1> DEFINE Goes == \A c \in Client : client[c].pc # "idle" =>
                       \E d \in Client : HasLock(d) \/ Refreshing(d)
  <1>1. Init => Queued
    <2>1. Init => lock = << >> /\ Busy = {}
      BY DEF Init, Busy
    <2>2. DOMAIN << >> = {}
      OBVIOUS
    <2>3. QED
      BY <2>1, <2>2 DEF Queued, OnceEach
  <1>2. IInv /\ Queued /\ [Next]_vars => Queued'
    BY QueuedStep
  <1>3. IInv /\ Queued => Goes
    <2> SUFFICES ASSUME IInv, Queued, NEW c \in Client, client[c].pc # "idle"
                 PROVE  \E d \in Client : HasLock(d) \/ Refreshing(d)
      OBVIOUS
    <2>1. lock \in Seq(Client) /\ client \in [Client -> ClientType]
      BY DEF IInv, TypeOK
    <2>2. lock # << >>
      <3>1. \E i \in DOMAIN lock : lock[i] = c
        BY DEF Queued, OnceEach, Busy
      <3>2. DOMAIN << >> = {}
        OBVIOUS
      <3>3. QED
        BY <3>1, <3>2
    <2>3. Head(lock) \in Client /\ 1 \in DOMAIN lock /\ Head(lock) = lock[1]
      <3>1. Len(lock) \in Nat /\ Len(lock) # 0 /\ DOMAIN lock = 1..Len(lock)
        BY <2>1, <2>2, LenProperties, EmptySeq
      <3>2. QED
        BY <2>1, <2>2, <3>1, HeadTailProperties
    <2>4. client[Head(lock)].pc # "idle"
      BY <2>3 DEF Queued, OnceEach, Busy
    <2>5. QED
      BY <2>1, <2>2, <2>3, <2>4 DEF ClientType, HasLock, Refreshing
  <1> HIDE DEF Goes
  <1>4. QED
    BY <1>1, <1>2, <1>3, Invariance, PTL DEF Spec, Goes
=============================================================================
