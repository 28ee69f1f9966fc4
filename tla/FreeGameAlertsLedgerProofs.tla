--------------------- MODULE FreeGameAlertsLedgerProofs ---------------------
(***************************************************************************)
(* FreeGameAlerts implements AlertLedger: for any guilds, channels, lists  *)
(* and commands, the tasks and their lock behave as the one courier.       *)
(***************************************************************************)
EXTENDS FreeGameAlertsProofs

USE GuildAssumption, ChannelAssumption, DigestAssumption, TaskAssumption,
    FaultAssumption

(* What a round of visits is: the guild being sent to is the first of the  *)
(* list that is left, and the list of a command has one guild.             *)
RoundOK(p) ==
  /\ task[p].pc = "sending" =>
       /\ task[p].guild \in Listed(task[p].todo)
       /\ \A h \in Listed(task[p].todo) : task[p].guild <= h
  /\ p # Loop => \A g, h \in Listed(task[p].todo) : g = h
RoundsOK == \A p \in Poller : RoundOK(p)

(* The courier of a task, and of a lock and its tasks.                     *)
Of(t, forced) ==
  [guild |-> t.guild, digest |-> t.digest, sent |-> t.sent, forced |-> forced]
Off == [guild |-> NoGuild, digest |-> NoDigest, sent |-> 0, forced |-> FALSE]

(* A task that sends is the courier, and without one the courier rests.    *)
LEMMA CourierIs ==
  ASSUME HoldsLock, TypeOK
  PROVE  /\ \A p \in Poller :
              task[p].pc = "sending" => Courier = Of(task[p], p # Loop)
         /\ (\A p \in Poller : task[p].pc # "sending") => Courier = Off
  <1>1. ASSUME NEW p \in Poller, task[p].pc = "sending"
        PROVE  Courier = Of(task[p], p # Loop)
    <2>1. pollLock # << >> /\ Head(pollLock) = p
      BY <1>1 DEF HoldsLock, Polling
    <2>2. QED
      BY <1>1, <2>1 DEF Courier, Sends, Of
  <1>2. ASSUME \A p \in Poller : task[p].pc # "sending"
        PROVE  Courier = Off
    <2>1. pollLock # << >> => Head(pollLock) \in Poller
      BY DEF TypeOK
    <2>2. QED
      BY <1>2, <2>1 DEF Courier, Sends, Off
  <1>3. QED
    BY <1>1, <1>2

(* The same of the next state.                                             *)
LEMMA CourierIsNext ==
  ASSUME HoldsLock', TypeOK'
  PROVE  /\ \A p \in Poller :
              task'[p].pc = "sending" => Courier' = Of(task'[p], p # Loop)
         /\ (\A p \in Poller : task'[p].pc # "sending") => Courier' = Off
  <1>1. ASSUME NEW p \in Poller, task'[p].pc = "sending"
        PROVE  Courier' = Of(task'[p], p # Loop)
    <2>1. pollLock' # << >> /\ Head(pollLock') = p
      BY <1>1 DEF HoldsLock, Polling
    <2>2. QED
      BY <1>1, <2>1 DEF Courier, Sends, Of
  <1>2. ASSUME \A p \in Poller : task'[p].pc # "sending"
        PROVE  Courier' = Off
    <2>1. pollLock' # << >> => Head(pollLock') \in Poller
      BY DEF TypeOK
    <2>2. QED
      BY <1>2, <2>1 DEF Courier, Sends, Off
  <1>3. QED
    BY <1>1, <1>2

(* A step in which no task starts, ends or advances a send.                *)
LEMMA SameCourier ==
  ASSUME IInv, IInv',
         \A p \in Poller : \/ task'[p] = task[p]
                           \/ task[p].pc # "sending" /\ task'[p].pc # "sending"
  PROVE  Courier' = Courier
  <1> USE DEF IInv
  <1>1. CASE \E p \in Poller : task[p].pc = "sending"
    <2>1. PICK p \in Poller : task[p].pc = "sending"
      BY <1>1
    <2>2. task'[p] = task[p]
      BY <2>1
    <2>3. QED
      BY <2>1, <2>2, CourierIs, CourierIsNext
  <1>2. CASE \A p \in Poller : task[p].pc # "sending"
    <2>1. \A p \in Poller : task'[p].pc # "sending"
      BY <1>2
    <2>2. QED
      BY <1>2, <2>1, CourierIs, CourierIsNext
  <1>3. QED
    BY <1>1, <1>2

(* The holder of the lock alone sends.                                     *)
LEMMA HolderCourier ==
  ASSUME IInv, IInv', NEW p \in Poller, Polling(p),
         \A q \in Poller \ {p} : task'[q] = task[q]
  PROVE  /\ task[p].pc = "sending" => Courier = Of(task[p], p # Loop)
         /\ task[p].pc # "sending" => Courier = Off
         /\ task'[p].pc = "sending" => Courier' = Of(task'[p], p # Loop)
         /\ task'[p].pc # "sending" => Courier' = Off
  <1>1. \A q \in Poller \ {p} : task[q].pc # "sending" /\ task'[q].pc # "sending"
    BY OthersOut DEF IInv, Polling
  <1>2. QED
    BY <1>1, CourierIs, CourierIsNext DEF IInv

-----------------------------------------------------------------------------
(* Where Advance leaves its task, its list and its target.                 *)
LEMMA AdvanceRound ==
  ASSUME TypeOK, NEW p \in Poller, NEW d \in Digest,
         NEW todo \in [Guild -> Channel \cup {NoChannel}],
         NEW last \in [Guild -> Digest \cup {NoDigest}],
         NEW failed \in SUBSET Guild,
         Advance(p, todo, last, d, failed)
  PROVE  /\ \A q \in Poller \ {p} : task'[q] = task[q]
         /\ Listed(task'[p].todo) \subseteq Listed(todo)
         /\ \/ task'[p].pc \in {"idle", "stopped"}
            \/ /\ task'[p].pc = "sending"
               /\ task'[p].digest = d
               /\ task'[p].sent = 0
               /\ task'[p].guild \in Listed(todo)
               /\ p = Loop => last[task'[p].guild] # d
               /\ task'[p].guild \in Listed(task'[p].todo)
               /\ \A h \in Listed(task'[p].todo) : task'[p].guild <= h
  <1> DEFINE ready == ReadyTo(p, todo, last, d)
  <1>1. task \in [Poller -> TaskType]
    BY DEF TypeOK
  <1>2. CASE Return(p) \/ Escape(p, "storage")
    <2>1. task' = [task EXCEPT ![p] = Idle]
          \/ task' = [task EXCEPT ![p] = [Idle EXCEPT !.pc = "stopped"]]
      BY <1>2 DEF Return, Escape
    <2>2. task'[p].pc \in {"idle", "stopped"} /\ task'[p].todo = Nothing
      BY <1>1, <2>1 DEF Idle
    <2>3. QED
      BY <1>1, <2>1, <2>2 DEF Listed, Nothing
  <1>3. ASSUME NEW g \in ready, SendNext(p, todo, d, g)
        PROVE  /\ \A q \in Poller \ {p} : task'[q] = task[q]
               /\ Listed(task'[p].todo) \subseteq Listed(todo)
               /\ task'[p].pc = "sending"
               /\ task'[p].digest = d
               /\ task'[p].sent = 0
               /\ task'[p].guild = g
               /\ g \in Listed(todo)
               /\ p = Loop => last[g] # d
               /\ g \in Listed(task'[p].todo)
               /\ \A h \in Listed(task'[p].todo) : g <= h
    <2> DEFINE rest == [h \in Guild |-> IF h < g THEN NoChannel ELSE todo[h]]
               new == [pc |-> "sending", guild |-> g, digest |-> d, sent |-> 0,
                       todo |-> rest]
    <2>1. g \in Guild /\ g \in Listed(todo) /\ (p = Loop => last[g] # d)
      BY <1>3 DEF ReadyTo, Due, Listed
    <2>2. task' = [task EXCEPT ![p] = new]
      BY <1>3 DEF SendNext
    <2>3. task'[p] = new /\ \A q \in Poller \ {p} : task'[q] = task[q]
      BY <1>1, <2>2
    <2>4. \A h \in Guild : h \in Listed(rest) <=> ~(h < g) /\ h \in Listed(todo)
      BY DEF Listed
    <2>5. Listed(rest) \subseteq Guild /\ Guild \subseteq Nat
      BY DEF Listed
    <2> HIDE DEF rest
    <2>6. Listed(rest) \subseteq Listed(todo)
      BY <2>4, <2>5
    <2>7. g \in Listed(rest)
      BY <2>1, <2>4, <2>5
    <2>8. \A h \in Listed(rest) : g <= h
      BY <2>1, <2>4, <2>5
    <2>9. QED
      BY <2>1, <2>3, <2>6, <2>7, <2>8
  <1>4. CASE \E g \in ready : SendNext(p, todo, d, g)
    <2>1. PICK g \in ready : SendNext(p, todo, d, g)
      BY <1>4
    <2> HIDE DEF ready
    <2>2. QED
      BY <1>3, <2>1
  <1>5. QED
    BY <1>2, <1>4 DEF Advance

-----------------------------------------------------------------------------
(* Every initial state is in order.                                        *)
LEMMA InitRounds == Init => RoundsOK
  BY DEF Init, RoundsOK, RoundOK, Idle, Listed, Nothing

(* A task that keeps its list, or empties it, and starts no send.          *)
LEMMA QuietRound ==
  ASSUME RoundsOK,
         \A p \in Poller :
           \/ task'[p] = task[p]
           \/ /\ task'[p].pc # "sending"
              /\ \/ task'[p].todo = task[p].todo
                 \/ task'[p].todo = Nothing
                 \/ p = Loop
                 \/ \E g \in Guild, c \in Channel : task'[p].todo = Only(g, c)
  PROVE  RoundsOK'
  <1> SUFFICES ASSUME NEW p \in Poller PROVE RoundOK(p)'
    BY DEF RoundsOK
  <1>1. RoundOK(p)
    BY DEF RoundsOK
  <1>2. CASE task'[p] = task[p]
    BY <1>1, <1>2 DEF RoundOK
  <1>3. CASE task'[p].pc # "sending" /\ task'[p].todo = task[p].todo
    BY <1>1, <1>3 DEF RoundOK
  <1>4. CASE task'[p].pc # "sending" /\ p = Loop
    BY <1>4 DEF RoundOK
  <1>5. CASE task'[p].pc # "sending" /\ task'[p].todo = Nothing
    BY <1>5 DEF RoundOK, Listed, Nothing
  <1>6. ASSUME task'[p].pc # "sending", NEW g \in Guild, NEW c \in Channel,
               task'[p].todo = Only(g, c)
        PROVE  RoundOK(p)'
    BY <1>6 DEF RoundOK, Listed, Only, Nothing
  <1>7. QED
    BY <1>2, <1>3, <1>4, <1>5, <1>6

(* Advance keeps the rounds in order.                                      *)
LEMMA AdvanceRounds ==
  ASSUME TypeOK, RoundsOK, NEW p \in Poller, NEW d \in Digest,
         NEW todo \in [Guild -> Channel \cup {NoChannel}],
         Listed(todo) \subseteq Listed(task[p].todo),
         NEW last \in [Guild -> Digest \cup {NoDigest}],
         NEW failed \in SUBSET Guild,
         Advance(p, todo, last, d, failed)
  PROVE  RoundsOK'
  <1>1. \A q \in Poller \ {p} : RoundOK(q)'
    BY AdvanceRound DEF RoundsOK, RoundOK
  <1>2. Listed(task'[p].todo) \subseteq Listed(task[p].todo)
    BY AdvanceRound
  <1>3. task'[p].pc = "sending" =>
          /\ task'[p].guild \in Listed(task'[p].todo)
          /\ \A h \in Listed(task'[p].todo) : task'[p].guild <= h
    BY AdvanceRound
  <1>4. RoundOK(p)'
    BY <1>2, <1>3 DEF RoundsOK, RoundOK
  <1>5. QED
    BY <1>1, <1>4 DEF RoundsOK

(* What is left of a list is part of it, without the guild just served.    *)
LEMMA RestListed ==
  ASSUME TypeOK, NEW p \in Poller, task[p].guild \in Guild
  PROVE  /\ Rest(p) \in [Guild -> Channel \cup {NoChannel}]
         /\ Listed(Rest(p)) = Listed(task[p].todo) \ {task[p].guild}
  <1>1. task[p].todo \in [Guild -> Channel \cup {NoChannel}]
    BY DEF TypeOK, TaskType
  <1>2. QED
    BY <1>1 DEF Rest, Listed

(* Every step keeps the rounds in order.                                   *)
LEMMA NextRounds == IInv /\ RoundsOK /\ [Next]_vars => RoundsOK'
  <1> SUFFICES ASSUME IInv, RoundsOK, [Next]_vars PROVE RoundsOK'
    OBVIOUS
  <1>0. TypeOK /\ task \in [Poller -> TaskType] /\ Loop \in Poller
    BY DEF IInv, TypeOK, Poller
  <1>1. CASE LoopTick \/ LoopTickFails
    <2>1. \A q \in Poller \ {Loop} : task'[q] = task[q]
      BY <1>0, <1>1 DEF LoopTick, LoopTickFails
    <2>2. CASE LoopTick
      <3> DEFINE new == [Idle EXCEPT !.pc = "waiting", !.todo = alerts]
      <3>1. task' = [task EXCEPT ![Loop] = new] /\ new.pc = "waiting"
        BY <2>2 DEF LoopTick, Idle
      <3> HIDE DEF new
      <3>2. QED
        BY <1>0, <2>1, <3>1, QuietRound
    <2>3. CASE LoopTickFails
      <3>1. task'[Loop].pc = "stopped"
        BY <1>0, <2>3, SetPc DEF LoopTickFails
      <3>2. QED
        BY <2>1, <3>1, QuietRound
    <2>4. QED
      BY <1>1, <2>2, <2>3
  <1>2. ASSUME NEW p \in Command, Configure(p) PROVE RoundsOK'
    <2>0. p \in Poller /\ task[p] \in TaskType
      BY <1>0 DEF Poller
    <2>1. ASSUME NEW c \in Channel, ConfigureBegin(p, c) PROVE RoundsOK'
      <3> DEFINE new == [Idle EXCEPT !.pc = "deferring", !.todo = Only(Owner[c], c)]
      <3>1. task' = [task EXCEPT ![p] = new] /\ Owner[c] \in Guild
        BY <2>1 DEF ConfigureBegin
      <3>2. new.pc = "deferring" /\ new.todo = Only(Owner[c], c)
        BY DEF Idle
      <3> HIDE DEF new
      <3>3. QED
        BY <1>0, <2>0, <3>1, <3>2, QuietRound
    <2>2. CASE ConfigureStore(p)
      <3>1. task'[p].pc = "waiting" /\ task'[p].todo = task[p].todo
        BY <1>0, <2>0, <2>2 DEF ConfigureStore, TaskType
      <3>2. QED
        BY <1>0, <2>0, <2>2, <3>1, QuietRound DEF ConfigureStore
    <2>3. CASE ConfigureFails(p)
      BY <1>0, <2>0, <2>3, QuietRound DEF ConfigureFails, Idle
    <2>4. QED
      BY <1>2, <2>1, <2>2, <2>3 DEF Configure
  <1>3. ASSUME NEW p \in Poller, Poll(p) PROVE RoundsOK'
    <2>1. CASE Acquire(p)
      <3>1. task'[p].pc = "fetching" /\ task'[p].todo = task[p].todo
        BY <1>0, <2>1 DEF Acquire, TaskType
      <3>2. QED
        BY <1>0, <2>1, <3>1, QuietRound DEF Acquire
    <2>2. CASE FetchOk(p)
      <3>1. task[p].todo \in [Guild -> Channel \cup {NoChannel}]
        BY <1>0 DEF TaskType
      <3>2. feed \in Digest /\ lastDigest \in [Guild -> Digest \cup {NoDigest}]
        BY <1>0 DEF TypeOK
      <3>3. QED
        BY <1>0, <2>2, <3>1, <3>2, AdvanceRounds DEF FetchOk
    <2>3. CASE task' = [task EXCEPT ![p] = Idle]
               \/ task' = [task EXCEPT ![p] = [Idle EXCEPT !.pc = "stopped"]]
      <3>1. task'[p].pc # "sending" /\ task'[p].todo = Nothing
        BY <1>0, <2>3 DEF Idle
      <3>2. QED
        BY <1>0, <2>3, <3>1, QuietRound
    <2>4. CASE FetchFails(p)
      BY <2>3, <2>4 DEF FetchFails, Return, Escape
    <2>5. CASE SendMore(p)
      <3>1. /\ task'[p].pc = task[p].pc /\ task'[p].todo = task[p].todo
            /\ task'[p].guild = task[p].guild
            /\ \A q \in Poller \ {p} : task'[q] = task[q]
        BY <1>0, <2>5 DEF SendMore, TaskType
      <3>2. RoundOK(p)'
        BY <3>1 DEF RoundsOK, RoundOK
      <3>3. \A q \in Poller \ {p} : RoundOK(q)'
        BY <3>1 DEF RoundsOK, RoundOK
      <3>4. QED
        BY <3>2, <3>3 DEF RoundsOK
    <2>6. ASSUME task[p].pc = "sending",
                 NEW last \in [Guild -> Digest \cup {NoDigest}],
                 NEW failed \in SUBSET Guild,
                 Advance(p, Rest(p), last, task[p].digest, failed)
          PROVE  RoundsOK'
      <3>1. task[p].guild \in Guild /\ task[p].digest \in Digest
        BY <2>6, SendingFacts
      <3>2. QED
        BY <1>0, <2>6, <3>1, RestListed, AdvanceRounds
    <2>7. CASE SendLast(p)
      <3>1. task[p].pc = "sending" /\ task[p].guild \in Guild
            /\ task[p].digest \in Digest
        BY <2>7, SendingFacts DEF SendLast
      <3>2. [lastDigest EXCEPT ![task[p].guild] = task[p].digest]
              \in [Guild -> Digest \cup {NoDigest}]
        BY <1>0, <3>1 DEF TypeOK
      <3> DEFINE last == [lastDigest EXCEPT ![task[p].guild] = task[p].digest]
      <3>3. Advance(p, Rest(p), last, task[p].digest, {}) \/ Escape(p, "storage")
        BY <2>7 DEF SendLast
      <3>4. last \in [Guild -> Digest \cup {NoDigest}]
        BY <3>2
      <3> HIDE DEF last
      <3>5. CASE Advance(p, Rest(p), last, task[p].digest, {})
        BY <2>6, <3>1, <3>4, <3>5
      <3>6. CASE Escape(p, "storage")
        BY <2>3, <3>6 DEF Escape
      <3>7. QED
        BY <3>3, <3>5, <3>6
    <2>8. CASE SendRefused(p)
      <3>1. task[p].pc = "sending" /\ task[p].guild \in Guild
        BY <2>8, SendingFacts DEF SendRefused
      <3>2. lastDigest \in [Guild -> Digest \cup {NoDigest}]
        BY <1>0 DEF TypeOK
      <3>3. QED
        BY <2>3, <2>6, <2>8, <3>1, <3>2 DEF SendRefused, Escape
    <2>9. CASE SendBroken(p)
      BY <2>3, <2>9 DEF SendBroken, Escape
    <2>10. QED
      BY <1>3, <2>1, <2>2, <2>4, <2>5, <2>7, <2>8, <2>9 DEF Poll
  <1>4. CASE Environment
    <2>1. CASE \E gone \in SUBSET members : Restart(gone)
      BY <1>0, <2>1, QuietRound DEF Restart, Idle
    <2>2. CASE UNCHANGED task
      BY <2>2, QuietRound
    <2>3. QED
      BY <1>4, <2>1, <2>2
      DEF Environment, RemoveAlert, GuildRemove, GuildJoin, ChannelDelete, FeedChange
  <1>5. CASE UNCHANGED vars
    BY <1>5, QuietRound DEF vars
  <1>6. QED
    BY <1>1, <1>2, <1>3, <1>4, <1>5 DEF Next

-----------------------------------------------------------------------------
(* What the courier may do when its guild has been dealt with.             *)
LEMMA MovesOn ==
  ASSUME IInv, IInv', RoundsOK, NEW p \in Poller, task[p].pc = "sending",
         NEW last \in [Guild -> Digest \cup {NoDigest}],
         NEW failed \in SUBSET Guild,
         lastDigest' = last,
         Advance(p, Rest(p), last, task[p].digest, failed)
  PROVE  /\ Courier = Of(task[p], p # Loop)
         /\ Ledger!MoveOn
  <1> DEFINE g == task[p].guild
             d == task[p].digest
  <1>1. TypeOK /\ Polling(p) /\ g \in Guild /\ d \in Digest
    BY SendingFacts
  <1>2. /\ Rest(p) \in [Guild -> Channel \cup {NoChannel}]
        /\ Listed(Rest(p)) = Listed(task[p].todo) \ {g}
    BY <1>1, RestListed
  <1>3. /\ \A q \in Poller \ {p} : task'[q] = task[q]
        /\ \/ task'[p].pc \in {"idle", "stopped"}
           \/ /\ task'[p].pc = "sending"
              /\ task'[p].digest = d
              /\ task'[p].sent = 0
              /\ task'[p].guild \in Listed(Rest(p))
              /\ p = Loop => last[task'[p].guild] # d
    BY <1>1, <1>2, AdvanceRound
  <1>4. /\ Courier = Of(task[p], p # Loop)
        /\ task'[p].pc = "sending" => Courier' = Of(task'[p], p # Loop)
        /\ task'[p].pc # "sending" => Courier' = Off
    BY <1>1, <1>3, HolderCourier
  <1>5. CASE task'[p].pc # "sending"
    BY <1>4, <1>5 DEF Off, Ledger!MoveOn, Ledger!Resting
  <1>6. CASE task'[p].pc = "sending"
    <2> DEFINE h == task'[p].guild
    <2>1. h \in Listed(task[p].todo) /\ h # g
      BY <1>2, <1>3, <1>6
    <2>2. g \in Listed(task[p].todo) /\ \A k \in Listed(task[p].todo) : g <= k
      BY DEF RoundsOK, RoundOK
    <2>3. p = Loop
      BY <2>1, <2>2 DEF RoundsOK, RoundOK
    <2>a. h \in Guild /\ g \in Guild /\ g <= h /\ Guild \subseteq Nat
      BY <1>1, <2>1, <2>2 DEF Listed
    <2>b. \A x, y \in Nat : x <= y /\ y # x => x < y
      OBVIOUS
    <2>c. h \in Nat /\ g \in Nat
      BY <2>a
    <2>4. h \in Guild /\ g < h
      BY <2>1, <2>a, <2>b, <2>c
    <2>5. Courier' = [guild |-> h, digest |-> d, sent |-> 0, forced |-> FALSE]
      BY <1>3, <1>4, <1>6, <2>3 DEF Of
    <2>6. Courier.guild = g /\ Courier.digest = d /\ Courier.forced = FALSE
      BY <1>4, <2>3 DEF Of
    <2>7. lastDigest'[h] # d
      BY <1>3, <1>6, <2>3
    <2> HIDE DEF g, d, h
    <2>8. QED
      BY <1>4, <2>4, <2>5, <2>6, <2>7 DEF Ledger!MoveOn, Ledger!Bringing, g
  <1>7. QED
    BY <1>4, <1>5, <1>6

(* Leaving the poll lets the courier rest.                                 *)
LEMMA LeavesOff ==
  ASSUME IInv, IInv', NEW p \in Poller, Polling(p),
         Return(p) \/ \E f \in FaultKind : Escape(p, f)
  PROVE  /\ task[p].pc = "sending" => Courier = Of(task[p], p # Loop)
         /\ task[p].pc # "sending" => Courier = Off
         /\ Courier' = Off
  <1>1. pollLock # << >> /\ TypeOK
    BY OthersOut DEF IInv
  <1>2. task'[p].pc # "sending" /\ \A q \in Poller \ {p} : task'[q] = task[q]
    BY <1>1, LeaveType
  <1>3. QED
    BY <1>2, HolderCourier

(* A courier under way is not at rest.                                     *)
LEMMA OfUnderway ==
  ASSUME NEW t, NEW forced, t.guild \in Guild, Courier = Of(t, forced)
  PROVE  /\ Ledger!Underway
         /\ Courier.guild = t.guild /\ Courier.digest = t.digest
         /\ Courier.sent = t.sent /\ Courier.forced = forced
  <1>1. Courier.guild = t.guild
    BY DEF Of
  <1>2. Ledger!Resting.guild = NoGuild
    BY DEF Ledger!Resting
  <1>3. QED
    BY <1>1, <1>2 DEF Of, Ledger!Underway

-----------------------------------------------------------------------------
(* The end of one send is a delivery or a failure of the courier.          *)
LEMMA SendSimulates ==
  ASSUME IInv, IInv', RoundsOK, NEW p \in Poller,
         SendMore(p) \/ SendLast(p) \/ SendRefused(p) \/ SendBroken(p)
  PROVE  Ledger!Next
  <1> DEFINE g == task[p].guild
             d == task[p].digest
             k == task[p].sent
  <1>1. task[p].pc = "sending"
    BY DEF SendMore, SendLast, SendRefused, SendBroken
  <1>2. /\ TypeOK /\ Polling(p) /\ g \in Guild /\ d \in Digest
        /\ lastDigest \in [Guild -> Digest \cup {NoDigest}]
        /\ task \in [Poller -> TaskType] /\ task[p] \in TaskType
    BY <1>1, SendingFacts DEF TypeOK
  <1>3. Courier = Of(task[p], p # Loop)
    BY <1>1, <1>2, CourierIs DEF IInv
  <1>4. /\ Ledger!Underway
        /\ Courier.guild = g /\ Courier.digest = d /\ Courier.sent = k
    BY <1>2, <1>3, OfUnderway
  <1>5. Post(p) => Ledger!Arrives
    BY <1>4 DEF Post, Ledger!Arrives
  <1>6. UNCHANGED <<alerts, feed>>
    BY DEF SendMore, SendLast, SendRefused, SendBroken, world
  <1>7. CASE SendMore(p)
    <2> DEFINE new == [pc |-> "sending", todo |-> task[p].todo, guild |-> g,
                       digest |-> d, sent |-> k + 1]
    <2>1. task' = [task EXCEPT ![p] = [task[p] EXCEPT !.sent = k + 1]]
      BY <1>7 DEF SendMore
    <2>2. [task[p] EXCEPT !.sent = k + 1] = new
      BY <1>1, <1>2 DEF TaskType
    <2>3. task'[p] = new /\ \A q \in Poller \ {p} : task'[q] = task[q]
      BY <1>2, <2>1, <2>2
    <2>4. Courier' = Of(new, p # Loop)
      BY <1>2, <2>3, HolderCourier
    <2>5. Courier' = [Courier EXCEPT !.sent = @ + 1]
      BY <1>3, <2>4 DEF Of
    <2>6. Ledger!Deliver
      BY <1>4, <1>5, <1>6, <1>7, <2>5 DEF SendMore, Ledger!Deliver
    <2>7. QED
      BY <2>6 DEF Ledger!Next
  <1>8. CASE SendLast(p)
    <2> DEFINE last == [lastDigest EXCEPT ![g] = d]
    <2>1. last \in [Guild -> Digest \cup {NoDigest}]
      BY <1>2
    <2>2. /\ lastDigest' = last /\ Post(p) /\ k + 1 = Messages[d]
          /\ Advance(p, Rest(p), last, d, {}) \/ Escape(p, "storage")
      BY <1>8 DEF SendLast
    <2>3. CASE Advance(p, Rest(p), last, d, {})
      <3> HIDE DEF last
      <3>1. Ledger!MoveOn
        BY <1>1, <2>1, <2>2, <2>3, MovesOn
      <3>2. Ledger!Deliver
        BY <1>4, <1>5, <1>6, <2>2, <3>1 DEF last, Ledger!Deliver
      <3>3. QED
        BY <3>2 DEF Ledger!Next
    <2>4. CASE Escape(p, "storage")
      <3>1. Courier' = Off
        BY <1>2, <2>4, LeavesOff DEF FaultKind
      <3>2. Ledger!MoveOn
        BY <3>1 DEF Off, Ledger!MoveOn, Ledger!Resting
      <3>3. Ledger!Deliver
        BY <1>4, <1>5, <1>6, <2>2, <3>2 DEF Ledger!Deliver
      <3>4. QED
        BY <3>3 DEF Ledger!Next
    <2>5. QED
      BY <2>2, <2>3, <2>4
  <1>9. CASE SendRefused(p) \/ SendBroken(p)
    <2>1. /\ lastDigest' = lastDigest
          /\ Post(p) \/ UNCHANGED posted
          /\ \/ Advance(p, Rest(p), lastDigest, d, {g})
             \/ \E f \in FaultKind : Escape(p, f)
      BY <1>9 DEF SendRefused, SendBroken, PostOrNot, FaultKind
    <2>2. Ledger!MoveOn
      <3>1. CASE Advance(p, Rest(p), lastDigest, d, {g})
        <4>1. {g} \in SUBSET Guild
          BY <1>2
        <4>2. QED
          BY <1>1, <1>2, <2>1, <3>1, <4>1, MovesOn
      <3>2. CASE \E f \in FaultKind : Escape(p, f)
        <4>1. Courier' = Off
          BY <1>2, <3>2, LeavesOff
        <4>2. QED
          BY <4>1 DEF Off, Ledger!MoveOn, Ledger!Resting
      <3>3. QED
        BY <2>1, <3>1, <3>2
    <2>3. Ledger!Fail
      BY <1>4, <1>5, <1>6, <2>1, <2>2 DEF Ledger!Fail
    <2>4. QED
      BY <2>3 DEF Ledger!Next
  <1>10. QED
    BY <1>7, <1>8, <1>9

(* A step of the alert cog is a step of the ledger, or none.               *)
LEMMA StepSimulates ==
  IInv /\ IInv' /\ RoundsOK /\ [Next]_vars => [Ledger!Next]_(Ledger!vars)
  <1> SUFFICES ASSUME IInv, IInv', RoundsOK, [Next]_vars
               PROVE  [Ledger!Next]_(Ledger!vars)
    OBVIOUS
  <1> USE DEF IInv
  <1>0. TypeOK /\ task \in [Poller -> TaskType] /\ Loop \in Poller
    BY DEF TypeOK, Poller
  <1>1. ASSUME UNCHANGED <<alerts, posted, lastDigest, feed>>,
               \A p \in Poller : \/ task'[p] = task[p]
                                 \/ task[p].pc # "sending" /\ task'[p].pc # "sending"
        PROVE  UNCHANGED Ledger!vars
    BY <1>1, SameCourier DEF Ledger!vars
  <1>2. CASE LoopTick \/ LoopTickFails
    <2>1. /\ \A q \in Poller \ {Loop} : task'[q] = task[q]
          /\ task[Loop].pc = "idle"
          /\ UNCHANGED <<alerts, posted, lastDigest, feed>>
      BY <1>0, <1>2 DEF LoopTick, LoopTickFails, history, world
    <2>2. CASE LoopTick
      <3> DEFINE new == [Idle EXCEPT !.pc = "waiting", !.todo = alerts]
      <3>1. task' = [task EXCEPT ![Loop] = new] /\ new.pc = "waiting"
        BY <2>2 DEF LoopTick, Idle
      <3> HIDE DEF new
      <3>2. QED
        BY <1>0, <1>1, <2>1, <3>1
    <2>3. CASE LoopTickFails
      <3>1. task'[Loop].pc = "stopped"
        BY <1>0, <2>3, SetPc DEF LoopTickFails
      <3>2. QED
        BY <1>1, <2>1, <3>1
    <2>4. QED
      BY <1>2, <2>2, <2>3
  <1>3. ASSUME NEW p \in Command, Configure(p)
        PROVE  [Ledger!Next]_(Ledger!vars)
    <2>0. p \in Poller /\ task[p] \in TaskType
      BY <1>0 DEF Poller
    <2>1. /\ UNCHANGED <<posted, lastDigest, feed>>
          /\ task[p].pc \in {"idle", "deferring"}
      BY <1>3 DEF Configure, ConfigureBegin, ConfigureStore, ConfigureFails,
                  history, world
    <2>2. /\ \A q \in Poller \ {p} : task'[q] = task[q]
          /\ task'[p].pc # "sending"
      <3>1. ASSUME NEW c \in Channel, ConfigureBegin(p, c) PROVE <2>2!1 /\ <2>2!2
        <4> DEFINE new == [Idle EXCEPT !.pc = "deferring", !.todo = Only(Owner[c], c)]
        <4>1. task' = [task EXCEPT ![p] = new] /\ new.pc = "deferring"
          BY <3>1 DEF ConfigureBegin, Idle
        <4> HIDE DEF new
        <4>2. QED
          BY <1>0, <2>0, <4>1
      <3>2. CASE ConfigureStore(p)
        BY <1>0, <2>0, <3>2, SetPc DEF ConfigureStore, PollPc
      <3>3. CASE ConfigureFails(p)
        BY <1>0, <2>0, <3>3 DEF ConfigureFails, Idle
      <3>4. QED
        BY <1>3, <3>1, <3>2, <3>3 DEF Configure
    <2>3. UNCHANGED Courier
      BY <2>1, <2>2, SameCourier
    <2>4. CASE UNCHANGED alerts
      BY <2>1, <2>3, <2>4 DEF Ledger!vars
    <2>5. CASE Upsert(task[p].todo)
      <3> DEFINE todo == task[p].todo
      <3>1. /\ todo \in [Guild -> Channel \cup {NoChannel}]
            /\ alerts \in [Guild -> Channel \cup {NoChannel}]
        BY <1>0, <2>0 DEF TypeOK, TaskType
      <3>2. alerts' = [g \in Guild |-> IF todo[g] # NoChannel THEN todo[g] ELSE alerts[g]]
        BY <2>5 DEF Upsert
      <3>3. \A g, h \in Listed(todo) : g = h
        BY <2>0 DEF RoundsOK, RoundOK
      <3> HIDE DEF todo
      <3>4. CASE Listed(todo) = {}
        <4>1. alerts' = alerts
          BY <3>1, <3>2, <3>4 DEF Listed
        <4>2. QED
          BY <2>4, <4>1
      <3>5. ASSUME NEW g \in Listed(todo) PROVE [Ledger!Next]_(Ledger!vars)
        <4>1. g \in Guild /\ todo[g] \in Channel
          BY <3>1 DEF Listed
        <4>2. \A h \in Guild \ {g} : todo[h] = NoChannel
          BY <3>3 DEF Listed
        <4>3. alerts' = [alerts EXCEPT ![g] = todo[g]]
          BY <3>1, <3>2, <4>1, <4>2
        <4>4. Ledger!Subscribe
          BY <2>1, <2>3, <4>1, <4>3 DEF Ledger!Subscribe
        <4>5. QED
          BY <4>4 DEF Ledger!Next
      <3>6. QED
        BY <3>4, <3>5
    <2>6. QED
      BY <1>3, <2>4, <2>5
      DEF Configure, ConfigureBegin, ConfigureStore, ConfigureFails
  <1>4. ASSUME NEW p \in Poller, Poll(p)
        PROVE  [Ledger!Next]_(Ledger!vars)
    <2>1. CASE Acquire(p)
      <3>1. /\ UNCHANGED <<alerts, posted, lastDigest, feed>>
            /\ task[p].pc = "waiting"
        BY <2>1 DEF Acquire, history, world
      <3>2. /\ \A q \in Poller \ {p} : task'[q] = task[q]
            /\ task'[p].pc = "fetching"
        BY <1>0, <2>1, SetPc DEF Acquire, PollPc
      <3>3. QED
        BY <1>1, <3>1, <3>2
    <2>2. CASE FetchOk(p)
      <3>0. /\ UNCHANGED <<alerts, posted, lastDigest, feed>>
            /\ task[p].pc = "fetching" /\ Polling(p)
            /\ Advance(p, task[p].todo, lastDigest, feed, {})
        BY <2>2 DEF FetchOk, world, Polling
      <3>1. /\ task[p].todo \in [Guild -> Channel \cup {NoChannel}]
            /\ feed \in Digest /\ lastDigest \in [Guild -> Digest \cup {NoDigest}]
        BY <1>0 DEF TypeOK, TaskType
      <3>2. /\ \A q \in Poller \ {p} : task'[q] = task[q]
            /\ \/ task'[p].pc \in {"idle", "stopped"}
               \/ /\ task'[p].pc = "sending"
                  /\ task'[p].digest = feed
                  /\ task'[p].sent = 0
                  /\ task'[p].guild \in Listed(task[p].todo)
                  /\ p = Loop => lastDigest[task'[p].guild] # feed
        BY <1>0, <3>0, <3>1, AdvanceRound
      <3>3. CASE task'[p].pc # "sending"
        BY <1>1, <3>0, <3>2, <3>3
      <3>4. CASE task'[p].pc = "sending"
        <4>1. Courier = Off /\ Courier' = Of(task'[p], p # Loop)
          BY <3>0, <3>2, <3>4, HolderCourier
        <4>2. ~Ledger!Underway
          BY <4>1 DEF Ledger!Underway, Ledger!Resting, Off
        <4>3. task'[p].guild \in Guild /\ (p # Loop) \in BOOLEAN
          BY <3>2, <3>4 DEF Listed
        <4>4. Courier' = Ledger!Bringing(task'[p].guild, feed, p # Loop)
          BY <3>2, <3>4, <4>1 DEF Of, Ledger!Bringing
        <4>5. Ledger!SetOut
          BY <3>0, <3>2, <3>4, <4>2, <4>3, <4>4 DEF Ledger!SetOut
        <4>6. QED
          BY <4>5 DEF Ledger!Next
      <3>5. QED
        BY <3>3, <3>4
    <2>3. CASE FetchFails(p)
      <3>1. /\ UNCHANGED <<alerts, posted, lastDigest, feed>>
            /\ task[p].pc = "fetching" /\ Polling(p)
            /\ Return(p) \/ \E f \in FaultKind : Escape(p, f)
        BY <2>3 DEF FetchFails, world, Polling, FaultKind
      <3>2. Courier = Off /\ Courier' = Off
        BY <3>1, LeavesOff
      <3>3. QED
        BY <3>1, <3>2 DEF Ledger!vars
    <2>4. QED
      BY <1>4, <2>1, <2>2, <2>3, SendSimulates DEF Poll
  <1>5. CASE Environment
    <2>1. ASSUME NEW g \in Guild, RemoveAlert(g) \/ GuildRemove(g)
          PROVE  [Ledger!Next]_(Ledger!vars)
      <3>1. /\ UNCHANGED <<posted, feed, task>>
            /\ \/ alerts' = [alerts EXCEPT ![g] = NoChannel]
               \/ UNCHANGED <<alerts, lastDigest>>
            /\ lastDigest' \in {lastDigest, [lastDigest EXCEPT ![g] = NoDigest]}
        BY <2>1 DEF RemoveAlert, GuildRemove, world
      <3>2. UNCHANGED Courier
        BY <3>1, SameCourier
      <3>3. Ledger!Unsubscribe \/ UNCHANGED Ledger!vars
        BY <3>1, <3>2 DEF Ledger!Unsubscribe, Ledger!vars
      <3>4. QED
        BY <3>3 DEF Ledger!Next
    <2>2. ASSUME NEW d \in Digest, FeedChange(d)
          PROVE  [Ledger!Next]_(Ledger!vars)
      <3>1. UNCHANGED <<alerts, posted, lastDigest, task>> /\ feed' = d
        BY <2>2 DEF FeedChange, history
      <3>2. UNCHANGED Courier
        BY <3>1, SameCourier
      <3>3. Ledger!Publish
        BY <3>1, <3>2 DEF Ledger!Publish
      <3>4. QED
        BY <3>3 DEF Ledger!Next
    <2>3. ASSUME NEW gone \in SUBSET members, Restart(gone)
          PROVE  [Ledger!Next]_(Ledger!vars)
      <3>1. /\ task' = [p \in Poller |-> Idle]
            /\ lastDigest' = [g \in Guild |-> NoDigest]
            /\ posted' = [g \in Guild |-> {}]
            /\ UNCHANGED <<alerts, feed>>
        BY <2>3 DEF Restart
      <3>2. Courier' = Off
        BY <3>1, CourierIsNext DEF Idle
      <3>3. Ledger!Restart
        BY <3>1, <3>2 DEF Ledger!Restart, Ledger!Blank, Ledger!Resting, Off
      <3>4. QED
        BY <3>3 DEF Ledger!Next
    <2>4. ASSUME UNCHANGED <<alerts, posted, lastDigest, feed, task>>
          PROVE  [Ledger!Next]_(Ledger!vars)
      BY <1>1, <2>4
    <2>5. QED
      BY <1>5, <2>1, <2>2, <2>3, <2>4
      DEF Environment, GuildJoin, ChannelDelete, history
  <1>6. CASE UNCHANGED vars
    BY <1>1, <1>6 DEF vars
  <1>7. QED
    BY <1>2, <1>3, <1>4, <1>5, <1>6 DEF Next

(* An initial state of the alert cog is one of the ledger.                 *)
LEMMA InitSimulates == Init => Ledger!Init
  <1> SUFFICES ASSUME Init PROVE Ledger!Init
    OBVIOUS
  <1>1. Courier = Off
    BY InitIInv, CourierIs DEF IInv, Init, Idle
  <1>2. QED
    BY <1>1
    DEF Init, Nothing, Off, Ledger!Init, Ledger!Blank, Ledger!Resting

(* The lock, the loop and the commands, with every fault and restart,      *)
(* behave as one courier (free_game_alerts.py:155-229).                    *)
THEOREM ActsAsOneCourier == Spec => OneCourier
  <1>1. Init => RoundsOK /\ Ledger!Init
    BY InitRounds, InitSimulates
  <1>2. Spec => []RoundsOK
    BY InitRounds, NextRounds, Invariance, PTL DEF Spec
  <1>3. QED
    BY <1>1, <1>2, Invariance, StepSimulates, PTL
    DEF Spec, OneCourier, Ledger!Spec
=============================================================================
