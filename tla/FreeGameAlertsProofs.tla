------------------------ MODULE FreeGameAlertsProofs ------------------------
(***************************************************************************)
(* Theorems about FreeGameAlerts for any guilds, channels, digests and     *)
(* number of concurrent commands, with every fault: the invariants of the  *)
(* polls, and that their lock is never lost.                               *)
(***************************************************************************)
EXTENDS FreeGameAlerts, SequenceTheorems, TLAPS

(* A task that polls holds the lock.                                       *)
HoldsLock ==
  \A p \in Poller : Polling(p) => pollLock # << >> /\ Head(pollLock) = p

(* What a task knows while it sends: the messages counted as sent are      *)
(* there, and the loop sends only what is not remembered for its guild.    *)
SendingOK(p) ==
  task[p].pc = "sending" =>
    /\ task[p].guild \in Guild
    /\ task[p].digest \in Digest
    /\ task[p].sent < Messages[task[p].digest]
    /\ \A k \in 1 .. task[p].sent :
         <<task[p].digest, k>> \in posted[task[p].guild]
    /\ p = Loop => lastDigest[task[p].guild] # task[p].digest
AllSendingOK == \A p \in Poller : SendingOK(p)

IInv == TypeOK /\ HoldsLock /\ AllSendingOK /\ DigestNeverAhead

USE GuildAssumption, ChannelAssumption, DigestAssumption, TaskAssumption,
    FaultAssumption

(* The records a step stores in task are tasks.                            *)
LEMMA IdleType == Idle \in TaskType /\ [Idle EXCEPT !.pc = "stopped"] \in TaskType
  BY DEF Idle, TaskType, Nothing, PollPc

(* What changes, and what does not, when a task moves to another await.    *)
LEMMA SetPc ==
  ASSUME TypeOK, NEW p \in Poller,
         NEW v \in PollPc \cup {"idle", "deferring", "stopped"},
         task' = [task EXCEPT ![p].pc = v]
  PROVE  /\ task' \in [Poller -> TaskType]
         /\ \A q \in Poller \ {p} : task'[q] = task[q]
         /\ task'[p].pc = v
  <1> DEFINE t == task[p]
             new == [pc |-> v, todo |-> t.todo, guild |-> t.guild,
                     digest |-> t.digest, sent |-> t.sent]
  <1>1. task \in [Poller -> TaskType] /\ t \in TaskType
    BY DEF TypeOK
  <1>2. task' = [task EXCEPT ![p] = [t EXCEPT !.pc = v]]
    OBVIOUS
  <1>3. [t EXCEPT !.pc = v] = new
    BY <1>1 DEF TaskType
  <1>4. new \in TaskType /\ new.pc = v
    BY <1>1 DEF TaskType
  <1> HIDE DEF new
  <1>5. task' = [task EXCEPT ![p] = new]
    BY <1>2, <1>3
  <1> HIDE DEF t
  <1>6. QED
    BY <1>1, <1>4, <1>5

(* Taking the lock away from its holder leaves no other task polling.      *)
LEMMA OthersOut ==
  ASSUME HoldsLock, NEW p \in Poller, Polling(p)
  PROVE  /\ pollLock # << >>
         /\ \A q \in Poller \ {p} : ~Polling(q)
  BY DEF HoldsLock

(* Return and Escape keep the types and take p out of the poll.            *)
LEMMA LeaveType ==
  ASSUME TypeOK, pollLock # << >>, NEW p \in Poller,
         Return(p) \/ \E f \in FaultKind : Escape(p, f)
  PROVE  /\ task' \in [Poller -> TaskType]
         /\ pollLock' \in Seq(Poller)
         /\ task'[p].pc \in {"idle", "stopped"}
         /\ \A q \in Poller \ {p} : task'[q] = task[q]
  <1>1. task \in [Poller -> TaskType] /\ pollLock \in Seq(Poller)
    BY DEF TypeOK
  <1>2. Tail(pollLock) \in Seq(Poller)
    BY <1>1
  <1>3. Idle.pc = "idle" /\ [Idle EXCEPT !.pc = "stopped"].pc = "stopped"
    BY DEF Idle
  <1>4. CASE Return(p)
    BY <1>1, <1>2, <1>3, <1>4, IdleType DEF Return
  <1>5. CASE \E f \in FaultKind : Escape(p, f)
    BY <1>1, <1>2, <1>3, <1>5, IdleType DEF Escape
  <1>6. QED
    BY <1>4, <1>5

(* Advance either leaves the poll or starts a send: to a guild of the list *)
(* it was given, from its first message, and, for the loop, of a digest    *)
(* that is not remembered for the guild.                                   *)
LEMMA AdvanceStep ==
  ASSUME TypeOK, pollLock # << >>, NEW p \in Poller, NEW d \in Digest,
         NEW todo \in [Guild -> Channel \cup {NoChannel}],
         NEW last \in [Guild -> Digest \cup {NoDigest}],
         NEW failed \in SUBSET Guild,
         Advance(p, todo, last, d, failed)
  PROVE  /\ task' \in [Poller -> TaskType]
         /\ pollLock' \in Seq(Poller)
         /\ owed' \subseteq Guild
         /\ \A q \in Poller \ {p} : task'[q] = task[q]
         /\ \/ task'[p].pc \in {"idle", "stopped"}
            \/ /\ pollLock' = pollLock
               /\ task'[p].pc = "sending"
               /\ task'[p].guild \in Guild
               /\ task'[p].digest = d
               /\ task'[p].sent = 0
               /\ p = Loop => last[task'[p].guild] # d
  <1> DEFINE ready == ReadyTo(p, todo, last, d)
             due == Due(p, todo, last, d)
  <1>1. /\ task \in [Poller -> TaskType] /\ pollLock \in Seq(Poller)
        /\ owed \subseteq Guild
    BY DEF TypeOK
  <1>2. due \subseteq Guild /\ ready \subseteq due
    BY DEF Due, ReadyTo, Listed
  <1>3. CASE ready = {} /\ Return(p)
               /\ owed' = IF p = Loop THEN owed \ due
                                      ELSE owed \cup due \cup failed
    <2>1. owed' \subseteq Guild
      BY <1>1, <1>2, <1>3
    <2>2. QED
      BY <1>3, <2>1, LeaveType
  <1>4. ASSUME NEW g \in ready, SendNext(p, todo, d, g),
               owed' = IF p = Loop THEN owed \ {h \in due : h <= g} ELSE owed
        PROVE  /\ task' \in [Poller -> TaskType]
               /\ pollLock' = pollLock
               /\ owed' \subseteq Guild
               /\ \A q \in Poller \ {p} : task'[q] = task[q]
               /\ task'[p].pc = "sending"
               /\ task'[p].guild = g
               /\ task'[p].digest = d
               /\ task'[p].sent = 0
               /\ p = Loop => last[g] # d
    <2> DEFINE rest == [h \in Guild |-> IF h < g THEN NoChannel ELSE todo[h]]
               new == [pc |-> "sending", guild |-> g, digest |-> d, sent |-> 0,
                       todo |-> rest]
    <2>1. g \in Guild /\ (p = Loop => last[g] # d)
      BY <1>2, <1>4 DEF ReadyTo, Due
    <2>2. rest \in [Guild -> Channel \cup {NoChannel}]
      OBVIOUS
    <2>3. new \in TaskType
      BY <2>1, <2>2 DEF TaskType, PollPc
    <2>4. task' = [task EXCEPT ![p] = new] /\ pollLock' = pollLock
      BY <1>4 DEF SendNext
    <2>5. task'[p] = new
      BY <2>4, <1>1
    <2>6. owed' \subseteq Guild
      BY <1>1, <1>4
    <2> HIDE DEF rest
    <2>7. QED
      BY <1>1, <2>1, <2>3, <2>4, <2>5, <2>6
  <1>5. CASE Escape(p, "storage") /\ UNCHANGED owed
    BY <1>1, <1>5, LeaveType DEF FaultKind
  <1>6. \/ ready = {} /\ Return(p)
             /\ owed' = IF p = Loop THEN owed \ due
                                    ELSE owed \cup due \cup failed
        \/ \E g \in ready :
             /\ SendNext(p, todo, d, g)
             /\ owed' = IF p = Loop THEN owed \ {h \in due : h <= g} ELSE owed
        \/ Escape(p, "storage") /\ UNCHANGED owed
    BY DEF Advance
  <1> HIDE DEF ready, due
  <1>7. CASE \E g \in ready :
             /\ SendNext(p, todo, d, g)
             /\ owed' = IF p = Loop THEN owed \ {h \in due : h <= g} ELSE owed
    <2>1. PICK g \in ready : 
             /\ SendNext(p, todo, d, g)
             /\ owed' = IF p = Loop THEN owed \ {h \in due : h <= g} ELSE owed
      BY <1>7
    <2>2. g \in Guild
      BY <1>2
    <2>3. QED
      BY <2>1, <2>2, <1>1, <1>4
  <1>8. QED
    BY <1>3, <1>5, <1>6, <1>7

-----------------------------------------------------------------------------
(* The initial states satisfy the invariant.                               *)
LEMMA InitIInv == Init => IInv
  <1> SUFFICES ASSUME Init PROVE IInv
    OBVIOUS
  <1>1. TypeOK
    BY IdleType DEF Init, TypeOK, Nothing
  <1>2. \A p \in Poller : task[p].pc = "idle"
    BY DEF Init, Idle
  <1>3. HoldsLock /\ AllSendingOK
    BY <1>2 DEF HoldsLock, AllSendingOK, SendingOK, Polling
  <1>4. DigestNeverAhead
    BY DEF Init, DigestNeverAhead
  <1>5. QED
    BY <1>1, <1>3, <1>4 DEF IInv

(* A step that changes neither what is remembered nor what was posted and  *)
(* in which a task that is not polling changes keeps the invariant.        *)
LEMMA OutsideStep ==
  ASSUME IInv, TypeOK',
         UNCHANGED <<lastDigest, posted>>,
         \A q \in Poller : Polling(q)' => task'[q] = task[q],
         pollLock' = pollLock \/ \E p \in Poller : pollLock' = Append(pollLock, p)
  PROVE  IInv'
  <1>1. pollLock \in Seq(Poller) /\ posted' = posted /\ lastDigest' = lastDigest
    BY DEF IInv, TypeOK
  <1>2. pollLock # << >> => pollLock' # << >> /\ Head(pollLock') = Head(pollLock)
    BY <1>1
  <1>3. HoldsLock'
    BY <1>2 DEF IInv, HoldsLock, Polling
  <1>4. AllSendingOK'
    BY <1>1 DEF IInv, AllSendingOK, SendingOK, Polling
  <1>5. DigestNeverAhead'
    BY <1>1 DEF IInv, DigestNeverAhead, Complete
  <1>6. QED
    BY <1>3, <1>4, <1>5 DEF IInv

(* A step of the lock's holder that leaves the memory of the digests alone *)
(* and after which p is out of the poll or starts a send it may start.     *)
LEMMA HolderStep ==
  ASSUME IInv, TypeOK', NEW p \in Poller, Polling(p),
         \A g \in Guild : posted[g] \subseteq posted'[g],
         DigestNeverAhead',
         \A q \in Poller \ {p} : task'[q] = task[q],
         \/ task'[p].pc \in {"idle", "stopped"}
         \/ /\ pollLock' = pollLock
            /\ SendingOK(p)'
  PROVE  IInv'
  <1>1. pollLock # << >> /\ Head(pollLock) = p
    BY DEF IInv, HoldsLock
  <1>2. \A q \in Poller \ {p} : ~Polling(q)'
    BY OthersOut DEF IInv, Polling
  <1>3. HoldsLock'
    BY <1>1, <1>2 DEF HoldsLock, Polling
  <1>4. AllSendingOK'
    BY <1>2 DEF AllSendingOK, SendingOK, Polling
  <1>5. QED
    BY <1>3, <1>4 DEF IInv

-----------------------------------------------------------------------------
(* Reading the list, or failing to, is outside every poll.                 *)
LEMMA LoopTickStep == IInv /\ (LoopTick \/ LoopTickFails) => IInv'
  <1> SUFFICES ASSUME IInv, LoopTick \/ LoopTickFails PROVE IInv'
    OBVIOUS
  <1> USE DEF IInv
  <1>0. Loop \in Poller /\ TypeOK
    BY DEF Poller
  <1>1. CASE LoopTick
    <2> DEFINE new == [Idle EXCEPT !.pc = "waiting", !.todo = alerts]
    <2>1. new \in TaskType /\ new.pc = "waiting"
      BY <1>0 DEF TypeOK, TaskType, Idle, PollPc, Nothing
    <2>2. /\ task' = [task EXCEPT ![Loop] = new]
          /\ pollLock' = Append(pollLock, Loop)
          /\ UNCHANGED <<lastDigest, posted>>
      BY <1>1 DEF LoopTick, history
    <2> HIDE DEF new
    <2>3. TypeOK'
      BY <1>0, <1>1, <2>1, <2>2 DEF LoopTick, TypeOK, history, world
    <2>4. \A q \in Poller : Polling(q)' => task'[q] = task[q]
      BY <1>0, <2>1, <2>2 DEF TypeOK, Polling
    <2>5. QED
      BY <1>0, <2>2, <2>3, <2>4, OutsideStep
  <1>2. CASE LoopTickFails
    <2>0. /\ task' \in [Poller -> TaskType]
          /\ \A q \in Poller \ {Loop} : task'[q] = task[q]
          /\ task'[Loop].pc = "stopped"
      BY <1>0, <1>2, SetPc DEF LoopTickFails
    <2>1. TypeOK'
      BY <1>0, <1>2, <2>0 DEF LoopTickFails, TypeOK, history, world
    <2>2. \A q \in Poller : Polling(q)' => task'[q] = task[q]
      BY <2>0 DEF Polling
    <2>3. QED
      BY <1>2, <2>1, <2>2, OutsideStep DEF LoopTickFails, history
  <1>3. QED
    BY <1>1, <1>2

(* So is everything a command does before its poll.                        *)
LEMMA ConfigureStep == ASSUME NEW p \in Command PROVE IInv /\ Configure(p) => IInv'
  <1> SUFFICES ASSUME IInv, Configure(p) PROVE IInv'
    OBVIOUS
  <1> USE DEF IInv
  <1>0. p \in Poller /\ TypeOK /\ task[p] \in TaskType
    BY DEF Poller, TypeOK
  <1>1. ASSUME NEW c \in Channel, ConfigureBegin(p, c) PROVE IInv'
    <2> DEFINE new == [Idle EXCEPT !.pc = "deferring", !.todo = Only(Owner[c], c)]
    <2>1. new \in TaskType /\ new.pc = "deferring"
      BY DEF TaskType, Idle, PollPc, Only, Nothing
    <2>2. task' = [task EXCEPT ![p] = new]
      BY <1>1 DEF ConfigureBegin
    <2> HIDE DEF new
    <2>3. TypeOK'
      BY <1>0, <1>1, <2>1, <2>2 DEF ConfigureBegin, TypeOK, history, world
    <2>4. \A q \in Poller : Polling(q)' => task'[q] = task[q]
      BY <1>0, <2>1, <2>2 DEF TypeOK, Polling
    <2>5. QED
      BY <1>1, <2>3, <2>4, OutsideStep DEF ConfigureBegin, history
  <1>2. CASE ConfigureStore(p)
    <2>1. alerts' \in [Guild -> Channel \cup {NoChannel}]
      BY <1>0, <1>2 DEF ConfigureStore, Upsert, TypeOK, TaskType
    <2>0. /\ task' \in [Poller -> TaskType]
          /\ \A q \in Poller \ {p} : task'[q] = task[q]
          /\ task'[p].pc = "waiting"
      BY <1>0, <1>2, SetPc DEF ConfigureStore, PollPc
    <2>2. TypeOK'
      BY <1>0, <1>2, <2>0, <2>1 DEF ConfigureStore, TypeOK, world
    <2>3. \A q \in Poller : Polling(q)' => task'[q] = task[q]
      BY <2>0 DEF Polling
    <2>4. QED
      BY <1>0, <1>2, <2>2, <2>3, OutsideStep DEF ConfigureStore
  <1>3. CASE ConfigureFails(p)
    <2>0. alerts' \in [Guild -> Channel \cup {NoChannel}]
      BY <1>0, <1>3 DEF ConfigureFails, Upsert, TypeOK, TaskType
    <2>1. TypeOK'
      BY <1>0, <1>3, <2>0, IdleType DEF ConfigureFails, TypeOK, history, world
    <2>2. \A q \in Poller : Polling(q)' => task'[q] = task[q]
      BY <1>0, <1>3 DEF ConfigureFails, TypeOK, Idle, Polling
    <2>3. QED
      BY <1>3, <2>1, <2>2, OutsideStep DEF ConfigureFails, history
  <1>4. QED
    BY <1>1, <1>2, <1>3 DEF Configure

(* Only the head of the queue enters the poll.                             *)
LEMMA AcquireStep == ASSUME NEW p \in Poller PROVE IInv /\ Acquire(p) => IInv'
  <1> SUFFICES ASSUME IInv, Acquire(p) PROVE IInv'
    OBVIOUS
  <1>1. TypeOK /\ pollLock # << >> /\ Head(pollLock) = p /\ task[p].pc = "waiting"
    BY DEF IInv, Acquire
  <1>2. /\ task' \in [Poller -> TaskType]
        /\ \A q \in Poller \ {p} : task'[q] = task[q]
        /\ task'[p].pc = "fetching"
    BY <1>1, SetPc DEF Acquire, PollPc
  <1>3. UNCHANGED <<pollLock, lastDigest, posted>>
    BY DEF Acquire, history
  <1>4. TypeOK'
    BY <1>1, <1>2 DEF Acquire, TypeOK, history, world
  <1>5. HoldsLock'
    BY <1>1, <1>2, <1>3 DEF IInv, HoldsLock, Polling
  <1>6. AllSendingOK'
    BY <1>2, <1>3 DEF IInv, AllSendingOK, SendingOK
  <1>7. DigestNeverAhead'
    BY <1>3 DEF IInv, DigestNeverAhead, Complete
  <1>8. QED
    BY <1>4, <1>5, <1>6, <1>7 DEF IInv

(* The fetch ends: the holder leaves or starts its first send.             *)
LEMMA FetchStep ==
  ASSUME NEW p \in Poller PROVE IInv /\ (FetchOk(p) \/ FetchFails(p)) => IInv'
  <1> SUFFICES ASSUME IInv, FetchOk(p) \/ FetchFails(p) PROVE IInv'
    OBVIOUS
  <1>1. TypeOK /\ Polling(p) /\ task[p] \in TaskType
    BY DEF IInv, TypeOK, FetchOk, FetchFails, Polling
  <1>2. pollLock # << >>
    BY <1>1, OthersOut DEF IInv
  <1>3. UNCHANGED <<lastDigest, posted>>
    BY DEF FetchOk, FetchFails
  <1>4. DigestNeverAhead' /\ \A g \in Guild : posted[g] \subseteq posted'[g]
    BY <1>3 DEF IInv, DigestNeverAhead, Complete
  <1>5. CASE FetchOk(p)
    <2>1. task[p].todo \in [Guild -> Channel \cup {NoChannel}]
      BY <1>1 DEF TaskType
    <2>2. Advance(p, task[p].todo, lastDigest, feed, {})
      BY <1>5 DEF FetchOk
    <2>3. feed \in Digest /\ lastDigest \in [Guild -> Digest \cup {NoDigest}]
      BY <1>1 DEF TypeOK
    <2>4. /\ task' \in [Poller -> TaskType]
          /\ pollLock' \in Seq(Poller)
          /\ owed' \subseteq Guild
          /\ \A q \in Poller \ {p} : task'[q] = task[q]
          /\ \/ task'[p].pc \in {"idle", "stopped"}
             \/ /\ pollLock' = pollLock
                /\ task'[p].pc = "sending"
                /\ task'[p].guild \in Guild
                /\ task'[p].digest = feed
                /\ task'[p].sent = 0
                /\ p = Loop => lastDigest[task'[p].guild] # feed
      BY <1>1, <1>2, <2>1, <2>2, <2>3, AdvanceStep
    <2>5. TypeOK'
      BY <1>1, <1>5, <2>4 DEF FetchOk, TypeOK, world
    <2>6. Messages[feed] \in Nat \ {0}
      BY <2>3 DEF OneMessage
    <2>7. task'[p].pc = "sending" => SendingOK(p)'
      BY <1>3, <2>3, <2>4, <2>6 DEF SendingOK
    <2>8. QED
      BY <1>1, <1>4, <2>4, <2>5, <2>7, HolderStep
  <1>6. CASE FetchFails(p)
    <2>1. Return(p) \/ \E f \in FaultKind : Escape(p, f)
      BY <1>6 DEF FetchFails, FaultKind
    <2>2. /\ task' \in [Poller -> TaskType]
          /\ pollLock' \in Seq(Poller)
          /\ task'[p].pc \in {"idle", "stopped"}
          /\ \A q \in Poller \ {p} : task'[q] = task[q]
      BY <1>1, <1>2, <2>1, LeaveType
    <2>3. owed' \subseteq Guild
      BY <1>1, <1>6 DEF FetchFails, TypeOK, Listed
    <2>4. TypeOK'
      BY <1>1, <1>6, <2>2, <2>3 DEF FetchFails, TypeOK, world
    <2>5. QED
      BY <1>1, <1>4, <2>2, <2>4, HolderStep
  <1>7. QED
    BY <1>5, <1>6

-----------------------------------------------------------------------------
(* A posted message is added to what its guild has.                        *)
LEMMA PostGrows ==
  ASSUME TypeOK, NEW p \in Poller, task[p].guild \in Guild,
         task[p].digest \in Digest, Post(p)
  PROVE  /\ posted' \in [Guild -> SUBSET (Digest \X Nat)]
         /\ \A g \in Guild : posted[g] \subseteq posted'[g]
         /\ <<task[p].digest, task[p].sent + 1>> \in posted'[task[p].guild]
  <1>1. task[p] \in TaskType /\ posted \in [Guild -> SUBSET (Digest \X Nat)]
    BY DEF TypeOK
  <1>2. task[p].sent + 1 \in Nat
    BY <1>1 DEF TaskType
  <1>3. <<task[p].digest, task[p].sent + 1>> \in Digest \X Nat
    BY <1>2
  <1>4. QED
    BY <1>1, <1>3 DEF Post

(* What was remembered stays covered when messages are only added.         *)
LEMMA StillNotAhead ==
  ASSUME DigestNeverAhead, UNCHANGED lastDigest,
         \A g \in Guild : posted[g] \subseteq posted'[g]
  PROVE  DigestNeverAhead'
  BY DEF DigestNeverAhead, Complete

(* What holds of the holder at the moment a send ends.                     *)
LEMMA SendingFacts ==
  ASSUME IInv, NEW p \in Poller, task[p].pc = "sending"
  PROVE  /\ TypeOK /\ Polling(p) /\ pollLock # << >>
         /\ task[p].guild \in Guild /\ task[p].digest \in Digest
         /\ task[p].sent \in Nat
         /\ Rest(p) \in [Guild -> Channel \cup {NoChannel}]
         /\ SendingOK(p) /\ DigestNeverAhead
  <1>1. TypeOK /\ Polling(p) /\ DigestNeverAhead /\ SendingOK(p)
    BY DEF IInv, AllSendingOK, Polling
  <1>2. task[p] \in TaskType
    BY <1>1 DEF TypeOK
  <1>3. Rest(p) \in [Guild -> Channel \cup {NoChannel}]
    BY <1>2 DEF Rest, TaskType
  <1>4. pollLock # << >>
    BY <1>1, OthersOut DEF IInv
  <1>5. QED
    BY <1>1, <1>2, <1>3, <1>4 DEF SendingOK, TaskType

(* A message of several lands and the next one is under way.               *)
LEMMA SendMoreStep == ASSUME NEW p \in Poller PROVE IInv /\ SendMore(p) => IInv'
  <1> SUFFICES ASSUME IInv, SendMore(p) PROVE IInv'
    OBVIOUS
  <1> DEFINE t == task[p]
             new == [pc |-> "sending", todo |-> t.todo, guild |-> t.guild,
                     digest |-> t.digest, sent |-> t.sent + 1]
  <1>1. t.pc = "sending"
    BY DEF SendMore
  <1>2. /\ TypeOK /\ Polling(p) /\ pollLock # << >>
        /\ t.guild \in Guild /\ t.digest \in Digest /\ t.sent \in Nat
        /\ SendingOK(p) /\ DigestNeverAhead
    BY <1>1, SendingFacts
  <1>3. task \in [Poller -> TaskType] /\ t \in TaskType
    BY <1>2 DEF TypeOK
  <1>4. task' = [task EXCEPT ![p] = [t EXCEPT !.sent = t.sent + 1]]
    BY DEF SendMore
  <1>5. [t EXCEPT !.sent = t.sent + 1] = new
    BY <1>1, <1>3 DEF TaskType
  <1>6. new \in TaskType
    BY <1>2, <1>3 DEF TaskType, PollPc
  <1>7. task' = [task EXCEPT ![p] = new]
    BY <1>4, <1>5
  <1>8. task'[p] = new /\ \A q \in Poller \ {p} : task'[q] = task[q]
    BY <1>3, <1>7
  <1>9. task' \in [Poller -> TaskType]
    BY <1>3, <1>6, <1>7
  <1>10. /\ posted' \in [Guild -> SUBSET (Digest \X Nat)]
         /\ \A g \in Guild : posted[g] \subseteq posted'[g]
         /\ <<t.digest, t.sent + 1>> \in posted'[t.guild]
    BY <1>2, PostGrows DEF SendMore
  <1>11. UNCHANGED <<lastDigest, pollLock>>
    BY DEF SendMore
  <1>12. DigestNeverAhead'
    BY <1>2, <1>10, <1>11, StillNotAhead
  <1>13. TypeOK'
    BY <1>2, <1>9, <1>10 DEF SendMore, TypeOK, world
  <1>14. t.sent + 1 < Messages[t.digest]
    BY DEF SendMore
  <1>15. \A k \in 1 .. t.sent + 1 : <<t.digest, k>> \in posted'[t.guild]
    <2> TAKE k \in 1 .. t.sent + 1
    <2>1. CASE k = t.sent + 1
      BY <1>10, <2>1
    <2>2. CASE k \in 1 .. t.sent
      BY <1>1, <1>2, <1>10, <2>2 DEF SendingOK
    <2>3. QED
      BY <1>2, <2>1, <2>2
  <1>16. p = Loop => lastDigest[t.guild] # t.digest
    BY <1>1, <1>2 DEF SendingOK
  <1>17. SendingOK(p)'
    BY <1>2, <1>8, <1>11, <1>14, <1>15, <1>16 DEF SendingOK
  <1>18. QED
    BY <1>2, <1>8, <1>10, <1>11, <1>12, <1>13, <1>17, HolderStep

(* The last message lands: only now is the digest remembered.              *)
LEMMA SendLastStep == ASSUME NEW p \in Poller PROVE IInv /\ SendLast(p) => IInv'
  <1> SUFFICES ASSUME IInv, SendLast(p) PROVE IInv'
    OBVIOUS
  <1> DEFINE g == task[p].guild
             d == task[p].digest
             last == [lastDigest EXCEPT ![g] = d]
  <1>1. task[p].pc = "sending" /\ task[p].sent + 1 = Messages[d]
    BY DEF SendLast
  <1>2. /\ TypeOK /\ Polling(p) /\ pollLock # << >>
        /\ g \in Guild /\ d \in Digest /\ task[p].sent \in Nat
        /\ Rest(p) \in [Guild -> Channel \cup {NoChannel}]
        /\ SendingOK(p) /\ DigestNeverAhead
    BY <1>1, SendingFacts
  <1>3. /\ posted' \in [Guild -> SUBSET (Digest \X Nat)]
        /\ \A h \in Guild : posted[h] \subseteq posted'[h]
        /\ <<d, task[p].sent + 1>> \in posted'[g]
    BY <1>2, PostGrows DEF SendLast
  <1>4. lastDigest' = last
    BY DEF SendLast
  <1>5. last \in [Guild -> Digest \cup {NoDigest}]
    BY <1>2 DEF TypeOK
  <1>6. \A k \in 1 .. Messages[d] : <<d, k>> \in posted'[g]
    <2> TAKE k \in 1 .. Messages[d]
    <2>1. CASE k = task[p].sent + 1
      BY <1>3, <2>1
    <2>2. CASE k \in 1 .. task[p].sent
      BY <1>1, <1>2, <1>3, <2>2 DEF SendingOK
    <2>3. QED
      BY <1>1, <1>2, <2>1, <2>2
  <1>7. DigestNeverAhead'
    <2>1. ASSUME NEW h \in Guild, lastDigest'[h] # NoDigest,
                 NEW k \in 1 .. Messages[lastDigest'[h]]
          PROVE  <<lastDigest'[h], k>> \in posted'[h]
      <3>1. CASE h = g
        <4>1. lastDigest'[h] = d
          BY <1>2, <1>4, <3>1 DEF TypeOK
        <4>2. QED
          BY <1>6, <2>1, <3>1, <4>1
      <3>2. CASE h # g
        <4>1. lastDigest'[h] = lastDigest[h]
          BY <1>2, <1>4, <3>2 DEF TypeOK
        <4>2. QED
          BY <1>2, <1>3, <2>1, <4>1 DEF DigestNeverAhead, Complete
      <3>3. QED
        BY <3>1, <3>2
    <2>2. QED
      BY <2>1 DEF DigestNeverAhead, Complete
  <1>8. CASE Advance(p, Rest(p), last, d, {})
    <2> HIDE DEF last, g, d
    <2>1. /\ task' \in [Poller -> TaskType]
          /\ pollLock' \in Seq(Poller)
          /\ owed' \subseteq Guild
          /\ \A q \in Poller \ {p} : task'[q] = task[q]
          /\ \/ task'[p].pc \in {"idle", "stopped"}
             \/ /\ pollLock' = pollLock
                /\ task'[p].pc = "sending"
                /\ task'[p].guild \in Guild
                /\ task'[p].digest = d
                /\ task'[p].sent = 0
                /\ p = Loop => last[task'[p].guild] # d
      BY <1>2, <1>5, <1>8, AdvanceStep
    <2>3. TypeOK'
      BY <1>2, <1>3, <1>4, <1>5, <2>1 DEF SendLast, TypeOK, world
    <2>4. Messages[d] \in Nat \ {0}
      BY <1>2 DEF OneMessage
    <2>5. task'[p].pc = "sending" => SendingOK(p)'
      BY <1>2, <1>4, <2>1, <2>4 DEF SendingOK
    <2>6. QED
      BY <1>2, <1>3, <1>7, <2>1, <2>3, <2>5, HolderStep
  <1>9. CASE Escape(p, "storage") /\ UNCHANGED owed
    <2>1. /\ task' \in [Poller -> TaskType]
          /\ pollLock' \in Seq(Poller)
          /\ task'[p].pc \in {"idle", "stopped"}
          /\ \A q \in Poller \ {p} : task'[q] = task[q]
      BY <1>2, <1>9, LeaveType DEF FaultKind
    <2>3. TypeOK'
      BY <1>2, <1>3, <1>4, <1>5, <1>9, <2>1 DEF SendLast, TypeOK, world
    <2>4. QED
      BY <1>2, <1>3, <1>7, <2>1, <2>3, HolderStep
  <1>10. QED
    BY <1>8, <1>9 DEF SendLast

(* A refused or broken send records nothing, whether or not its message    *)
(* arrived.                                                                *)
LEMMA SendFailsStep ==
  ASSUME NEW p \in Poller PROVE IInv /\ (SendRefused(p) \/ SendBroken(p)) => IInv'
  <1> SUFFICES ASSUME IInv, SendRefused(p) \/ SendBroken(p) PROVE IInv'
    OBVIOUS
  <1> DEFINE d == task[p].digest
  <1>1. task[p].pc = "sending"
    BY DEF SendRefused, SendBroken
  <1>2. /\ TypeOK /\ Polling(p) /\ pollLock # << >>
        /\ task[p].guild \in Guild /\ d \in Digest
        /\ Rest(p) \in [Guild -> Channel \cup {NoChannel}]
        /\ DigestNeverAhead
    BY <1>1, SendingFacts
  <1>3. /\ posted' \in [Guild -> SUBSET (Digest \X Nat)]
        /\ \A g \in Guild : posted[g] \subseteq posted'[g]
    <2>1. CASE UNCHANGED posted
      BY <1>2, <2>1 DEF TypeOK
    <2>2. CASE Post(p)
      BY <1>2, <2>2, PostGrows
    <2>3. QED
      BY <2>1, <2>2 DEF SendRefused, SendBroken, PostOrNot
  <1>4. UNCHANGED <<alerts, lastDigest, restarts, members, channels, feed>>
    BY DEF SendRefused, SendBroken, world
  <1>5. DigestNeverAhead'
    BY <1>2, <1>3, <1>4, StillNotAhead
  <1>6. CASE Advance(p, Rest(p), lastDigest, d, {task[p].guild})
    <2>1. lastDigest \in [Guild -> Digest \cup {NoDigest}]
      BY <1>2 DEF TypeOK
    <2>2. {task[p].guild} \in SUBSET Guild
      BY <1>2
    <2> HIDE DEF d
    <2>3. /\ task' \in [Poller -> TaskType]
          /\ pollLock' \in Seq(Poller)
          /\ owed' \subseteq Guild
          /\ \A q \in Poller \ {p} : task'[q] = task[q]
          /\ \/ task'[p].pc \in {"idle", "stopped"}
             \/ /\ pollLock' = pollLock
                /\ task'[p].pc = "sending"
                /\ task'[p].guild \in Guild
                /\ task'[p].digest = d
                /\ task'[p].sent = 0
                /\ p = Loop => lastDigest[task'[p].guild] # d
      BY <1>2, <1>6, <2>1, <2>2, AdvanceStep
    <2>4. TypeOK'
      BY <1>2, <1>3, <1>4, <2>3 DEF TypeOK
    <2>5. Messages[d] \in Nat \ {0}
      BY <1>2 DEF OneMessage
    <2>6. task'[p].pc = "sending" => SendingOK(p)'
      BY <1>2, <1>4, <2>3, <2>5 DEF SendingOK
    <2>7. QED
      BY <1>2, <1>3, <1>5, <2>3, <2>4, <2>6, HolderStep
  <1>7. CASE UNCHANGED owed /\ \E f \in FaultKind : Escape(p, f)
    <2>1. /\ task' \in [Poller -> TaskType]
          /\ pollLock' \in Seq(Poller)
          /\ task'[p].pc \in {"idle", "stopped"}
          /\ \A q \in Poller \ {p} : task'[q] = task[q]
      BY <1>2, <1>7, LeaveType
    <2>2. TypeOK'
      BY <1>2, <1>3, <1>4, <1>7, <2>1 DEF TypeOK
    <2>3. QED
      BY <1>2, <1>3, <1>5, <2>1, <2>2, HolderStep
  <1>8. QED
    BY <1>6, <1>7 DEF SendRefused, SendBroken, FaultKind

-----------------------------------------------------------------------------
(* Removals, guild and channel events, feed changes and restarts.          *)
LEMMA EnvironmentStep == IInv /\ Environment => IInv'
  <1> SUFFICES ASSUME IInv, Environment PROVE IInv'
    OBVIOUS
  <1>1. TypeOK /\ DigestNeverAhead
    BY DEF IInv
  <1>2. ASSUME NEW g \in Guild, RemoveAlert(g) PROVE IInv'
    <2>1. TypeOK'
      BY <1>1, <1>2 DEF RemoveAlert, TypeOK, world
    <2>2. UNCHANGED <<pollLock, task, posted>>
      BY <1>2 DEF RemoveAlert
    <2>3. \A h \in Guild : lastDigest'[h] \in {NoDigest, lastDigest[h]}
      BY <1>1, <1>2 DEF RemoveAlert, TypeOK
    <2>4. HoldsLock'
      BY <2>2 DEF IInv, HoldsLock, Polling
    <2>5. AllSendingOK'
      BY <2>2, <2>3 DEF IInv, AllSendingOK, SendingOK
    <2>6. DigestNeverAhead'
      BY <1>1, <2>2, <2>3 DEF DigestNeverAhead, Complete
    <2>7. QED
      BY <2>1, <2>4, <2>5, <2>6 DEF IInv
  <1>3. ASSUME UNCHANGED <<lastDigest, pollLock, task, posted, restarts>>,
               TypeOK'
        PROVE  IInv'
    BY <1>3, OutsideStep
  <1>4. ASSUME NEW g \in Guild, GuildRemove(g) \/ GuildJoin(g) PROVE IInv'
    <2>1. TypeOK'
      BY <1>1, <1>4 DEF GuildRemove, GuildJoin, TypeOK, history
    <2>2. QED
      BY <1>3, <1>4, <2>1 DEF GuildRemove, GuildJoin, history
  <1>5. ASSUME NEW c \in Channel, ChannelDelete(c) PROVE IInv'
    <2>1. TypeOK'
      BY <1>1, <1>5 DEF ChannelDelete, TypeOK, history
    <2>2. QED
      BY <1>3, <1>5, <2>1 DEF ChannelDelete, history
  <1>6. ASSUME NEW d \in Digest, FeedChange(d) PROVE IInv'
    <2>1. TypeOK'
      BY <1>1, <1>6 DEF FeedChange, TypeOK, history
    <2>2. QED
      BY <1>3, <1>6, <2>1 DEF FeedChange, history
  <1>7. ASSUME NEW gone \in SUBSET members, Restart(gone) PROVE IInv'
    <2>1. task' = [p \in Poller |-> Idle] /\ lastDigest' = [g \in Guild |-> NoDigest]
      BY <1>7 DEF Restart
    <2>2. TypeOK'
      BY <1>1, <1>7, IdleType DEF Restart, TypeOK
    <2>3. \A p \in Poller : task'[p].pc = "idle"
      BY <2>1 DEF Idle
    <2>4. HoldsLock' /\ AllSendingOK'
      BY <2>3 DEF HoldsLock, AllSendingOK, SendingOK, Polling
    <2>5. DigestNeverAhead'
      BY <2>1 DEF DigestNeverAhead
    <2>6. QED
      BY <2>2, <2>4, <2>5 DEF IInv
  <1>8. QED
    BY <1>2, <1>4, <1>5, <1>6, <1>7 DEF Environment

(* Every step keeps the invariant.                                         *)
LEMMA NextIInv == IInv /\ [Next]_vars => IInv'
  <1> SUFFICES ASSUME IInv, [Next]_vars PROVE IInv'
    OBVIOUS
  <1>1. ASSUME NEW p \in Poller, Poll(p) PROVE IInv'
    BY <1>1, AcquireStep, FetchStep, SendMoreStep, SendLastStep, SendFailsStep
    DEF Poll
  <1>2. CASE UNCHANGED vars
    <2>1. TypeOK'
      BY <1>2 DEF IInv, TypeOK, vars
    <2>2. QED
      BY <1>2, <2>1, OutsideStep DEF vars
  <1>3. QED
    BY <1>1, <1>2, LoopTickStep, ConfigureStep, EnvironmentStep DEF Next

(* The inductive invariant holds in every reachable state.                 *)
THEOREM Invariance == Spec => []IInv
  BY InitIInv, NextIInv, PTL DEF Spec

(* Types: every reachable state of the alert cog is well typed.            *)
THEOREM TypeCorrect == Spec => []TypeOK
  <1>1. IInv => TypeOK
    BY DEF IInv
  <1>2. QED
    BY <1>1, Invariance, PTL

(* _poll_lock works: no two polls are between their fetch and last send.   *)
THEOREM MutualExclusion == Spec => []PollExclusion
  <1>1. IInv => PollExclusion
    BY DEF IInv, HoldsLock, PollExclusion
  <1>2. QED
    BY <1>1, Invariance, PTL

(* The remembered digest was delivered to its last message, whatever fails.*)
THEOREM NeverAhead == Spec => []DigestNeverAhead
  <1>1. IInv => DigestNeverAhead
    BY DEF IInv
  <1>2. QED
    BY <1>1, Invariance, PTL

(* The loop never has a message under way of the digest remembered last    *)
(* for its guild, however many commands poll in between.                   *)
THEOREM NoRepeat == Spec => []NoUnchangedRepeat
  <1>1. IInv => NoUnchangedRepeat
    BY DEF IInv, AllSendingOK, SendingOK, NoUnchangedRepeat, Poller
  <1>2. QED
    BY <1>1, Invariance, PTL
-----------------------------------------------------------------------------
(* The safety half of CommandServed: the lock's queue loses nobody.        *)

(* s has each element of S once and nothing else.                          *)
OnceEach(s, S) ==
  /\ \A i, j \in DOMAIN s : s[i] = s[j] => i = j
  /\ \A x : x \in S <=> \E i \in DOMAIN s : s[i] = x

(* One more joins at the end, or the first leaves.                         *)
LEMMA QueueGrows ==
  ASSUME NEW T, NEW s \in Seq(T), NEW S, OnceEach(s, S), NEW x \in T, x \notin S
  PROVE  OnceEach(Append(s, x), S \cup {x})
  <1>1. PICK n \in Nat : Len(s) = n /\ DOMAIN s = 1..n
    BY LenProperties
  <1>2. PICK r : r = Append(s, x)
    OBVIOUS
  <1>3. /\ DOMAIN r = 1..(n + 1) /\ r[n + 1] = x
        /\ \A i \in 1..n : r[i] = s[i]
    <2>1. r \in Seq(T) /\ Len(r) = n + 1
      BY <1>1, <1>2, AppendProperties
    <2>2. \A i \in 1..n : r[i] = s[i]
      BY <1>1, <1>2, AppendProperties
    <2>3. r[n + 1] = x
      BY <1>1, <1>2, AppendProperties
    <2>4. QED
      BY <2>1, <2>2, <2>3, LenProperties
  <1>4. /\ \A i \in 1..(n + 1) : i \in 1..n \/ i = n + 1
        /\ \A i \in 1..n : i \in 1..(n + 1)
        /\ n + 1 \in 1..(n + 1)
    OBVIOUS
  <1>5. \A i \in 1..n : s[i] # x
    BY <1>1 DEF OnceEach
  <1>6. \A i, j \in 1..(n + 1) : r[i] = r[j] => i = j
    BY <1>1, <1>3, <1>4, <1>5 DEF OnceEach
  <1>7. \A y : y \in S \cup {x} <=> \E i \in 1..(n + 1) : r[i] = y
    BY <1>1, <1>3, <1>4 DEF OnceEach
  <1>8. QED
    BY <1>2, <1>3, <1>6, <1>7 DEF OnceEach

LEMMA QueueMoves ==
  ASSUME NEW T, NEW s \in Seq(T), NEW S, OnceEach(s, S), s # << >>
  PROVE  OnceEach(Tail(s), S \ {Head(s)})
  <1>1. PICK n \in Nat : Len(s) = n + 1 /\ DOMAIN s = 1..(n + 1)
    <2>1. Len(s) \in Nat /\ Len(s) # 0 /\ DOMAIN s = 1..Len(s)
      BY LenProperties, EmptySeq
    <2>2. PICK k : k = Len(s)
      OBVIOUS
    <2>3. k \in Nat /\ k # 0 /\ DOMAIN s = 1..k
      BY <2>1, <2>2
    <2>4. k - 1 \in Nat /\ k = (k - 1) + 1
      BY <2>3
    <2>5. Len(s) = (k - 1) + 1 /\ DOMAIN s = 1..((k - 1) + 1)
      BY <2>2, <2>3, <2>4
    <2>6. QED
      BY <2>4, <2>5
  <1>2. PICK r, h : r = Tail(s) /\ h = Head(s)
    OBVIOUS
  <1>3. /\ DOMAIN r = 1..n /\ h = s[1]
        /\ \A i \in 1..n : r[i] = s[i + 1]
    <2>1. r \in Seq(T) /\ Len(r) = n /\ h = s[1]
      BY <1>1, <1>2, HeadTailProperties
    <2>2. \A i \in 1..n : r[i] = s[i + 1]
      BY <1>1, <1>2, <2>1, HeadTailProperties
    <2>3. QED
      BY <2>1, <2>2, LenProperties
  <1>4. /\ \A i \in 1..n : i + 1 \in 1..(n + 1) /\ i + 1 # 1
        /\ \A i \in 1..(n + 1) : i = 1 \/ (i - 1 \in 1..n /\ (i - 1) + 1 = i)
        /\ 1 \in 1..(n + 1)
    OBVIOUS
  <1>5. \A i, j \in 1..n : r[i] = r[j] => i = j
    <2>1. SUFFICES ASSUME NEW i \in 1..n, NEW j \in 1..n, r[i] = r[j] PROVE i = j
      OBVIOUS
    <2>2. s[i + 1] = s[j + 1] /\ i + 1 \in DOMAIN s /\ j + 1 \in DOMAIN s
      BY <1>1, <1>3, <1>4, <2>1
    <2>3. i + 1 = j + 1
      BY <2>2 DEF OnceEach
    <2>4. QED
      BY <2>3
  <1>6. \A y : y \in S \ {h} <=> \E i \in 1..n : r[i] = y
    <2>1. ASSUME NEW y \in S, y # h PROVE \E i \in 1..n : r[i] = y
      <3>1. PICK i \in 1..(n + 1) : s[i] = y
        BY <1>1 DEF OnceEach
      <3>2. i - 1 \in 1..n /\ (i - 1) + 1 = i
        BY <1>3, <1>4, <2>1, <3>1
      <3>3. r[i - 1] = y
        BY <1>3, <3>1, <3>2
      <3>4. QED
        BY <3>2, <3>3
    <2>2. ASSUME NEW i \in 1..n PROVE r[i] \in S /\ r[i] # h
      <3>1. i + 1 \in DOMAIN s /\ 1 \in DOMAIN s /\ i + 1 # 1 /\ r[i] = s[i + 1]
        BY <1>1, <1>3, <1>4
      <3>2. s[i + 1] \in S /\ s[i + 1] # s[1]
        BY <3>1 DEF OnceEach
      <3>3. QED
        BY <1>3, <3>1, <3>2
    <2>3. QED
      BY <2>1, <2>2
  <1>7. QED
    BY <1>2, <1>3, <1>5, <1>6 DEF OnceEach

(* In the lock's queue is exactly who is in a poll, once.                  *)
InPoll == {p \in Poller : task[p].pc \in PollPc}
Queued == OnceEach(pollLock, InPoll)

LEMMA EmptyQueue ==
  ASSUME NEW s, s = << >>, NEW S, S = {} PROVE OnceEach(s, S)
  <1>1. DOMAIN << >> = {}
    OBVIOUS
  <1>2. QED
    BY <1>1 DEF OnceEach

(* A task moves, and its place in the queue with it: it stays where it is, *)
(* joins at the end, or leaves from the front.                             *)
LEMMA OneMoves ==
  ASSUME IInv, Queued, NEW p \in Poller,
         \A q \in Poller \ {p} : task'[q].pc = task[q].pc,
         \/ /\ pollLock' = pollLock
            /\ task[p].pc \in PollPc <=> task'[p].pc \in PollPc
         \/ /\ pollLock' = Append(pollLock, p)
            /\ task[p].pc \notin PollPc /\ task'[p].pc \in PollPc
         \/ /\ pollLock' = Tail(pollLock)
            /\ Polling(p) /\ task'[p].pc \notin PollPc
  PROVE  Queued'
  <1>1. pollLock \in Seq(Poller)
    BY DEF IInv, TypeOK
  <1>2. CASE pollLock' = pollLock
             /\ (task[p].pc \in PollPc <=> task'[p].pc \in PollPc)
    <2>1. InPoll' = InPoll
      BY <1>2 DEF InPoll
    <2>2. QED
      BY <1>2, <2>1 DEF Queued
  <1>3. CASE /\ pollLock' = Append(pollLock, p)
             /\ task[p].pc \notin PollPc /\ task'[p].pc \in PollPc
    <2>1. p \notin InPoll /\ InPoll' = InPoll \cup {p}
      BY <1>3 DEF InPoll
    <2>2. OnceEach(Append(pollLock, p), InPoll \cup {p})
      BY <1>1, <2>1, QueueGrows DEF Queued
    <2>3. QED
      BY <1>3, <2>1, <2>2 DEF Queued
  <1>4. CASE /\ pollLock' = Tail(pollLock)
             /\ Polling(p) /\ task'[p].pc \notin PollPc
    <2>1. pollLock # << >> /\ Head(pollLock) = p
      BY <1>4 DEF IInv, HoldsLock
    <2>2. InPoll' = InPoll \ {Head(pollLock)}
      BY <1>4, <2>1 DEF InPoll
    <2>3. OnceEach(Tail(pollLock), InPoll \ {Head(pollLock)})
      BY <1>1, <2>1, QueueMoves DEF Queued
    <2>4. QED
      BY <1>4, <2>2, <2>3 DEF Queued
  <1>5. QED
    BY <1>2, <1>3, <1>4

(* The holder gives the lock back on every way out of its poll.            *)
LEMMA HolderQueued ==
  ASSUME IInv, Queued, NEW p \in Poller, Polling(p),
         \/ Return(p)
         \/ \E f \in FaultKind : Escape(p, f)
         \/ \E todo, d, g : SendNext(p, todo, d, g)
  PROVE  Queued'
  <1>1. TypeOK /\ pollLock # << >> /\ task \in [Poller -> TaskType]
    BY OthersOut DEF IInv, TypeOK
  <1>2. task[p].pc \in PollPc
    BY DEF Polling, PollPc
  <1>3. CASE Return(p) \/ \E f \in FaultKind : Escape(p, f)
    <2>1. /\ task'[p].pc \in {"idle", "stopped"}
          /\ \A q \in Poller \ {p} : task'[q] = task[q]
      BY <1>1, <1>3, LeaveType
    <2>2. pollLock' = Tail(pollLock)
      BY <1>3 DEF Return, Escape
    <2>3. task'[p].pc \notin PollPc
      BY <2>1 DEF PollPc
    <2>4. QED
      BY <2>1, <2>2, <2>3, OneMoves
  <1>4. ASSUME NEW todo, NEW d, NEW g, SendNext(p, todo, d, g) PROVE Queued'
    <2>1. /\ pollLock' = pollLock /\ task'[p].pc = "sending"
          /\ \A q \in Poller \ {p} : task'[q] = task[q]
      BY <1>1, <1>4 DEF SendNext
    <2>2. task'[p].pc \in PollPc
      BY <2>1 DEF PollPc
    <2>3. QED
      BY <1>2, <2>1, <2>2, OneMoves
  <1>5. QED
    BY <1>3, <1>4

LEMMA PollQueued ==
  ASSUME IInv, Queued, NEW p \in Poller, Poll(p) PROVE Queued'
  <1>1. TypeOK /\ task \in [Poller -> TaskType]
    BY DEF IInv, TypeOK
  <1>2. CASE Acquire(p)
    <2>1. /\ task[p].pc = "waiting" /\ task'[p].pc = "fetching"
          /\ \A q \in Poller \ {p} : task'[q] = task[q]
          /\ pollLock' = pollLock
      BY <1>1, <1>2, SetPc DEF Acquire, PollPc
    <2>2. task[p].pc \in PollPc /\ task'[p].pc \in PollPc
      BY <2>1 DEF PollPc
    <2>3. QED
      BY <2>1, <2>2, OneMoves
  <1>3. CASE SendMore(p)
    <2>1. /\ task'[p].pc = task[p].pc
          /\ \A q \in Poller \ {p} : task'[q] = task[q]
          /\ pollLock' = pollLock
      BY <1>1, <1>3 DEF SendMore, TaskType
    <2>2. QED
      BY <2>1, OneMoves
  <1>4. ASSUME NEW todo, NEW last, NEW d, NEW failed,
               Advance(p, todo, last, d, failed), Polling(p)
        PROVE  Queued'
    <2>1. \/ Return(p)
          \/ \E g : SendNext(p, todo, d, g)
          \/ Escape(p, "storage")
      BY <1>4 DEF Advance
    <2>2. QED
      BY <1>4, <2>1, HolderQueued DEF FaultKind
  <1>5. CASE FetchOk(p) \/ FetchFails(p)
    <2>1. Polling(p)
      BY <1>5 DEF FetchOk, FetchFails, Polling
    <2>2. QED
      BY <1>4, <1>5, <2>1, HolderQueued DEF FetchOk, FetchFails, FaultKind
  <1>6. CASE SendLast(p) \/ SendRefused(p) \/ SendBroken(p)
    <2>1. Polling(p)
      BY <1>6 DEF SendLast, SendRefused, SendBroken, Polling
    <2>2. QED
      BY <1>4, <1>6, <2>1, HolderQueued
         DEF SendLast, SendRefused, SendBroken, FaultKind
  <1>7. QED
    BY <1>2, <1>3, <1>5, <1>6 DEF Poll

LEMMA QueuedStep == ASSUME IInv, Queued, [Next]_vars PROVE Queued'
  <1>1. TypeOK /\ task \in [Poller -> TaskType] /\ Loop \in Poller
    BY DEF IInv, TypeOK, Poller
  <1>2. CASE LoopTick
    <2> DEFINE new == [Idle EXCEPT !.pc = "waiting", !.todo = alerts]
    <2>1. new.pc = "waiting"
      BY DEF Idle
    <2>2. /\ task' = [task EXCEPT ![Loop] = new]
          /\ pollLock' = Append(pollLock, Loop) /\ task[Loop].pc = "idle"
      BY <1>2 DEF LoopTick
    <2> HIDE DEF new
    <2>3. /\ task'[Loop].pc \in PollPc /\ task[Loop].pc \notin PollPc
          /\ \A q \in Poller \ {Loop} : task'[q] = task[q]
      BY <1>1, <2>1, <2>2 DEF PollPc
    <2>4. QED
      BY <1>1, <2>2, <2>3, OneMoves
  <1>3. CASE LoopTickFails
    <2>1. /\ \A q \in Poller \ {Loop} : task'[q] = task[q]
          /\ task'[Loop].pc = "stopped" /\ task[Loop].pc = "idle"
          /\ pollLock' = pollLock
      BY <1>1, <1>3, SetPc DEF LoopTickFails
    <2>2. task'[Loop].pc \notin PollPc /\ task[Loop].pc \notin PollPc
      BY <2>1 DEF PollPc
    <2>3. QED
      BY <1>1, <2>1, <2>2, OneMoves
  <1>4. ASSUME NEW p \in Command, Configure(p) PROVE Queued'
    <2>1. p \in Poller
      BY DEF Poller
    <2>2. CASE ConfigureStore(p)
      <3>1. /\ \A q \in Poller \ {p} : task'[q] = task[q]
            /\ task'[p].pc = "waiting" /\ task[p].pc = "deferring"
            /\ pollLock' = Append(pollLock, p)
        BY <1>1, <2>1, <2>2, SetPc DEF ConfigureStore, PollPc
      <3>2. task'[p].pc \in PollPc /\ task[p].pc \notin PollPc
        BY <3>1 DEF PollPc
      <3>3. QED
        BY <2>1, <3>1, <3>2, OneMoves
    <2>3. ASSUME NEW c \in Channel, ConfigureBegin(p, c) PROVE Queued'
      <3> DEFINE new == [Idle EXCEPT !.pc = "deferring", !.todo = Only(Owner[c], c)]
      <3>1. new.pc = "deferring"
        BY DEF Idle
      <3>2. task' = [task EXCEPT ![p] = new] /\ task[p].pc = "idle"
            /\ pollLock' = pollLock
        BY <2>3 DEF ConfigureBegin
      <3> HIDE DEF new
      <3>3. /\ task'[p].pc \notin PollPc /\ task[p].pc \notin PollPc
            /\ \A q \in Poller \ {p} : task'[q] = task[q]
        BY <1>1, <2>1, <3>1, <3>2 DEF PollPc
      <3>4. QED
        BY <2>1, <3>2, <3>3, OneMoves
    <2>4. CASE ConfigureFails(p)
      <3>1. /\ \A q \in Poller \ {p} : task'[q] = task[q]
            /\ task'[p].pc = "idle" /\ task[p].pc = "deferring"
            /\ pollLock' = pollLock
        BY <1>1, <2>1, <2>4 DEF ConfigureFails, Idle
      <3>2. task'[p].pc \notin PollPc /\ task[p].pc \notin PollPc
        BY <3>1 DEF PollPc
      <3>3. QED
        BY <2>1, <3>1, <3>2, OneMoves
    <2>5. QED
      BY <1>4, <2>2, <2>3, <2>4 DEF Configure
  <1>5. ASSUME NEW gone, Restart(gone) PROVE Queued'
    <2>1. pollLock' = << >> /\ task' = [p \in Poller |-> Idle]
      BY <1>5 DEF Restart
    <2>2. InPoll' = {}
      BY <2>1 DEF InPoll, Idle, PollPc
    <2>3. QED
      BY <2>1, <2>2, EmptyQueue DEF Queued
  <1>6. CASE UNCHANGED <<pollLock, task>>
    BY <1>6 DEF Queued, InPoll
  <1>7. ASSUME Environment PROVE Queued'
    BY <1>5, <1>6, <1>7
       DEF Environment, RemoveAlert, GuildRemove, GuildJoin, ChannelDelete,
           FeedChange
  <1>8. QED
    BY <1>2, <1>3, <1>4, <1>6, <1>7, PollQueued DEF Next, vars

(* Whoever is in a poll is behind one that can go on: the first of the     *)
(* queue has the lock to take, or is fetching or sending.  No failed       *)
(* fetch, refused message or escaping exception leaves the lock taken      *)
(* (free_game_alerts.py:189-229).                                          *)
THEOREM LockGivenBack ==
  Spec => [](\A p \in Poller : task[p].pc \in PollPc =>
               /\ pollLock # << >>
               /\ task[Head(pollLock)].pc \in PollPc)
  <1> DEFINE Goes == \A p \in Poller : task[p].pc \in PollPc =>
                       /\ pollLock # << >>
                       /\ task[Head(pollLock)].pc \in PollPc
  <1>1. Init => Queued
    <2>1. Init => pollLock = << >> /\ InPoll = {}
      BY DEF Init, InPoll, Idle, PollPc
    <2>2. QED
      BY <2>1, EmptyQueue DEF Queued
  <1>2. IInv /\ Queued /\ [Next]_vars => Queued'
    BY QueuedStep
  <1>3. IInv /\ Queued => Goes
    <2> SUFFICES ASSUME IInv, Queued, NEW p \in Poller, task[p].pc \in PollPc
                 PROVE  pollLock # << >> /\ task[Head(pollLock)].pc \in PollPc
      OBVIOUS
    <2>1. pollLock \in Seq(Poller)
      BY DEF IInv, TypeOK
    <2>2. pollLock # << >>
      <3>1. \E i \in DOMAIN pollLock : pollLock[i] = p
        BY DEF Queued, OnceEach, InPoll
      <3>2. DOMAIN << >> = {}
        OBVIOUS
      <3>3. QED
        BY <3>1, <3>2
    <2>3. 1 \in DOMAIN pollLock /\ Head(pollLock) = pollLock[1]
      <3>1. /\ Len(pollLock) \in Nat /\ Len(pollLock) # 0
            /\ DOMAIN pollLock = 1..Len(pollLock)
        BY <2>1, <2>2, LenProperties, EmptySeq
      <3>2. QED
        BY <2>1, <2>2, <3>1, HeadTailProperties
    <2>4. QED
      BY <2>2, <2>3 DEF Queued, OnceEach, InPoll
  <1> HIDE DEF Goes
  <1>4. QED
    BY <1>1, <1>2, <1>3, Invariance, PTL DEF Spec, Goes
=============================================================================
