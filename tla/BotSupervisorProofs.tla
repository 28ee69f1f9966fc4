------------------------ MODULE BotSupervisorProofs ------------------------
(***************************************************************************)
(* Theorems about BotSupervisor for any number of handler threads: one bot *)
(* that is known, a log that follows it, and a lock that is given back.    *)
(***************************************************************************)
EXTENDS BotSupervisor, TLAPS

(* A thread between start's check and its end keeps the lock, and no       *)
(* process is known then.                                                  *)
InstallerAlone ==
  \A t \in Thread :
    thread[t].pc = "installing" => lock = t /\ sup.process = NoBot

IInv == TypeOK /\ InstallerAlone /\ OneKnownBot /\ LogFollowsProcess

USE ThreadAssumption, BoundAssumption

(* The fields of sup after noticing an ended process: the types are kept,  *)
(* and no process that is alive is forgotten.                              *)
LEMMA RefreshedFacts ==
  ASSUME TypeOK, OneKnownBot, LogFollowsProcess
  PROVE  /\ Refreshed \in SupType
         /\ \A b \in Bot : Alive(b) => Refreshed.process = b
         /\ Refreshed.log <=> Refreshed.process # NoBot
         /\ sup.process = NoBot => Refreshed.process = NoBot
  <1> DEFINE e == ExitCode(sup.process)
             new == [process |-> NoBot, log |-> FALSE, lastExit |-> e,
                     error |-> IF e = "zero" THEN sup.error ELSE "exit",
                     token |-> sup.token]
             ended == sup.process # NoBot /\ bot[sup.process] \in Ended
  <1>1. sup \in SupType /\ bot \in [Bot -> {"unborn", "running", "told", "killed"} \cup Ended]
    BY DEF TypeOK
  <1>2. CASE ended
    <2>1. Refreshed = new
      BY <1>1, <1>2 DEF Refreshed, SupType
    <2>2. e \in {"zero", "nonzero"}
      BY DEF ExitCode
    <2>3. new \in SupType /\ new.process = NoBot /\ new.log = FALSE
      BY <1>1, <2>2 DEF SupType
    <2>4. \A b \in Bot : ~Alive(b)
      BY <1>2 DEF OneKnownBot, Alive, Ended
    <2> HIDE DEF new, e
    <2>5. QED
      BY <2>1, <2>3, <2>4 DEF NoBot, Bot
  <1>3. CASE ~ended
    <2>1. Refreshed = sup
      BY <1>3 DEF Refreshed
    <2>2. QED
      BY <1>1, <2>1 DEF OneKnownBot, LogFollowsProcess
  <1>4. QED
    BY <1>2, <1>3

(* The initial states satisfy the invariant.                               *)
LEMMA InitIInv == Init => IInv
  <1> SUFFICES ASSUME Init PROVE IInv
    OBVIOUS
  <1>1. \A t \in Thread : thread[t] \in ThreadType /\ thread[t].pc # "installing"
    BY DEF Init, Idle, ThreadType, NoBot
  <1>2. thread \in [Thread -> ThreadType]
    BY <1>1 DEF Init
  <1>3. sup \in SupType /\ sup.process = NoBot /\ sup.log = FALSE
    BY DEF Init, SupType, NoBot
  <1>4. TypeOK
    BY <1>2, <1>3 DEF Init, TypeOK
  <1>5. OneKnownBot
    BY DEF Init, OneKnownBot, Alive
  <1>6. QED
    BY <1>1, <1>3, <1>4, <1>5 DEF IInv, InstallerAlone, LogFollowsProcess

(* A step that starts no process, in which sup keeps its process and log   *)
(* or has them refreshed, and no thread starts to install.                 *)
LEMMA QuietStep ==
  ASSUME IInv, TypeOK',
         \A b \in Bot : Alive(b)' => Alive(b),
         \E s \in {sup, Refreshed} : sup'.process = s.process /\ sup'.log = s.log,
         \A t \in Thread : thread'[t].pc = "installing" =>
                             thread[t].pc = "installing" /\ lock' = lock
  PROVE  IInv'
  <1>1. /\ \A b \in Bot : Alive(b) => Refreshed.process = b
        /\ Refreshed.log <=> Refreshed.process # NoBot
        /\ sup.process = NoBot => Refreshed.process = NoBot
    BY RefreshedFacts DEF IInv
  <1>2. /\ \A b \in Bot : Alive(b) => sup'.process = b
        /\ sup'.log <=> sup'.process # NoBot
        /\ sup.process = NoBot => sup'.process = NoBot
    BY <1>1 DEF IInv, OneKnownBot, LogFollowsProcess
  <1>3. InstallerAlone'
    BY <1>2 DEF IInv, InstallerAlone
  <1>4. OneKnownBot' /\ LogFollowsProcess'
    BY <1>2 DEF OneKnownBot, LogFollowsProcess
  <1>5. QED
    BY <1>3, <1>4 DEF IInv

(* How thread changes when t moves on or is done with its request.         *)
LEMMA GotoType ==
  ASSUME TypeOK, NEW t \in Thread,
         NEW pc \in {"idle", "start", "installing", "stop", "wait", "killing"},
         Goto(t, pc)
  PROVE  /\ thread' \in [Thread -> ThreadType]
         /\ thread'[t].pc = pc
         /\ \A u \in Thread \ {t} : thread'[u] = thread[u]
  <1> DEFINE r == thread[t]
             new == [pc |-> pc, op |-> r.op, target |-> r.target]
  <1>1. thread \in [Thread -> ThreadType] /\ r \in ThreadType
    BY DEF TypeOK
  <1>2. thread' = [thread EXCEPT ![t] = [r EXCEPT !.pc = pc]]
    BY DEF Goto
  <1>3. [r EXCEPT !.pc = pc] = new /\ new \in ThreadType /\ new.pc = pc
    BY <1>1 DEF ThreadType
  <1> HIDE DEF new, r
  <1>4. QED
    BY <1>1, <1>2, <1>3

(* A thread that is done with its request installs nothing.                *)
LEMMA ReturnType ==
  ASSUME TypeOK, NEW t \in Thread, Return(t)
  PROVE  /\ thread' \in [Thread -> ThreadType]
         /\ thread'[t].pc = "idle"
         /\ \A u \in Thread \ {t} : thread'[u] = thread[u]
         /\ launcher' \in {"booting", "serving", "closing", "exited"}
  <1>1. Idle \in ThreadType /\ Idle.pc = "idle"
    BY DEF Idle, ThreadType, NoBot
  <1>2. QED
    BY <1>1 DEF Return, TypeOK

(* Nor does one whose stop is over, even when it goes on to start.         *)
LEMMA StopDoneType ==
  ASSUME TypeOK, NEW t \in Thread, StopDone(t)
  PROVE  /\ thread' \in [Thread -> ThreadType]
         /\ thread'[t].pc # "installing"
         /\ \A u \in Thread \ {t} : thread'[u] = thread[u]
         /\ launcher' \in {"booting", "serving", "closing", "exited"}
  <1>1. CASE thread[t].op = "restart"
    BY <1>1, GotoType DEF StopDone, TypeOK
  <1>2. CASE thread[t].op # "restart"
    BY <1>2, ReturnType DEF StopDone
  <1>3. QED
    BY <1>1, <1>2

-----------------------------------------------------------------------------
(* start takes the lock only when it is free and no process is known.      *)
LEMMA StartStep == ASSUME NEW t \in Thread PROVE IInv /\ Start(t) => IInv'
  <1> SUFFICES ASSUME IInv, Start(t) PROVE IInv'
    OBVIOUS
  <1> DEFINE r == Refreshed
  <1>1. TypeOK /\ lock = Nobody /\ UNCHANGED bot /\ \A u \in Thread : thread[u].pc # "installing"
    BY DEF IInv, Start, InstallerAlone, Thread
  <1>2. /\ r \in SupType
        /\ \A b \in Bot : Alive(b) => r.process = b
        /\ r.log <=> r.process # NoBot
    BY RefreshedFacts DEF IInv
  <1>3. CASE sup' = r /\ Return(t) /\ UNCHANGED lock
    <2>1. TypeOK'
      BY <1>1, <1>2, <1>3, ReturnType DEF TypeOK
    <2>2. \A u \in Thread : thread'[u].pc # "installing"
      BY <1>1, <1>3, ReturnType
    <2>3. QED
      BY <1>1, <1>3, <2>1, <2>2, QuietStep DEF Alive
  <1>4. ASSUME NEW token \in BOOLEAN, sup' = [r EXCEPT !.token = token]
        PROVE  sup' \in SupType /\ sup'.process = r.process /\ sup'.log = r.log
    BY <1>2, <1>4 DEF SupType
  <1>5. ASSUME NEW token \in BOOLEAN, sup' = [r EXCEPT !.token = token],
               Return(t), UNCHANGED lock
        PROVE  IInv'
    <2>1. sup' \in SupType /\ sup'.process = r.process /\ sup'.log = r.log
      BY <1>4, <1>5
    <2>2. TypeOK'
      BY <1>1, <1>5, <2>1, ReturnType DEF TypeOK
    <2>3. \A u \in Thread : thread'[u].pc # "installing"
      BY <1>1, <1>5, ReturnType
    <2>4. QED
      BY <1>1, <2>1, <2>2, <2>3, QuietStep DEF Alive
  <1>6. ASSUME r.process = NoBot,
               NEW token \in BOOLEAN, sup' = [r EXCEPT !.token = token],
               Goto(t, "installing"), lock' = t, UNCHANGED launcher
        PROVE  IInv'
    <2>1. sup' \in SupType /\ sup'.process = NoBot /\ sup'.log = r.log
      BY <1>4, <1>6
    <2>2. /\ thread' \in [Thread -> ThreadType]
          /\ \A u \in Thread \ {t} : thread'[u] = thread[u]
      BY <1>1, <1>6, GotoType
    <2>3. TypeOK'
      BY <1>1, <1>6, <2>1, <2>2 DEF TypeOK
    <2>4. InstallerAlone'
      BY <1>1, <1>6, <2>1, <2>2 DEF InstallerAlone
    <2>5. OneKnownBot'
      BY <1>1, <1>2, <1>6, <2>1 DEF OneKnownBot, Alive
    <2>6. LogFollowsProcess'
      BY <1>2, <1>6, <2>1 DEF LogFollowsProcess
    <2>7. QED
      BY <2>3, <2>4, <2>5, <2>6 DEF IInv
  <1>7. QED
    BY <1>3, <1>5, <1>6 DEF Start

(* Every way out of start frees the lock; only Spawn adds a process, and   *)
(* no other is alive then.                                                 *)
LEMMA StartEndsStep ==
  ASSUME NEW t \in Thread
  PROVE  IInv /\ (InstallFails(t) \/ SpawnFails(t) \/ Spawn(t)) => IInv'
  <1> SUFFICES ASSUME IInv, InstallFails(t) \/ SpawnFails(t) \/ Spawn(t)
               PROVE  IInv'
    OBVIOUS
  <1>1. TypeOK /\ thread[t].pc = "installing" /\ lock' = Nobody /\ Return(t)
    BY DEF IInv, InstallFails, SpawnFails, Spawn, At
  <1>2. lock = t /\ sup.process = NoBot /\ sup.log = FALSE
    BY <1>1 DEF IInv, InstallerAlone, LogFollowsProcess, TypeOK, SupType
  <1>3. \A b \in Bot : ~Alive(b)
    BY <1>2 DEF IInv, OneKnownBot, NoBot, Bot
  <1>4. /\ thread' \in [Thread -> ThreadType]
        /\ thread'[t].pc = "idle"
        /\ \A u \in Thread \ {t} : thread'[u] = thread[u]
        /\ launcher' \in {"booting", "serving", "closing", "exited"}
    BY <1>1, ReturnType
  <1>5. \A u \in Thread : thread'[u].pc # "installing"
    BY <1>2, <1>4 DEF IInv, InstallerAlone
  <1>6. sup \in SupType /\ bot \in [Bot -> {"unborn", "running", "told", "killed"} \cup Ended]
    BY <1>1 DEF TypeOK
  <1>7. CASE InstallFails(t)
    <2>1. UNCHANGED <<bot, sup>>
      BY <1>7 DEF InstallFails
    <2>2. TypeOK'
      BY <1>1, <1>4, <1>6, <2>1 DEF TypeOK
    <2>3. QED
      BY <1>5, <2>1, <2>2, QuietStep DEF Alive
  <1>8. CASE SpawnFails(t)
    <2>1. sup' = [sup EXCEPT !.error = "spawn", !.log = FALSE] /\ UNCHANGED bot
      BY <1>8 DEF SpawnFails
    <2>2. sup' \in SupType /\ sup'.process = sup.process /\ sup'.log = sup.log
      BY <1>2, <1>6, <2>1 DEF SupType
    <2>3. TypeOK'
      BY <1>1, <1>4, <1>6, <2>1, <2>2 DEF TypeOK
    <2>4. QED
      BY <1>5, <2>1, <2>2, <2>3, QuietStep DEF Alive
  <1>9. CASE Spawn(t)
    <2>1. PICK b \in Bot : /\ bot' = [bot EXCEPT ![b] = "running"]
                           /\ sup' = [sup EXCEPT !.process = b, !.log = TRUE,
                                                 !.lastExit = "none", !.error = ""]
      BY <1>9 DEF Spawn
    <2>2. sup' \in SupType /\ sup'.process = b /\ sup'.log = TRUE
      BY <1>6, <2>1 DEF SupType
    <2>3. bot' \in [Bot -> {"unborn", "running", "told", "killed"} \cup Ended]
      BY <1>6, <2>1
    <2>4. TypeOK'
      BY <1>1, <1>4, <2>2, <2>3 DEF TypeOK
    <2>5. OneKnownBot'
      BY <1>3, <1>6, <2>1, <2>2 DEF OneKnownBot, Alive
    <2>6. LogFollowsProcess'
      BY <2>2 DEF LogFollowsProcess, NoBot, Bot
    <2>7. InstallerAlone'
      BY <1>5 DEF InstallerAlone
    <2>8. QED
      BY <2>4, <2>5, <2>6, <2>7 DEF IInv
  <1>10. QED
    BY <1>7, <1>8, <1>9
-----------------------------------------------------------------------------
(* stop tells the known process to end, or has nothing to do.              *)
LEMMA StopStep == ASSUME NEW t \in Thread PROVE IInv /\ Stop(t) => IInv'
  <1> SUFFICES ASSUME IInv, Stop(t) PROVE IInv'
    OBVIOUS
  <1> DEFINE b == Refreshed.process
  <1>1. TypeOK /\ sup' = Refreshed /\ UNCHANGED lock
    BY DEF IInv, Stop
  <1>2. Refreshed \in SupType
    BY RefreshedFacts DEF IInv
  <1>3. CASE b = NoBot
    <2>1. StopDone(t) /\ UNCHANGED bot
      BY <1>3 DEF Stop
    <2>2. TypeOK'
      BY <1>1, <1>2, <2>1, StopDoneType DEF TypeOK
    <2>3. \A u \in Thread : thread'[u].pc = "installing" => thread[u].pc = "installing"
      BY <1>1, <2>1, StopDoneType
    <2>4. QED
      BY <1>1, <2>1, <2>2, <2>3, QuietStep DEF Alive
  <1>4. CASE b # NoBot
    <2> DEFINE r == thread[t]
               new == [pc |-> "wait", op |-> r.op, target |-> b]
    <2>1. /\ bot' = [bot EXCEPT ![b] = IF @ = "running" THEN "told" ELSE @]
          /\ thread' = [thread EXCEPT ![t].pc = "wait", ![t].target = b]
          /\ UNCHANGED launcher
      BY <1>4 DEF Stop
    <2>2. b \in Bot
      BY <1>2, <1>4 DEF SupType
    <2>3. thread \in [Thread -> ThreadType] /\ r \in ThreadType
      BY <1>1 DEF TypeOK
    <2>4. thread' = [thread EXCEPT ![t] = [[r EXCEPT !.pc = "wait"] EXCEPT !.target = b]]
      BY <2>1, <2>3 DEF TypeOK
    <2>5. /\ [[r EXCEPT !.pc = "wait"] EXCEPT !.target = b] = new
          /\ new \in ThreadType
          /\ new.pc = "wait"
      <3> DEFINE mid == [pc |-> "wait", op |-> r.op, target |-> r.target]
      <3>1. [r EXCEPT !.pc = "wait"] = mid
        BY <2>3 DEF ThreadType
      <3>2. [mid EXCEPT !.target = b] = new
        OBVIOUS
      <3>3. new \in ThreadType /\ new.pc = "wait"
        BY <2>2, <2>3 DEF ThreadType
      <3>4. QED
        BY <3>1, <3>2, <3>3
    <2>6. bot \in [Bot -> {"unborn", "running", "told", "killed"} \cup Ended]
      BY <1>1 DEF TypeOK
    <2>7. /\ bot' \in [Bot -> {"unborn", "running", "told", "killed"} \cup Ended]
          /\ \A c \in Bot : Alive(c)' => Alive(c)
      BY <2>1, <2>6 DEF Alive
    <2> HIDE DEF new, r, b
    <2>8. /\ thread' \in [Thread -> ThreadType]
          /\ \A u \in Thread : thread'[u].pc = "installing" => thread[u].pc = "installing"
      BY <2>3, <2>4, <2>5
    <2>9. TypeOK'
      BY <1>1, <1>2, <2>1, <2>7, <2>8 DEF TypeOK
    <2>10. QED
      BY <1>1, <2>7, <2>8, <2>9, QuietStep
  <1>5. QED
    BY <1>3, <1>4

(* The kill of a process, and the end of the wait for it.                  *)
LEMMA KillStep == ASSUME NEW t \in Thread PROVE IInv /\ Kill(t) => IInv'
  <1> SUFFICES ASSUME IInv, Kill(t) PROVE IInv'
    OBVIOUS
  <1> DEFINE b == thread[t].target
  <1>1. /\ TypeOK
        /\ Alive(b)
        /\ bot' = [bot EXCEPT ![b] = "killed"]
        /\ Goto(t, "killing")
        /\ UNCHANGED <<launcher, sup, lock>>
    BY DEF IInv, Kill
  <1>2. /\ thread' \in [Thread -> ThreadType]
        /\ \A u \in Thread : thread'[u].pc = "installing" => thread[u].pc = "installing"
    BY <1>1, GotoType
  <1>3. bot \in [Bot -> {"unborn", "running", "told", "killed"} \cup Ended]
    BY <1>1 DEF TypeOK
  <1> HIDE DEF b
  <1>4. /\ bot' \in [Bot -> {"unborn", "running", "told", "killed"} \cup Ended]
        /\ \A c \in Bot : Alive(c)' => Alive(c)
    BY <1>1, <1>3 DEF Alive
  <1>5. TypeOK'
    BY <1>1, <1>2, <1>4 DEF TypeOK
  <1>6. QED
    BY <1>1, <1>2, <1>4, <1>5, QuietStep

LEMMA GiveUpStep == ASSUME NEW t \in Thread PROVE IInv /\ GiveUp(t) => IInv'
  <1> SUFFICES ASSUME IInv, GiveUp(t) PROVE IInv'
    OBVIOUS
  <1>1. TypeOK /\ Return(t) /\ UNCHANGED <<bot, sup, lock>>
    BY DEF IInv, GiveUp
  <1>2. /\ thread' \in [Thread -> ThreadType]
        /\ \A u \in Thread : thread'[u].pc = "installing" => thread[u].pc = "installing"
        /\ launcher' \in {"booting", "serving", "closing", "exited"}
    BY <1>1, ReturnType
  <1>3. TypeOK'
    BY <1>1, <1>2 DEF TypeOK
  <1>4. QED
    BY <1>1, <1>2, <1>3, QuietStep DEF Alive

LEMMA StoppedStep == ASSUME NEW t \in Thread PROVE IInv /\ Stopped(t) => IInv'
  <1> SUFFICES ASSUME IInv, Stopped(t) PROVE IInv'
    OBVIOUS
  <1>1. /\ TypeOK
        /\ sup' = [Refreshed EXCEPT !.error = ""]
        /\ StopDone(t)
        /\ UNCHANGED <<bot, lock>>
    BY DEF IInv, Stopped
  <1>2. Refreshed \in SupType
    BY RefreshedFacts DEF IInv
  <1>3. sup' \in SupType /\ sup'.process = Refreshed.process /\ sup'.log = Refreshed.log
    BY <1>1, <1>2 DEF SupType
  <1>4. TypeOK'
    BY <1>1, <1>3, StopDoneType DEF TypeOK
  <1>5. \A u \in Thread : thread'[u].pc = "installing" => thread[u].pc = "installing"
    BY <1>1, StopDoneType
  <1>6. QED
    BY <1>1, <1>3, <1>4, <1>5, QuietStep DEF Alive

-----------------------------------------------------------------------------
(* The steps that neither hold the lock nor touch the supervisor's fields. *)
LEMMA RequestStep ==
  ASSUME NEW h \in Handler, NEW op \in {"start", "stop", "restart"}
  PROVE  IInv /\ Request(h, op) => IInv'
  <1> SUFFICES ASSUME IInv, Request(h, op) PROVE IInv'
    OBVIOUS
  <1> DEFINE new == [pc |-> IF op = "start" THEN "start" ELSE "stop",
                     op |-> op, target |-> NoBot]
  <1>1. /\ TypeOK
        /\ thread' = [thread EXCEPT ![h] = new]
        /\ UNCHANGED <<launcher, bot, sup, lock>>
    BY DEF IInv, Request
  <1>2. new \in ThreadType /\ new.pc # "installing"
    BY DEF ThreadType, NoBot
  <1>3. h \in Thread
    BY DEF Thread
  <1> HIDE DEF new
  <1>4. /\ thread' \in [Thread -> ThreadType]
        /\ \A u \in Thread : thread'[u].pc = "installing" => thread[u].pc = "installing"
    BY <1>1, <1>2, <1>3 DEF TypeOK
  <1>5. TypeOK'
    BY <1>1, <1>4 DEF TypeOK
  <1>6. QED
    BY <1>1, <1>4, <1>5, QuietStep DEF Alive

LEMMA CloseStep == IInv /\ Close => IInv'
  <1> SUFFICES ASSUME IInv, Close PROVE IInv'
    OBVIOUS
  <1> DEFINE new == [pc |-> "stop", op |-> "stop", target |-> NoBot]
  <1>1. /\ TypeOK
        /\ thread' = [thread EXCEPT ![Main] = [Idle EXCEPT !.pc = "stop", !.op = "stop"]]
        /\ launcher' = "closing"
        /\ UNCHANGED <<bot, sup, lock>>
    BY DEF IInv, Close
  <1>2. [Idle EXCEPT !.pc = "stop", !.op = "stop"] = new
    <2> DEFINE mid == [pc |-> "stop", op |-> "none", target |-> NoBot]
    <2>1. [Idle EXCEPT !.pc = "stop"] = mid
      BY DEF Idle
    <2>2. [mid EXCEPT !.op = "stop"] = new
      OBVIOUS
    <2>3. QED
      BY <2>1, <2>2
  <1>3. new \in ThreadType /\ new.pc # "installing" /\ Main \in Thread
    BY DEF ThreadType, NoBot, Thread
  <1> HIDE DEF new
  <1>4. /\ thread' \in [Thread -> ThreadType]
        /\ \A u \in Thread : thread'[u].pc = "installing" => thread[u].pc = "installing"
    BY <1>1, <1>2, <1>3 DEF TypeOK
  <1>5. TypeOK'
    BY <1>1, <1>4 DEF TypeOK
  <1>6. QED
    BY <1>1, <1>4, <1>5, QuietStep DEF Alive

LEMMA BotEndsStep == ASSUME NEW b \in Bot PROVE IInv /\ BotEnds(b) => IInv'
  <1> SUFFICES ASSUME IInv, BotEnds(b) PROVE IInv'
    OBVIOUS
  <1>1. TypeOK /\ UNCHANGED <<launcher, sup, lock, thread>>
    BY DEF IInv, BotEnds
  <1>2. \E e \in Ended : bot' = [bot EXCEPT ![b] = e]
    BY DEF BotEnds, Ended
  <1>3. /\ bot' \in [Bot -> {"unborn", "running", "told", "killed"} \cup Ended]
        /\ \A c \in Bot : Alive(c)' => Alive(c)
    BY <1>1, <1>2 DEF TypeOK, Alive, Ended
  <1>4. TypeOK'
    BY <1>1, <1>3 DEF TypeOK
  <1>5. QED
    BY <1>1, <1>3, <1>4, QuietStep

LEMMA StatusStep == IInv /\ Status => IInv'
  <1> SUFFICES ASSUME IInv, Status PROVE IInv'
    OBVIOUS
  <1>1. TypeOK /\ sup' = Refreshed /\ UNCHANGED <<launcher, bot, lock, thread>>
    BY DEF IInv, Status
  <1>2. TypeOK'
    BY <1>1, RefreshedFacts DEF IInv, TypeOK
  <1>3. QED
    BY <1>1, <1>2, QuietStep DEF Alive

LEMMA ExitStep == IInv /\ Exit => IInv'
  <1> SUFFICES ASSUME IInv, Exit PROVE IInv'
    OBVIOUS
  <1>1. launcher' = "exited" /\ UNCHANGED <<bot, sup, lock, thread>>
    BY DEF Exit
  <1>2. TypeOK'
    BY <1>1 DEF IInv, TypeOK
  <1>3. QED
    BY <1>1, <1>2, QuietStep DEF Alive

(* Every step preserves the invariant.                                     *)
LEMMA NextIInv == IInv /\ [Next]_vars => IInv'
  <1> SUFFICES ASSUME IInv, [Next]_vars PROVE IInv'
    OBVIOUS
  <1>1. ASSUME NEW t \in Thread, Work(t) PROVE IInv'
    BY <1>1, StartStep, StartEndsStep, StopStep, KillStep, GiveUpStep, StoppedStep
       DEF Work
  <1>2. CASE UNCHANGED vars
    <2>1. TypeOK'
      BY <1>2 DEF vars, IInv, TypeOK
    <2>2. QED
      BY <1>2, <2>1, QuietStep DEF vars, Alive
  <1>3. QED
    BY <1>1, <1>2, RequestStep, BotEndsStep, StatusStep, CloseStep, ExitStep DEF Next

(* The inductive invariant holds of every behaviour.                       *)
THEOREM Invariance == Spec => []IInv
  BY InitIInv, NextIInv, PTL DEF Spec

(* For any number of threads, the supervisor's fields keep their types.    *)
THEOREM TypeCorrect == Spec => []TypeOK
  BY Invariance, PTL DEF IInv

(* Any number of requests may overlap: a living bot is the known one, so   *)
(* that there are never two (the lock of BotSupervisor.start).             *)
THEOREM OneBotOnly == Spec => []OneKnownBot
  BY Invariance, PTL DEF IInv

(* The log is open exactly while a bot is known, on every error path.      *)
THEOREM LogOpen == Spec => []LogFollowsProcess
  BY Invariance, PTL DEF IInv
-----------------------------------------------------------------------------
(* The safety half of RequestsAnswered: the lock is given back.            *)

(* The lock is kept only by a thread in the middle of start; while the     *)
(* launcher serves, the main thread has nothing under way.                 *)
KeptByInstaller == lock # Nobody => thread[lock].pc = "installing"
LockKept ==
  /\ KeptByInstaller
  /\ launcher = "serving" => thread[Main].pc = "idle"

(* How a thread moves when the lock is not its own, or is given up.        *)
LEMMA ThreadMoves ==
  ASSUME IInv, LockKept, NEW t \in Thread,
         \A u \in Thread \ {t} : thread'[u] = thread[u],
         \/ lock' = Nobody
         \/ lock' = t /\ thread'[t].pc = "installing"
         \/ lock' = lock /\ thread[t].pc # "installing",
         launcher' = "serving" => thread'[Main].pc = "idle"
  PROVE  LockKept'
  <1>1. lock \in Thread \cup {Nobody}
    BY DEF IInv, TypeOK
  <1>2. CASE lock' = lock /\ thread[t].pc # "installing"
    <2>1. lock # Nobody => lock # t /\ thread'[lock] = thread[lock]
      BY <1>1, <1>2 DEF LockKept, KeptByInstaller
    <2>2. QED
      BY <1>2, <2>1 DEF LockKept, KeptByInstaller
  <1>3. QED
    BY <1>2 DEF LockKept, KeptByInstaller

(* Return and StopDone: who is back to serving has nothing under way.      *)
LEMMA MainIdle ==
  ASSUME TypeOK, LockKept, NEW t \in Thread, thread[t].pc # "idle",
         Return(t) \/ StopDone(t) \/ (UNCHANGED launcher /\ \E pc : Goto(t, pc))
  PROVE  launcher' = "serving" => thread'[Main].pc = "idle"
  <1>1. thread \in [Thread -> ThreadType] /\ Main \in Thread
    BY DEF TypeOK, Thread
  <1>2. CASE Return(t)
    <2>1. /\ thread'[t].pc = "idle"
          /\ \A u \in Thread \ {t} : thread'[u] = thread[u]
      BY <1>2, ReturnType
    <2>2. launcher' = "serving" => t = Main \/ launcher = "serving"
      BY <1>2 DEF Return
    <2>3. QED
      BY <1>1, <2>1, <2>2 DEF LockKept
  <1>3. ASSUME NEW pc, Goto(t, pc), UNCHANGED launcher
        PROVE  launcher' = "serving" => thread'[Main].pc = "idle"
    <2>1. \A u \in Thread \ {t} : thread'[u] = thread[u]
      BY <1>1, <1>3 DEF Goto
    <2>2. QED
      BY <1>1, <1>3, <2>1 DEF LockKept
  <1>4. QED
    BY <1>2, <1>3 DEF StopDone

LEMMA WorkKept ==
  ASSUME IInv, LockKept, NEW t \in Thread, Work(t) PROVE LockKept'
  <1>1. TypeOK /\ thread \in [Thread -> ThreadType] /\ Main \in Thread
    BY DEF IInv, TypeOK, Thread
  <1>2. CASE Start(t)
    <2>1. lock = Nobody /\ thread[t].pc = "start"
      BY <1>2 DEF Start, At
    <2>2. CASE Return(t) /\ UNCHANGED lock
      <3>1. launcher' = "serving" => thread'[Main].pc = "idle"
        BY <1>1, <2>1, <2>2, MainIdle
      <3>2. QED
        BY <1>1, <2>1, <2>2, <3>1, ReturnType, ThreadMoves
    <2>3. CASE Goto(t, "installing") /\ lock' = t /\ UNCHANGED launcher
      <3>1. launcher' = "serving" => thread'[Main].pc = "idle"
        BY <1>1, <2>1, <2>3, MainIdle
      <3>2. QED
        BY <1>1, <2>3, <3>1, GotoType, ThreadMoves
    <2>4. QED
      BY <1>2, <2>2, <2>3 DEF Start
  <1>3. CASE InstallFails(t) \/ SpawnFails(t) \/ Spawn(t)
    <2>1. thread[t].pc = "installing" /\ lock' = Nobody /\ Return(t)
      BY <1>3 DEF InstallFails, SpawnFails, Spawn, At
    <2>2. launcher' = "serving" => thread'[Main].pc = "idle"
      BY <1>1, <2>1, MainIdle
    <2>3. QED
      BY <1>1, <2>1, <2>2, ReturnType, ThreadMoves
  <1>4. CASE Stop(t) /\ StopDone(t)
    <2>1. thread[t].pc = "stop" /\ lock = Nobody /\ lock' = lock
      BY <1>4 DEF Stop, At
    <2>2. launcher' = "serving" => thread'[Main].pc = "idle"
      BY <1>1, <1>4, <2>1, MainIdle
    <2>3. QED
      BY <1>1, <1>4, <2>1, <2>2, StopDoneType, ThreadMoves
  <1>5. CASE Stop(t) /\ UNCHANGED launcher
             /\ \E b : thread' = [thread EXCEPT ![t].pc = "wait", ![t].target = b]
    <2>1. thread[t].pc = "stop" /\ lock = Nobody /\ lock' = lock
      BY <1>5 DEF Stop, At
    <2>2. \A u \in Thread \ {t} : thread'[u] = thread[u]
      BY <1>1, <1>5
    <2>3. launcher' = "serving" => t # Main /\ thread'[Main].pc = "idle"
      BY <1>1, <1>5, <2>1, <2>2 DEF LockKept
    <2>4. QED
      BY <2>1, <2>2, <2>3, ThreadMoves
  <1>6. CASE Kill(t)
    <2>1. /\ thread[t].pc = "wait" /\ lock' = lock /\ UNCHANGED launcher
          /\ Goto(t, "killing")
      BY <1>6 DEF Kill, At
    <2>2. launcher' = "serving" => thread'[Main].pc = "idle"
      BY <1>1, <2>1, MainIdle
    <2>3. QED
      BY <1>1, <2>1, <2>2, GotoType, ThreadMoves
  <1>7. CASE GiveUp(t)
    <2>1. thread[t].pc = "killing" /\ lock' = lock /\ Return(t)
      BY <1>7 DEF GiveUp, At
    <2>2. launcher' = "serving" => thread'[Main].pc = "idle"
      BY <1>1, <2>1, MainIdle
    <2>3. QED
      BY <1>1, <2>1, <2>2, ReturnType, ThreadMoves
  <1>8. CASE Stopped(t)
    <2>1. thread[t].pc \in {"wait", "killing"} /\ lock' = lock /\ StopDone(t)
      BY <1>8 DEF Stopped, At
    <2>2. launcher' = "serving" => thread'[Main].pc = "idle"
      BY <1>1, <2>1, MainIdle
    <2>3. QED
      BY <1>1, <2>1, <2>2, StopDoneType, ThreadMoves
  <1>9. Stop(t) => \/ StopDone(t)
                   \/ /\ UNCHANGED launcher
                      /\ \E b : thread' = [thread EXCEPT ![t].pc = "wait",
                                                         ![t].target = b]
    BY DEF Stop
  <1>10. QED
    BY <1>2, <1>3, <1>4, <1>5, <1>6, <1>7, <1>8, <1>9 DEF Work

LEMMA LockKeptStep ==
  ASSUME IInv, LockKept, [Next]_vars PROVE LockKept'
  <1>1. TypeOK /\ thread \in [Thread -> ThreadType] /\ Main \in Thread
    BY DEF IInv, TypeOK, Thread
  <1>2. ASSUME NEW h \in Handler, NEW op \in {"start", "stop", "restart"},
               Request(h, op)
        PROVE  LockKept'
    <2>1. /\ h \in Thread /\ h # Main
          /\ thread[h].pc = "idle" /\ UNCHANGED <<launcher, lock>>
          /\ \A u \in Thread \ {h} : thread'[u] = thread[u]
      BY <1>1, <1>2 DEF Request, Thread
    <2>2. launcher' = "serving" => thread'[Main].pc = "idle"
      BY <1>1, <2>1 DEF LockKept
    <2>3. QED
      BY <2>1, <2>2, ThreadMoves
  <1>3. CASE Close
    <2>1. /\ launcher = "serving" /\ launcher' = "closing" /\ lock' = lock
          /\ \A u \in Thread \ {Main} : thread'[u] = thread[u]
      BY <1>1, <1>3 DEF Close
    <2>2. thread[Main].pc = "idle"
      BY <2>1 DEF LockKept
    <2>3. QED
      BY <1>1, <2>1, <2>2, ThreadMoves
  <1>4. CASE UNCHANGED <<lock, thread>> /\ (UNCHANGED launcher \/ Exit)
    BY <1>4 DEF LockKept, KeptByInstaller, Exit
  <1>5. QED
    BY <1>2, <1>3, <1>4, WorkKept
       DEF Next, vars, Status, BotEnds, Exit

(* The lock is held over several steps only by a thread that is installing *)
(* packages: every way out of start, and every other call, gives it back   *)
(* (local_launcher.py:283-346).                                            *)
THEOREM LockGivenBack == Spec => []KeptByInstaller
  <1>1. Init => LockKept
    <2> SUFFICES ASSUME Init, launcher = "serving" PROVE thread[Main].pc = "idle"
      BY DEF Init, LockKept, KeptByInstaller
    <2>1. Main \in Thread /\ Idle.pc = "idle"
      BY DEF Thread, Idle
    <2>2. thread[Main] = Idle
      BY <2>1 DEF Init
    <2>3. QED
      BY <2>1, <2>2
  <1>2. IInv /\ LockKept /\ [Next]_vars => LockKept'
    BY LockKeptStep
  <1>3. LockKept => KeptByInstaller
    BY DEF LockKept
  <1>4. QED
    BY <1>1, <1>2, <1>3, Invariance, PTL DEF Spec
=============================================================================
