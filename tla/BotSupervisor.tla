---------------------------- MODULE BotSupervisor ----------------------------
(***************************************************************************)
(* The local launcher, scripts/local_launcher.py: BotSupervisor owns the   *)
(* bot's process, and the threads of a ThreadingHTTPServer call its start, *)
(* stop, restart and status while the main thread waits for the end.       *)
(*                                                                         *)
(* What a thread does under the supervisor's RLock is one step, except     *)
(* that start keeps the lock through the check of the dependencies, which  *)
(* may install packages for minutes.  stop waits for the process without   *)
(* the lock.  A process may end by itself at any time.                     *)
(***************************************************************************)
EXTENDS Integers, FiniteSets

CONSTANTS
  Handler,   \* threads of the admin server
  Main,      \* the launcher's main thread
  Nobody,    \* the lock is free
  MaxBots,   \* bound on the processes that are ever started
  KillHangs  \* whether a killed process may outlast the last wait of stop

ASSUME ThreadAssumption == Main \notin Handler /\ Nobody \notin Handler \cup {Main}
ASSUME BoundAssumption == MaxBots \in Nat \ {0} /\ KillHangs \in BOOLEAN

Thread == Handler \cup {Main}
Bot == 1 .. MaxBots
NoBot == 0

VARIABLES
  launcher,  \* "booting", "serving", "closing" or "exited"
  bot,       \* the state of every process, started or not
  sup,       \* the fields of BotSupervisor
  lock,      \* the thread that keeps the RLock over several steps
  thread     \* where every thread is

vars == <<launcher, bot, sup, lock, thread>>

Alive(b) == bot[b] \in {"running", "told", "killed"}
Ended == {"done", "failed", "stopped"}
Idle == [pc |-> "idle", op |-> "none", target |-> NoBot]

(* main starts the bot first, unless it was given --no-start.              *)
Init ==
  /\ launcher \in {"booting", "serving"}
  /\ bot = [b \in Bot |-> "unborn"]
  /\ sup = [process |-> NoBot, log |-> FALSE, lastExit |-> "none",
            error |-> "", token |-> TRUE]
  /\ lock = Nobody
  /\ thread = [t \in Thread |-> IF t = Main /\ launcher = "booting"
                THEN [Idle EXCEPT !.pc = "start", !.op = "start"] ELSE Idle]

-----------------------------------------------------------------------------
(* Variant: how the process ended is kept instead of its exit code.        *)
RawEnd(b) == bot[b]

(* _refresh_process_locked: an ended process is noticed, its exit code     *)
(* kept, its log closed, and a message set unless it ended well.           *)
ExitCode(b) == IF bot[b] = "done" THEN "zero" ELSE "nonzero"
Refreshed ==
  IF sup.process # NoBot /\ bot[sup.process] \in Ended
  THEN [sup EXCEPT !.process = NoBot, !.log = FALSE,
                   !.lastExit = ExitCode(sup.process),
                   !.error = IF ExitCode(sup.process) = "zero" THEN @ ELSE "exit"]
  ELSE sup

Working == launcher # "exited"
At(t, pc) == Working /\ thread[t].pc = pc
Goto(t, pc) == thread' = [thread EXCEPT ![t].pc = pc]

(* The request is over: a handler is free again, the main thread serves or *)
(* leaves.                                                                 *)
Return(t) ==
  /\ thread' = [thread EXCEPT ![t] = Idle]
  /\ launcher' = IF t = Main /\ launcher = "booting" THEN "serving" ELSE launcher

-----------------------------------------------------------------------------
(* do_POST: a handler thread takes a request.                              *)
Request(h, op) ==
  /\ launcher = "serving"
  /\ thread[h].pc = "idle"
  /\ thread' = [thread EXCEPT ![h] =
       [pc |-> IF op = "start" THEN "start" ELSE "stop", op |-> op,
        target |-> NoBot]]
  /\ UNCHANGED <<launcher, bot, sup, lock>>

(* status, in one hold of the lock: it answers what it finds, which is     *)
(* left out, and updates what it knows of the process.                     *)
Status ==
  /\ launcher \in {"serving", "closing"}
  /\ lock = Nobody
  /\ sup' = Refreshed
  /\ UNCHANGED <<launcher, bot, lock, thread>>

(* Variant: the process is looked at before the lock is taken.             *)
StartUnlocked(t) ==
  /\ At(t, "start")
  /\ Refreshed.process = NoBot
  /\ sup' = [Refreshed EXCEPT !.token = TRUE]
  /\ Goto(t, "installing")
  /\ UNCHANGED <<launcher, bot, lock>>

(* start, up to the check of the dependencies: it answers at once when a   *)
(* process is there, or when .env has no token.                            *)
Start(t) ==
  /\ At(t, "start")
  /\ lock = Nobody
  /\ \/ /\ Refreshed.process # NoBot
        /\ sup' = Refreshed
        /\ Return(t)
        /\ UNCHANGED lock
     \/ /\ Refreshed.process = NoBot
        /\ \E token \in BOOLEAN :
             /\ sup' = [Refreshed EXCEPT !.token = token]
             /\ IF token
                THEN Goto(t, "installing") /\ lock' = t /\ UNCHANGED launcher
                ELSE Return(t) /\ UNCHANGED lock
  /\ UNCHANGED bot

(* Variant: the answer that the packages are missing keeps the lock.       *)
InstallFailsHoldingLock(t) ==
  /\ At(t, "installing")
  /\ Return(t)
  /\ UNCHANGED <<bot, sup, lock>>

InstallFails(t) ==
  /\ At(t, "installing")
  /\ lock' = Nobody
  /\ Return(t)
  /\ UNCHANGED <<bot, sup>>

(* Variant: the handle of the log is left open.                            *)
SpawnFailsLogOpen(t) ==
  /\ At(t, "installing")
  /\ lock' = Nobody
  /\ sup' = [sup EXCEPT !.error = "spawn", !.log = TRUE]
  /\ Return(t)
  /\ UNCHANGED bot

(* The log cannot be opened or the process not be created.                 *)
SpawnFails(t) ==
  /\ At(t, "installing")
  /\ lock' = Nobody
  /\ sup' = [sup EXCEPT !.error = "spawn", !.log = FALSE]
  /\ Return(t)
  /\ UNCHANGED bot

Spawn(t) ==
  /\ At(t, "installing")
  /\ \E b \in Bot :
       /\ bot[b] = "unborn"
       /\ \A c \in Bot : c < b => bot[c] # "unborn"
       /\ bot' = [bot EXCEPT ![b] = "running"]
       /\ sup' = [sup EXCEPT !.process = b, !.log = TRUE,
                             !.lastExit = "none", !.error = ""]
  /\ lock' = Nobody
  /\ Return(t)

-----------------------------------------------------------------------------
(* stop has nothing more to do; restart goes on with start.                *)
StopDone(t) ==
  IF thread[t].op = "restart"
  THEN Goto(t, "start") /\ UNCHANGED launcher
  ELSE Return(t)

(* Variant: the process is forgotten as soon as it is told to end.         *)
StopForgets(t) ==
  /\ At(t, "stop")
  /\ lock = Nobody
  /\ IF Refreshed.process = NoBot
     THEN sup' = Refreshed /\ StopDone(t) /\ UNCHANGED bot
     ELSE /\ sup' = [Refreshed EXCEPT !.process = NoBot, !.log = FALSE]
          /\ bot' = [bot EXCEPT ![Refreshed.process] = "told"]
          /\ thread' = [thread EXCEPT ![t].pc = "wait",
                                      ![t].target = Refreshed.process]
          /\ UNCHANGED launcher
  /\ UNCHANGED lock

(* stop, first hold of the lock.                                           *)
Stop(t) ==
  /\ At(t, "stop")
  /\ lock = Nobody
  /\ sup' = Refreshed
  /\ LET b == Refreshed.process IN
       IF b = NoBot
       THEN StopDone(t) /\ UNCHANGED bot
       ELSE /\ bot' = [bot EXCEPT ![b] = IF @ = "running" THEN "told" ELSE @]
            /\ thread' = [thread EXCEPT ![t].pc = "wait", ![t].target = b]
            /\ UNCHANGED launcher
  /\ UNCHANGED lock

(* Variant: a process that does not end in time is waited for longer.      *)
KillNever(t) ==
  /\ At(t, "wait")
  /\ Alive(thread[t].target)
  /\ UNCHANGED vars

(* The process did not end within 10 seconds.                              *)
Kill(t) ==
  /\ At(t, "wait")
  /\ Alive(thread[t].target)
  /\ bot' = [bot EXCEPT ![thread[t].target] = "killed"]
  /\ Goto(t, "killing")
  /\ UNCHANGED <<launcher, sup, lock>>

(* The process did not even end within 5 seconds of its kill: the          *)
(* exception leaves stop.                                                  *)
GiveUp(t) ==
  /\ KillHangs
  /\ At(t, "killing")
  /\ Alive(thread[t].target)
  /\ Return(t)
  /\ UNCHANGED <<bot, sup, lock>>

(* The process has ended: second hold of the lock.  Another thread may     *)
(* have started a new one.                                                 *)
Stopped(t) ==
  /\ At(t, "wait") \/ At(t, "killing")
  /\ ~Alive(thread[t].target)
  /\ lock = Nobody
  /\ sup' = [Refreshed EXCEPT !.error = ""]
  /\ StopDone(t)
  /\ UNCHANGED <<bot, lock>>

-----------------------------------------------------------------------------
(* The window is closed: server_close does not wait for the handlers, they *)
(* are daemon threads; shutdown is a stop.                                 *)
Close ==
  /\ launcher = "serving"
  /\ launcher' = "closing"
  /\ thread' = [thread EXCEPT ![Main] = [Idle EXCEPT !.pc = "stop", !.op = "stop"]]
  /\ UNCHANGED <<bot, sup, lock>>

(* The interpreter ends, and the handlers with it.                         *)
Exit ==
  /\ launcher = "closing"
  /\ thread[Main].pc = "idle"
  /\ launcher' = "exited"
  /\ UNCHANGED <<bot, sup, lock, thread>>

(* A process ends by itself, well or not, or as it was told.  The bot has  *)
(* no handler for SIGTERM: its exit code is not zero then.                 *)
BotEnds(b) ==
  /\ Alive(b)
  /\ \/ bot[b] = "running" /\ bot' = [bot EXCEPT ![b] = "done"]
     \/ bot[b] = "running" /\ bot' = [bot EXCEPT ![b] = "failed"]
     \/ bot[b] # "running" /\ bot' = [bot EXCEPT ![b] = "stopped"]
  /\ UNCHANGED <<launcher, sup, lock, thread>>

Work(t) ==
  \/ Start(t)
  \/ InstallFails(t)
  \/ SpawnFails(t)
  \/ Spawn(t)
  \/ Stop(t)
  \/ Kill(t)
  \/ GiveUp(t)
  \/ Stopped(t)

Next ==
  \/ \E h \in Handler, op \in {"start", "stop", "restart"} : Request(h, op)
  \/ \E t \in Thread : Work(t)
  \/ \E b \in Bot : BotEnds(b)
  \/ Status
  \/ Close
  \/ Exit

Spec == Init /\ [][Next]_vars

(* Threads are scheduled, and one that asks for the lock again and again   *)
(* gets it in the end; a killed process ends; a told one may never do.     *)
(* That the check of the dependencies ends is an assumption about pip:     *)
(* ensure_dependencies gives its installation no timeout.                  *)
Killed(b) == bot[b] = "killed" /\ BotEnds(b)
Fairness ==
  /\ \A t \in Thread : /\ SF_vars(Start(t) \/ Stop(t) \/ Stopped(t))
                       /\ WF_vars(Kill(t))
                       /\ WF_vars(InstallFails(t) \/ SpawnFails(t) \/ Spawn(t))
  /\ \A b \in Bot : WF_vars(Killed(b))
  /\ WF_vars(Exit)

FairSpec == Spec /\ Fairness

-----------------------------------------------------------------------------
SupType == [process : Bot \cup {NoBot}, log : BOOLEAN,
            lastExit : {"none", "zero", "nonzero"},
            error : {"", "exit", "spawn"}, token : BOOLEAN]
ThreadType == [pc : {"idle", "start", "installing", "stop", "wait", "killing"},
               op : {"none", "start", "stop", "restart"},
               target : Bot \cup {NoBot}]

(* Every variable keeps its type (BotSupervisor.__init__).                 *)
TypeOK ==
  /\ launcher \in {"booting", "serving", "closing", "exited"}
  /\ bot \in [Bot -> {"unborn", "running", "told", "killed"} \cup Ended]
  /\ sup \in SupType
  /\ lock \in Thread \cup {Nobody}
  /\ thread \in [Thread -> ThreadType]

(* "Own the bot child process" (local_launcher.py:230): whatever requests  *)
(* overlap, a bot that is alive is the one the supervisor knows, so that   *)
(* there is never a second one, and while the launcher serves any request  *)
(* to stop reaches the one there is.  It may outlive the launcher: what    *)
(* shutdown leaves running is known to a supervisor that is gone.          *)
OneKnownBot == \A b \in Bot : Alive(b) => sup.process = b

(* The log is open exactly while the supervisor knows a process, which     *)
(* writes to it or has ended unnoticed: no start that fails and no stop    *)
(* leaves a handle behind, or a bot without its log.                       *)
LogFollowsProcess == sup.log <=> sup.process # NoBot

(* Every request is answered: a bot that ignores its termination, threads  *)
(* that keep the lock, or requests that overlap only delay the answer; and *)
(* the launcher that closes ends, with or without its bot.                 *)
RequestsAnswered ==
  \A h \in Handler : thread[h].pc # "idle" ~>
                       thread[h].pc = "idle" \/ launcher = "exited"
CloseEnds == launcher = "closing" ~> launcher = "exited"
=============================================================================
