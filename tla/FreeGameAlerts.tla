--------------------------- MODULE FreeGameAlerts ---------------------------
(***************************************************************************)
(* The free-game alert cog: bot/cogs/free_game_alerts.py with the rows it  *)
(* keeps through bot/utils/storage.py and the guild events of bot/main.py. *)
(*                                                                         *)
(* Several asyncio tasks poll: the periodic loop (Loop) and one task per   *)
(* running /setup command (Command).  Code between two awaits is one step; *)
(* the awaits are the places where another task may run.  A poll takes     *)
(* _poll_lock, fetches the feed, and sends the digest to the guilds of the *)
(* subscription list it was given, one guild after the other, in several   *)
(* messages when the list is long.                                         *)
(***************************************************************************)
EXTENDS Integers, Sequences, FiniteSets

CONSTANTS
  Guild,        \* guild ids: the list is polled in their order
  Channel,      \* text channels
  Owner,        \* Owner[c]: the guild of channel c
  Digest,       \* digests of the offer lists the feed may show
  Messages,     \* Messages[d]: how many messages the list d is sent in
  Loop,         \* the task of free_game_poll_loop
  Command,      \* tasks running configure_alert
  Faults,       \* which faults may happen: subset of FaultKind
  Flaky,        \* guilds whose messages may be refused for ever
  MaxRestarts,  \* bound on process restarts
  NoChannel, NoDigest, NoGuild

FaultKind == {"fetch", "http", "transport", "storage"}
Poller == {Loop} \cup Command
OneMessage == Nat \ {0}

ASSUME GuildAssumption == Guild \subseteq Nat /\ NoGuild \notin Guild
ASSUME ChannelAssumption ==
  Owner \in [Channel -> Guild] /\ NoChannel \notin Channel
ASSUME DigestAssumption ==
  Messages \in [Digest -> OneMessage] /\ NoDigest \notin Digest
ASSUME TaskAssumption == Loop \notin Command
ASSUME FaultAssumption ==
  Faults \subseteq FaultKind /\ Flaky \subseteq Guild /\ MaxRestarts \in Nat

VARIABLES
  alerts,      \* table free_game_alerts: the channel of each guild (on disk)
  members,     \* guilds the bot is in
  channels,    \* text channels that exist
  feed,        \* digest of what the provider shows now
  lastDigest,  \* _last_digest_by_guild (memory)
  pollLock,    \* _poll_lock: the holder, then the waiters in FIFO order
  task,        \* what each poller is doing
  restarts,    \* process restarts so far
  posted,      \* history: messages that reached guild g in this process
  owed         \* history: guilds promised a retry at the next check

vars == <<alerts, members, channels, feed, lastDigest, pollLock, task,
          restarts, posted, owed>>
history == <<posted, owed>>
world == <<members, channels, feed>>

(***************************************************************************)
(* A task: its await point (pc), the snapshot entries it has still to      *)
(* visit, the guild it is sending to and where, the digest it fetched, and *)
(* how many messages of it were accepted.                                  *)
(***************************************************************************)
Nothing == [g \in Guild |-> NoChannel]
Idle == [pc |-> "idle", todo |-> Nothing, guild |-> NoGuild,
         digest |-> NoDigest, sent |-> 0]
Reachable(c) == c \in channels /\ Owner[c] \in members
Only(g, c) == [Nothing EXCEPT ![g] = c]
Listed(todo) == {g \in Guild : todo[g] # NoChannel}

Init ==
  /\ alerts = Nothing
  /\ members = Guild
  /\ channels = Channel
  /\ feed \in Digest
  /\ lastDigest = [g \in Guild |-> NoDigest]
  /\ pollLock = << >>
  /\ task = [p \in Poller |-> Idle]
  /\ restarts = 0
  /\ posted = [g \in Guild |-> {}]
  /\ owed = {}

-----------------------------------------------------------------------------
(* Leaving _poll_subscriptions: `async with` hands the lock over.          *)
Return(p) ==
  /\ task' = [task EXCEPT ![p] = Idle]
  /\ pollLock' = Tail(pollLock)

(* An exception that escapes the poll.  OSError and its kin make the loop  *)
(* wait and start over; anything else, such as sqlite3.Error, ends it.     *)
(* A command shows its error message, which promises nothing.              *)
Escape(p, fault) ==
  /\ fault \in Faults
  /\ task' = [task EXCEPT ![p] =
       IF p = Loop /\ fault = "storage" THEN [Idle EXCEPT !.pc = "stopped"]
                                        ELSE Idle]
  /\ pollLock' = Tail(pollLock)

(* The `for subscription` loop from one await to the next: unchanged       *)
(* guilds are skipped unless the poll is forced, guilds whose channel is   *)
(* gone are passed over, and the first remaining one is sent to.  When the *)
(* forced poll of a command ends without a delivery, its answer promises   *)
(* another try at the next automatic check (owed).                         *)
Due(p, todo, last, d) ==
  {g \in Listed(todo) : p # Loop \/ last[g] # d}
ReadyTo(p, todo, last, d) ==
  {g \in Due(p, todo, last, d) : Reachable(todo[g])}

SendNext(p, todo, d, g) ==
  /\ task' = [task EXCEPT ![p] =
       [pc |-> "sending", guild |-> g, digest |-> d, sent |-> 0,
        todo |-> [h \in Guild |-> IF h < g THEN NoChannel ELSE todo[h]]]]
  /\ UNCHANGED pollLock

Advance(p, todo, last, d, failed) ==
  LET ready == ReadyTo(p, todo, last, d)
      due == Due(p, todo, last, d)
  IN \/ /\ ready = {}
        /\ Return(p)
        /\ owed' = IF p = Loop THEN owed \ due
                               ELSE owed \cup due \cup failed
     \/ \E g \in ready :
          /\ \A h \in ready : g <= h
          /\ SendNext(p, todo, d, g)
          /\ owed' = IF p = Loop THEN owed \ {h \in due : h <= g} ELSE owed
     \/ /\ \E h \in due \ ready : \A g \in ready : h < g
        /\ Escape(p, "storage")   \* the metric of a missing channel
        /\ UNCHANGED owed

-----------------------------------------------------------------------------
(* One iteration of the loop starts: the list is read from the database    *)
(* before the poll waits for the lock.                                     *)
LoopTick ==
  /\ task[Loop].pc = "idle"
  /\ Listed(alerts) # {}
  /\ task' = [task EXCEPT ![Loop] = [Idle EXCEPT !.pc = "waiting",
                                                 !.todo = alerts]]
  /\ pollLock' = Append(pollLock, Loop)
  /\ UNCHANGED <<alerts, lastDigest, restarts, world, history>>

(* The list cannot be read: sqlite3.Error ends the loop.                   *)
LoopTickFails ==
  /\ "storage" \in Faults
  /\ task[Loop].pc = "idle"
  /\ task' = [task EXCEPT ![Loop].pc = "stopped"]
  /\ UNCHANGED <<alerts, lastDigest, pollLock, restarts, world, history>>

(* configure_alert, up to `await interaction.response.defer`: the channel  *)
(* exists and the bot may write in it.                                     *)
ConfigureBegin(p, c) ==
  /\ p \in Command
  /\ task[p].pc = "idle"
  /\ Reachable(c)
  /\ task' = [task EXCEPT ![p] = [Idle EXCEPT !.pc = "deferring",
                                              !.todo = Only(Owner[c], c)]]
  /\ UNCHANGED <<alerts, lastDigest, pollLock, restarts, world, history>>

(* upsert_free_game_alert.                                                 *)
Upsert(todo) ==
  alerts' = [g \in Guild |-> IF todo[g] # NoChannel THEN todo[g] ELSE alerts[g]]

(* After the defer: the row is written and the forced poll asks for the    *)
(* lock.  The guild may be gone by now.                                    *)
ConfigureStore(p) ==
  /\ task[p].pc = "deferring"
  /\ Upsert(task[p].todo)
  /\ owed' = owed \ Listed(task[p].todo)
  /\ task' = [task EXCEPT ![p].pc = "waiting"]
  /\ pollLock' = Append(pollLock, p)
  /\ UNCHANGED <<lastDigest, restarts, world, posted>>

(* The defer, or the write of the row, fails; or only that of the metric.  *)
ConfigureFails(p) ==
  /\ Faults \cap {"http", "transport", "storage"} # {}
  /\ task[p].pc = "deferring"
  /\ UNCHANGED alerts \/ ("storage" \in Faults /\ Upsert(task[p].todo))
  /\ task' = [task EXCEPT ![p] = Idle]
  /\ UNCHANGED <<lastDigest, pollLock, restarts, world, history>>

(* Variant: the poll is not under _poll_lock.                              *)
AcquireWithoutLock(p) ==
  /\ task[p].pc = "waiting"
  /\ task' = [task EXCEPT ![p].pc = "fetching"]
  /\ UNCHANGED <<alerts, lastDigest, pollLock, restarts, world, history>>

(* The lock is free for p: it starts the fetch.                            *)
Acquire(p) ==
  /\ task[p].pc = "waiting"
  /\ pollLock # << >> /\ Head(pollLock) = p
  /\ task' = [task EXCEPT ![p].pc = "fetching"]
  /\ UNCHANGED <<alerts, lastDigest, pollLock, restarts, world, history>>

FetchOk(p) ==
  /\ task[p].pc = "fetching"
  /\ Advance(p, task[p].todo, lastDigest, feed, {})
  /\ UNCHANGED <<alerts, lastDigest, restarts, world, posted>>

(* Variant: the early return after a failed fetch keeps the lock.          *)
FetchFailsHoldingLock(p) ==
  /\ task[p].pc = "fetching"
  /\ "fetch" \in Faults
  /\ task' = [task EXCEPT ![p] = Idle]
  /\ UNCHANGED <<alerts, lastDigest, pollLock, restarts, world, history>>

(* The fetch raises: a metric is written for every guild and the poll      *)
(* returns an empty set.                                                   *)
FetchFails(p) ==
  /\ task[p].pc = "fetching"
  /\ "fetch" \in Faults
  /\ \/ Return(p) /\ owed' = IF p = Loop THEN owed ELSE owed \cup Listed(task[p].todo)
     \/ Escape(p, "storage") /\ UNCHANGED owed
  /\ UNCHANGED <<alerts, lastDigest, restarts, world, posted>>

-----------------------------------------------------------------------------
(* The subscription being served, and the rest of the snapshot.            *)
Target(p) == task[p].todo[task[p].guild]
RestKept(p) == task[p].todo  \* variant: the guild that was served stays listed
Rest(p) == [task[p].todo EXCEPT ![task[p].guild] = NoChannel]

(* Message k of the digest reaches guild g.                                *)
Post(p) ==
  posted' = [posted EXCEPT ![task[p].guild] =
               @ \cup {<<task[p].digest, task[p].sent + 1>>}]

(* A message is accepted and more are to come.                             *)
SendMore(p) ==
  /\ task[p].pc = "sending"
  /\ Reachable(Target(p))
  /\ task[p].sent + 1 < Messages[task[p].digest]
  /\ Post(p)
  /\ task' = [task EXCEPT ![p].sent = @ + 1]
  /\ UNCHANGED <<alerts, lastDigest, pollLock, restarts, world, owed>>

(* The last message is accepted: the digest is recorded, then the metric,  *)
(* and the poll goes on to the next guild.                                 *)
SendLast(p) ==
  LET g == task[p].guild
      d == task[p].digest
      last == [lastDigest EXCEPT ![g] = d]
  IN /\ task[p].pc = "sending"
     /\ Reachable(Target(p))
     /\ task[p].sent + 1 = Messages[d]
     /\ Post(p)
     /\ lastDigest' = last
     /\ \/ Advance(p, Rest(p), last, d, {})
        \/ Escape(p, "storage") /\ UNCHANGED owed
     /\ UNCHANGED <<alerts, restarts, world>>

(* A fault may hide that the message did arrive.                           *)
PostOrNot(p) == UNCHANGED posted \/ (Reachable(Target(p)) /\ Post(p))

(* Variant: the digest is recorded although the message was refused.       *)
SendRefusedButRecorded(p) ==
  /\ task[p].pc = "sending"
  /\ "http" \in Faults
  /\ lastDigest' = [lastDigest EXCEPT ![task[p].guild] = task[p].digest]
  /\ Advance(p, Rest(p), lastDigest', task[p].digest, {task[p].guild})
  /\ UNCHANGED <<alerts, restarts, world, posted>>

(* Variant: a refusal is not caught and ends the whole poll.               *)
SendRefusedUncaught(p) ==
  /\ task[p].pc = "sending"
  /\ "http" \in Faults \/ ~Reachable(Target(p))
  /\ Return(p)
  /\ UNCHANGED <<alerts, lastDigest, restarts, world, history>>

(* Variant: a refused list is sent again at once, for as long as it takes. *)
SendRefusedRetried(p) ==
  /\ task[p].pc = "sending"
  /\ "http" \in Faults \/ ~Reachable(Target(p))
  /\ task' = [task EXCEPT ![p].sent = 0]
  /\ UNCHANGED <<alerts, lastDigest, pollLock, restarts, world, history>>

(* discord.HTTPException: the channel is gone, or Discord refuses.         *)
SendRefused(p) ==
  /\ task[p].pc = "sending"
  /\ \/ ~Reachable(Target(p)) /\ UNCHANGED posted
     \/ /\ "http" \in Faults
        /\ PostOrNot(p)
  /\ \/ Advance(p, Rest(p), lastDigest, task[p].digest, {task[p].guild})
     \/ Escape(p, "storage") /\ UNCHANGED owed
  /\ UNCHANGED <<alerts, lastDigest, restarts, world>>

(* The connection breaks: the exception is not caught by the poll.         *)
SendBroken(p) ==
  /\ task[p].pc = "sending"
  /\ PostOrNot(p)
  /\ Escape(p, "transport")
  /\ UNCHANGED <<alerts, lastDigest, restarts, world, owed>>

-----------------------------------------------------------------------------
(* Variant: the guild is struck off the map, which every poll looks up.    *)
RemoveAlertStrikesGuild(g) ==
  /\ g \in members
  /\ alerts' = [alerts EXCEPT ![g] = NoChannel]
  /\ lastDigest' = [h \in Guild \ {g} |-> lastDigest[h]]
  /\ owed' = owed \ {g}
  /\ UNCHANGED <<pollLock, task, restarts, world, posted>>

(* remove_alert: no await before the answer.                               *)
RemoveAlert(g) ==
  /\ g \in members
  /\ alerts' = [alerts EXCEPT ![g] = NoChannel]
  /\ lastDigest' = [lastDigest EXCEPT ![g] = NoDigest]
  /\ owed' = owed \ {g}
  /\ UNCHANGED <<pollLock, task, restarts, world, posted>>

(* on_guild_remove: the rows of the guild are deleted, unless the metric   *)
(* written before them fails.                                              *)
GuildRemove(g) ==
  /\ g \in members
  /\ members' = members \ {g}
  /\ \/ alerts' = [alerts EXCEPT ![g] = NoChannel]
     \/ "storage" \in Faults /\ UNCHANGED alerts
  /\ owed' = owed \ {g}
  /\ UNCHANGED <<lastDigest, pollLock, task, restarts, channels, feed, posted>>

GuildJoin(g) ==
  /\ g \notin members
  /\ members' = members \cup {g}
  /\ UNCHANGED <<alerts, lastDigest, pollLock, task, restarts, channels, feed,
                 history>>

ChannelDelete(c) ==
  /\ c \in channels
  /\ channels' = channels \ {c}
  /\ UNCHANGED <<alerts, lastDigest, pollLock, task, restarts, members, feed,
                 history>>

FeedChange(d) ==
  /\ feed # d
  /\ feed' = d
  /\ UNCHANGED <<alerts, lastDigest, pollLock, task, restarts, members,
                 channels, history>>

(* The process ends and starts again: memory is lost, the table is kept.   *)
(* The bot may have been removed from guilds while it was down.            *)
Restart(gone) ==
  /\ restarts < MaxRestarts
  /\ restarts' = restarts + 1
  /\ members' = members \ gone
  /\ lastDigest' = [g \in Guild |-> NoDigest]
  /\ pollLock' = << >>
  /\ task' = [p \in Poller |-> Idle]
  /\ posted' = [g \in Guild |-> {}]
  /\ UNCHANGED <<alerts, channels, feed, owed>>

-----------------------------------------------------------------------------
Poll(p) ==
  \/ Acquire(p)
  \/ FetchOk(p)
  \/ FetchFails(p)
  \/ SendMore(p)
  \/ SendLast(p)
  \/ SendRefused(p)
  \/ SendBroken(p)

Configure(p) ==
  \/ \E c \in Channel : ConfigureBegin(p, c)
  \/ ConfigureStore(p)
  \/ ConfigureFails(p)

Environment ==
  \/ \E g \in Guild : RemoveAlert(g) \/ GuildRemove(g) \/ GuildJoin(g)
  \/ \E c \in Channel : ChannelDelete(c)
  \/ \E d \in Digest : FeedChange(d)
  \/ \E gone \in SUBSET members : Restart(gone)

Next ==
  \/ LoopTick
  \/ LoopTickFails
  \/ \E p \in Poller : Poll(p)
  \/ \E p \in Command : Configure(p)
  \/ Environment

Spec == Init /\ [][Next]_vars

(***************************************************************************)
(* Fairness.  The event loop runs every task that can go on: the timer of  *)
(* the loop fires, a released asyncio.Lock wakes its first waiter, and     *)
(* every await of a poll ends, for the feed request and the Discord        *)
(* requests have timeouts.  A feed asked again and again answers once in a *)
(* while, and so does the channel of a guild that is not Flaky.            *)
(***************************************************************************)
FetchDone(p) == FetchOk(p) \/ FetchFails(p)
SendDone(p) == SendMore(p) \/ SendLast(p) \/ SendRefused(p) \/ SendBroken(p)

Fairness ==
  /\ WF_vars(LoopTick)
  /\ \A p \in Poller :
       /\ WF_vars(Acquire(p))
       /\ WF_vars(FetchDone(p))
       /\ WF_vars(SendDone(p))
  /\ \A p \in Command : WF_vars(ConfigureStore(p) \/ ConfigureFails(p))
  /\ SF_vars(FetchOk(Loop))
  /\ \A g \in Guild \ Flaky : SF_vars(task[Loop].guild = g /\ SendMore(Loop))
                           /\ SF_vars(task[Loop].guild = g /\ SendLast(Loop))

FairSpec == Spec /\ Fairness

-----------------------------------------------------------------------------
PollPc == {"waiting", "fetching", "sending"}
TaskType ==
  [pc : PollPc \cup {"idle", "deferring", "stopped"},
   todo : [Guild -> Channel \cup {NoChannel}],
   guild : Guild \cup {NoGuild},
   digest : Digest \cup {NoDigest},
   sent : Nat]

(* Every variable keeps its type (free_game_alerts.py:151-229).            *)
TypeOK ==
  /\ alerts \in [Guild -> Channel \cup {NoChannel}]
  /\ members \subseteq Guild
  /\ channels \subseteq Channel
  /\ feed \in Digest
  /\ lastDigest \in [Guild -> Digest \cup {NoDigest}]
  /\ pollLock \in Seq(Poller)
  /\ task \in [Poller -> TaskType]
  /\ restarts \in Nat
  /\ posted \in [Guild -> SUBSET (Digest \X Nat)]
  /\ owed \subseteq Guild

(* Between the fetch and the last send of a poll no other poll is there:   *)
(* the check of the remembered digest and its update are not interleaved.  *)
Polling(p) == task[p].pc \in {"fetching", "sending"}
PollExclusion == \A p, q \in Poller : Polling(p) /\ Polling(q) => p = q

(* The remembered digest never runs ahead of what was delivered: every     *)
(* message of it has reached the guild since the process started, whatever *)
(* refusals, partial lists, removals and restarts happened on the way.     *)
Complete(g, d) == \A k \in 1 .. Messages[d] : <<d, k>> \in posted[g]
DigestNeverAhead ==
  \A g \in Guild : lastDigest[g] # NoDigest => Complete(g, lastDigest[g])

(* An automatic message under way never carries the digest remembered last *)
(* for its guild, whether the loop or a command got it delivered, and also *)
(* while other commands run: what the lock and the one digest per guild    *)
(* are for.  It is no promise about earlier digests: a feed that returns   *)
(* to an older list makes the loop send that list again, and so does a     *)
(* poll that read its list before remove_alert forgot the digest.          *)
NoUnchangedRepeat ==
  task[Loop].pc = "sending" =>
    lastDigest[task[Loop].guild] # task[Loop].digest

(* Every /setup command is answered in the end: the queue for the lock is  *)
(* served in turn and no poll holds it for ever.                           *)
CommandServed == \A p \in Command : task[p].pc # "idle" ~> task[p].pc = "idle"

(* A guild that stays subscribed to a channel the bot can reach gets the   *)
(* list the feed settles on, and the process remembers that it did: failed *)
(* fetches, refused messages and other guilds' failures only delay it.     *)
Steady(g, d) ==
  /\ alerts[g] # NoChannel
  /\ Reachable(alerts[g])
  /\ feed = d
EventualDelivery ==
  \A g \in Guild \ Flaky : \A d \in Digest :
    <>[]Steady(g, d) => <>[](lastDigest[g] = d)

(* Once a guild has no subscription and gets none again, sends to it stop: *)
(* a poll may still serve it from the list it read before, but no longer   *)
(* than that list lasts.                                                   *)
RemovalTakesEffect ==
  \A g \in Guild :
    <>[](alerts[g] = NoChannel) => <>[](\A p \in Poller : task[p].guild # g)

(* What configure_alert answers when its list was not delivered            *)
(* (free_game_alerts.py:268-271): the next automatic check tries again.    *)
(* A check breaks the promise when it passes over the guild unattempted.   *)
LoopPasses(g) ==
  /\ FetchOk(Loop) \/ SendLast(Loop) \/ SendRefused(Loop)
  /\ task[Loop].todo[g] # NoChannel
  /\ task'[Loop].todo[g] = NoChannel
  /\ task'[Loop].pc # "stopped"
RetryPromiseKept == [][\A g \in owed : LoopPasses(g) => g \notin owed']_vars

(***************************************************************************)
(* All tasks together are one courier: the head of the lock, as long as it *)
(* sends.  Its list was what the provider showed when it set out; it goes  *)
(* from guild to guild in their order, and to none for which this list was *)
(* the one remembered last, unless a command sent it, and then to no other *)
(* guild.                                                                  *)
(***************************************************************************)
Sends == pollLock # << >> /\ task[Head(pollLock)].pc = "sending"
Courier ==
  LET t == task[Head(pollLock)]
  IN IF Sends THEN [guild |-> t.guild, digest |-> t.digest, sent |-> t.sent,
                    forced |-> Head(pollLock) # Loop]
              ELSE [guild |-> NoGuild, digest |-> NoDigest, sent |-> 0,
                    forced |-> FALSE]

Ledger == INSTANCE AlertLedger WITH
            row <- alerts, inbox <- posted, remembered <- lastDigest,
            courier <- Courier
OneCourier == Ledger!Spec
=============================================================================
