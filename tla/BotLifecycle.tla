---------------------------- MODULE BotLifecycle ----------------------------
(***************************************************************************)
(* bot/main.py: the health flag, the synchronisation of each guild's       *)
(* commands in on_ready, and the rows a guild has in the database, while   *)
(* the connection to Discord breaks, resumes or starts anew and the bot is *)
(* added to and removed from guilds.  With it what the cogs write of a     *)
(* guild after an await: the commands, the prompt of cogs/settings.py, the *)
(* welcome of cogs/welcome.py and the polls of cogs/free_game_alerts.py.   *)
(*                                                                         *)
(* discord.py runs every event's handler in a task of its own; a handler   *)
(* without an await is one step with its event.  on_ready awaits, so that  *)
(* several may overlap, each a task of Ready.  Of the handlers that write  *)
(* rows it only matters which guilds they are about: those of busy.        *)
(***************************************************************************)
EXTENDS Integers, FiniteSets

CONSTANTS
  Guild,
  Ready,        \* tasks running on_ready: bounds how many overlap
  Modes,        \* values SYNC_GUILD_COMMANDS may have at a start
  Faults,       \* which requests to Discord may fail: application_info
                \* ("info"), the synchronisation of commands ("sync")
  MaxRestarts,  \* bound on process restarts
  NoGuild

ASSUME GuildAssumption == NoGuild \notin Guild
ASSUME ModeAssumption == Modes \subseteq BOOLEAN /\ Modes # {}
ASSUME FaultAssumption == Faults \subseteq {"info", "sync"} /\ MaxRestarts \in Nat

VARIABLES
  member,    \* guilds the bot belongs to, as Discord knows
  copies,    \* guilds with commands of their own, as Discord knows
  gateway,   \* "new" before the first session, "up" or "down"
  cache,     \* bot.guilds
  missed,    \* guilds the bot left while the gateway was down
  readyDue,  \* the ready event of the last session is still to come
  health,    \* HEALTH_STATE["ready"]
  synced,    \* initial_guild_sync_done
  dev,       \* guild_sync_enabled()
  task,      \* what each on_ready is doing
  joining,   \* guilds whose on_guild_join waits for its synchronisation
  busy,      \* guilds some handler awaits for that may write rows after
  rows,      \* what the database holds of each guild
  restarts,
  clean      \* history: guilds left while nothing of them was under way

vars == <<member, copies, gateway, cache, missed, readyDue, health, synced, dev,
          task, joining, busy, rows, restarts, clean>>
discord == <<member, copies>>
session == <<gateway, cache, missed, readyDue>>
process == <<synced, dev, restarts>>

(* A guild's settings and subscriptions, its metrics, and the mark of its  *)
(* migration in runtime_state.                                             *)
Row == {"settings", "metrics", "migration"}
Idle == [pc |-> "idle", guild |-> NoGuild, todo |-> {}]

(* Work on g that an await separates from the next row it may write.       *)
Underway(g) ==
  g \in busy \/ \E t \in Ready : g = task[t].guild \/ g \in task[t].todo

Init ==
  /\ member \in SUBSET Guild
  /\ copies \in SUBSET member
  /\ gateway = "new"
  /\ cache = {}
  /\ missed = {}
  /\ readyDue = FALSE
  /\ health = FALSE
  /\ synced = FALSE
  /\ dev \in Modes
  /\ task = [t \in Ready |-> Idle]
  /\ joining = {}
  /\ busy = {}
  /\ rows = [g \in Guild |-> {}]
  /\ restarts = 0
  /\ clean = {}

-----------------------------------------------------------------------------
(* A new session: the guilds are listed anew, what happened meanwhile is   *)
(* not told, and a ready event follows some time after.                    *)
Identify ==
  /\ gateway # "up"
  /\ gateway' = "up"
  /\ cache' = member
  /\ missed' = {}
  /\ readyDue' = TRUE
  /\ UNCHANGED <<discord, health, process, task, joining, busy, rows, clean>>

(* Variant: the metric is filed without the guild's id.                    *)
JoinedGlobal(r) == r \cup {"settings", "global"}

(* on_guild_join of bot/main.py: ensure_guild and a metric.                *)
Joined(r) == r \cup {"settings", "metrics"}

(* on_guild_join of cogs/settings.py: where there is a channel for it, the *)
(* prompt is sent, and a metric follows; otherwise the metric comes at     *)
(* once.                                                                   *)
Prompted(S) == \E sent \in SUBSET S : busy' = busy \cup sent

(* The session goes on: the events that were missed are told in their      *)
(* order, so that on_guild_remove and on_guild_join run, and on_member_join *)
(* for guilds that may be left again by then; but no ready event.          *)
Resume ==
  LET joined == (member \ cache) \cup (member \cap missed) \cup (missed \ cache)
  IN /\ gateway = "down"
     /\ gateway' = "up"
     /\ cache' = member
     /\ missed' = {}
     /\ rows' = [g \in Guild |->
          LET kept == IF g \in missed THEN {} ELSE rows[g]
          IN IF g \in joined \cap member THEN Joined(kept) ELSE kept]
     /\ joining' = IF dev THEN joining \cup joined ELSE joining
     /\ Prompted(joined \cup missed)
     /\ UNCHANGED <<discord, readyDue, health, process, task, clean>>

(* on_disconnect: the connection breaks, or an attempt at one fails.       *)
Disconnect ==
  /\ gateway' = IF gateway = "new" THEN "new" ELSE "down"
  /\ health' = FALSE
  /\ UNCHANGED <<discord, cache, missed, readyDue, process, task, joining, busy,
                 rows, clean>>

(* The bot is added to a guild.                                            *)
Join(g) ==
  /\ g \notin member
  /\ member' = member \cup {g}
  /\ clean' = clean \ {g}
  /\ IF gateway = "up"
     THEN /\ cache' = cache \cup {g}
          /\ rows' = [rows EXCEPT ![g] = Joined(@)]
          /\ joining' = IF dev THEN joining \cup {g} ELSE joining
          /\ Prompted({g})
     ELSE UNCHANGED <<cache, rows, joining, busy>>
  /\ UNCHANGED <<copies, gateway, missed, readyDue, health, process, task>>

(* on_guild_join's request ends: the copies are made, or it failed.        *)
JoinSyncEnds(g) ==
  /\ g \in joining
  /\ joining' = joining \ {g}
  /\ \/ g \in member /\ copies' = copies \cup {g}
     \/ (g \notin member \/ "sync" \in Faults) /\ UNCHANGED copies
  /\ UNCHANGED <<member, session, health, process, task, busy, rows, clean>>

(* Variant: the settings of the guild are kept for its return.             *)
LeaveKeepsSettings(g) ==
  /\ g \in member
  /\ member' = member \ {g}
  /\ copies' = copies \ {g}
  /\ IF gateway = "up"
     THEN /\ cache' = cache \ {g}
          /\ rows' = [rows EXCEPT ![g] = @ \cap {"settings"}]
          /\ clean' = IF Underway(g) THEN clean ELSE clean \cup {g}
          /\ UNCHANGED missed
     ELSE /\ missed' = IF gateway = "down" THEN missed \cup {g} ELSE missed
          /\ UNCHANGED <<cache, rows, clean>>
  /\ UNCHANGED <<gateway, readyDue, health, process, task, joining, busy>>

(* The bot is removed from a guild; Discord drops its commands there.      *)
(* on_guild_remove deletes its rows.                                       *)
Leave(g) ==
  /\ g \in member
  /\ member' = member \ {g}
  /\ copies' = copies \ {g}
  /\ IF gateway = "up"
     THEN /\ cache' = cache \ {g}
          /\ rows' = [rows EXCEPT ![g] = {}]
          /\ clean' = IF Underway(g) THEN clean ELSE clean \cup {g}
          /\ UNCHANGED missed
     ELSE /\ missed' = IF gateway = "down" THEN missed \cup {g} ELSE missed
          /\ UNCHANGED <<cache, rows, clean>>
  /\ UNCHANGED <<gateway, readyDue, health, process, task, joining, busy>>

-----------------------------------------------------------------------------
(* The ready event: on_ready asks for the application's data.              *)
ReadyFires(t) ==
  /\ readyDue
  /\ readyDue' = FALSE
  /\ task[t].pc = "idle"
  /\ task' = [task EXCEPT ![t].pc = "info"]
  /\ UNCHANGED <<discord, gateway, cache, missed, health, process, joining, busy,
                 rows, clean>>

(* The `for guild` loop up to its next await, from the rows r: every guild *)
(* visited gets its settings; one that is marked as migrated is passed     *)
(* over, unless the commands of every guild are synchronised.              *)
Ensured(r, S) == [g \in Guild |-> IF g \in S THEN r[g] \cup {"settings"} ELSE r[g]]
ToSync(r, todo) == {g \in todo : dev \/ "migration" \notin r[g]}

Visit(t, todo, r) ==
  \/ \E g \in ToSync(r, todo), S \in SUBSET (todo \ ToSync(r, todo)) :
       /\ rows' = Ensured(r, S \cup {g})
       /\ task' = [task EXCEPT ![t] =
            [pc |-> "sync", guild |-> g, todo |-> todo \ (S \cup {g})]]
       /\ UNCHANGED synced
  \/ /\ ToSync(r, todo) = {}
     /\ rows' = Ensured(r, todo)
     /\ task' = [task EXCEPT ![t] = Idle]
     /\ synced' = TRUE

(* Variant: the health flag is set at the first ready event only.          *)
InfoArrivesOnce(t) ==
  /\ task[t].pc = "info"
  /\ health' = IF synced THEN health ELSE TRUE
  /\ IF synced THEN task' = [task EXCEPT ![t] = Idle] /\ UNCHANGED <<rows, synced>>
               ELSE Visit(t, cache, rows)
  /\ UNCHANGED <<discord, session, dev, restarts, joining, busy, clean>>

(* The data arrives: the bot counts as ready, whatever the gateway's state *)
(* is by now; the guilds are listed, if they were not synchronised before. *)
InfoArrives(t) ==
  /\ task[t].pc = "info"
  /\ health' = TRUE
  /\ IF synced THEN task' = [task EXCEPT ![t] = Idle] /\ UNCHANGED <<rows, synced>>
               ELSE Visit(t, cache, rows)
  /\ UNCHANGED <<discord, session, dev, restarts, joining, busy, clean>>

(* Discord takes the guild's new commands: none, or copies of the global   *)
(* ones.                                                                   *)
SyncApplied(t) ==
  LET g == task[t].guild
  IN /\ task[t].pc = "sync"
     /\ g \in member
     /\ copies' = IF dev THEN copies \cup {g} ELSE copies \ {g}
     /\ task' = [task EXCEPT ![t].pc = "applied"]
     /\ UNCHANGED <<member, session, health, process, joining, busy, rows, clean>>

(* Its answer arrives, and the migration is marked as done.                *)
SyncOk(t) ==
  LET g == task[t].guild
  IN /\ task[t].pc = "applied"
     /\ Visit(t, task[t].todo,
              IF dev THEN rows ELSE [rows EXCEPT ![g] = @ \cup {"migration"}])
     /\ UNCHANGED <<discord, session, health, dev, restarts, joining, busy, clean>>

Fails(t) ==
  \/ task[t].pc = "info" /\ "info" \in Faults
  \/ task[t].pc \in {"sync", "applied"} /\ "sync" \in Faults
  \/ task[t].pc = "sync" /\ task[t].guild \notin member

(* Variant: the mark is set before the request.                            *)
RequestFailsMarked(t) ==
  /\ Fails(t)
  /\ task' = [task EXCEPT ![t] = Idle]
  /\ rows' = [g \in Guild |-> IF g = task[t].guild THEN rows[g] \cup {"migration"}
                                                   ELSE rows[g]]
  /\ UNCHANGED <<discord, session, health, process, joining, busy, clean>>

(* A request fails, applied or not, as one for a guild that was left does: *)
(* the exception ends on_ready.                                            *)
RequestFails(t) ==
  /\ Fails(t)
  /\ task' = [task EXCEPT ![t] = Idle]
  /\ UNCHANGED <<discord, session, health, process, joining, busy, rows, clean>>

-----------------------------------------------------------------------------
(* A command of a guild or a new member of it: the handler answers or      *)
(* welcomes, which it awaits.  Several may be under way in one guild.      *)
HandlerBegins(g) ==
  /\ gateway = "up"
  /\ g \in cache \ busy
  /\ busy' = busy \cup {g}
  /\ UNCHANGED <<discord, session, health, process, task, joining, rows, clean>>

(* A poll reads the list of subscriptions; it sends to one guild after     *)
(* another, whatever becomes of the list, and counts each with a metric.   *)
PollBegins ==
  /\ gateway # "new"
  /\ \E S \in SUBSET {g \in Guild : "settings" \in rows[g]} : busy' = busy \cup S
  /\ UNCHANGED <<discord, session, health, process, task, joining, rows, clean>>

(* Behind an await a handler writes settings or subscriptions (a command), *)
(* a metric (all of them), or ends without either; it may be the last one  *)
(* of its guild.                                                           *)
HandlerWrites(g) ==
  /\ g \in busy
  /\ busy' \in {busy, busy \ {g}}
  /\ \E written \in SUBSET {"settings", "metrics"} :
       rows' = [rows EXCEPT ![g] = @ \cup written]
  /\ UNCHANGED <<discord, session, health, process, task, joining, clean>>

(* The process ends and starts again, in any of the modes.                 *)
Restart ==
  /\ restarts < MaxRestarts
  /\ restarts' = restarts + 1
  /\ gateway' = "new"
  /\ cache' = {}
  /\ missed' = {}
  /\ readyDue' = FALSE
  /\ health' = FALSE
  /\ synced' = FALSE
  /\ dev' \in Modes
  /\ task' = [t \in Ready |-> Idle]
  /\ joining' = {}
  /\ busy' = {}
  /\ UNCHANGED <<discord, rows, clean>>

-----------------------------------------------------------------------------
OnReady(t) ==
  \/ ReadyFires(t)
  \/ InfoArrives(t)
  \/ SyncApplied(t)
  \/ SyncOk(t)
  \/ RequestFails(t)

Next ==
  \/ Identify
  \/ Resume
  \/ Disconnect
  \/ \E g \in Guild : Join(g) \/ Leave(g) \/ JoinSyncEnds(g)
  \/ \E g \in Guild : HandlerBegins(g) \/ HandlerWrites(g)
  \/ PollBegins
  \/ \E t \in Ready : OnReady(t)
  \/ Restart

Spec == Init /\ [][Next]_vars

(* A lost connection is tried again until there is one, the ready event of *)
(* a session comes, and the requests of on_ready have timeouts.            *)
Fairness ==
  /\ WF_vars(Identify \/ Resume)
  /\ WF_vars(\E t \in Ready : ReadyFires(t))
  /\ \A t \in Ready :
       /\ WF_vars(InfoArrives(t) \/ (task[t].pc = "info" /\ RequestFails(t)))
       /\ WF_vars(SyncApplied(t) \/ SyncOk(t) \/ (task[t].pc # "info" /\ RequestFails(t)))

FairSpec == Spec /\ Fairness

-----------------------------------------------------------------------------
TaskType == [pc : {"idle", "info", "sync", "applied"},
             guild : Guild \cup {NoGuild}, todo : SUBSET Guild]

(* Every variable keeps its type (bot/main.py:28-30).                      *)
TypeOK ==
  /\ member \subseteq Guild
  /\ copies \subseteq Guild
  /\ gateway \in {"new", "up", "down"}
  /\ cache \subseteq Guild
  /\ missed \subseteq Guild
  /\ {readyDue, health, synced, dev} \subseteq BOOLEAN
  /\ task \in [Ready -> TaskType]
  /\ joining \cup busy \subseteq Guild
  /\ rows \in [Guild -> SUBSET Row]
  /\ restarts \in Nat
  /\ clean \subseteq Guild

(* A guild marked as migrated has no commands of its own at Discord,       *)
(* whatever requests failed, on_ready handlers overlapped, and guilds were *)
(* left and joined again (migrate_legacy_guild_commands): once it is       *)
(* marked, nobody would remove them any more.                              *)
MigratedUsesGlobal ==
  \A g \in Guild : "migration" \in rows[g] => g \notin copies

(* A guild that is left while the bot is connected leaves no row behind    *)
(* and gets none until it is joined again (on_guild_remove), provided that *)
(* nothing about it was under way: no command, setup prompt or welcome     *)
(* message, no poll with the guild in its list, no synchronisation.  With  *)
(* one of these it may get rows: RemovedMeansDeleted.                      *)
CleanlyForgotten == \A g \in clean : rows[g] = {}

(* After the ready event of a session the health endpoint shows the bot as *)
(* ready, or the connection breaks.  This excludes "info" \in Faults: an   *)
(* application_info that fails ends on_ready before it sets the flag, and  *)
(* nothing sets it before the next session.  Nor does it forbid the flag   *)
(* of a bot that is disconnected by the time the answer comes.             *)
ReadyShown == readyDue ~> health \/ gateway # "up"

(* "When the bot is removed from a server, its settings, subscriptions and *)
(* metrics are deleted" (docs/privacy.html:25); here the metrics, once     *)
(* nothing about the guild is under way any more.                          *)
RemovedMeansDeleted ==
  \A g \in Guild : gateway = "up" /\ g \notin member /\ ~Underway(g)
                     => "metrics" \notin rows[g]

(* The admin panel reads the flag as "connected" and its absence as        *)
(* "waiting for the connection" (scripts/admin_panel.html:141): a bot that *)
(* stays connected is shown so in the end.                                 *)
ConnectedMeansReady == <>[](gateway = "up") => <>[]health
=============================================================================
