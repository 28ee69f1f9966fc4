------------------------- MODULE BotLifecycleProofs -------------------------
(***************************************************************************)
(* Proofs about BotLifecycle: its type, that a guild left while nothing of *)
(* it was under way stays forgotten, and, for a bot that always uses the   *)
(* global commands, that a migrated guild has none of its own.             *)
(***************************************************************************)
EXTENDS BotLifecycle, TLAPS

(* What keeps a forgotten guild forgotten: the bot is not in it, no list   *)
(* of guilds holds it, and nothing of it is under way.                     *)
Forgotten ==
  \A g \in clean : /\ rows[g] = {}
                    /\ g \notin member \cup cache \cup missed
                    /\ ~Underway(g)

(* Nothing is missed while the gateway is up.                              *)
NoneMissed == gateway = "up" => missed = {}

IInv == TypeOK /\ NoneMissed /\ Forgotten

(* With global commands only: a guild whose synchronisation was applied    *)
(* and is not marked yet has no commands of its own either.                *)
GlobalInv ==
  /\ dev = FALSE
  /\ joining = {}
  /\ \A t \in Ready : task[t].pc = "applied" => task[t].guild \notin copies
  /\ MigratedUsesGlobal

-----------------------------------------------------------------------------
(* The synchronous part of the loop keeps the types and touches only       *)
(* guilds it was given.                                                    *)
LEMMA VisitType ==
  ASSUME TypeOK, NEW t \in Ready, NEW todo \in SUBSET Guild,
         NEW r \in [Guild -> SUBSET Row], Visit(t, todo, r)
  PROVE  /\ task' \in [Ready -> TaskType]
         /\ rows' \in [Guild -> SUBSET Row]
         /\ synced' \in BOOLEAN
         /\ \A u \in Ready \ {t} : task'[u] = task[u]
         /\ task'[t].guild \in todo \cup {NoGuild}
         /\ task'[t].todo \subseteq todo
         /\ task'[t].pc \in {"idle", "sync"}
         /\ \A g \in Guild : rows'[g] = r[g] \/ (g \in todo /\ rows'[g] = r[g] \cup {"settings"})
PROOF
<1>1. ASSUME NEW g \in ToSync(r, todo), NEW S \in SUBSET (todo \ ToSync(r, todo)),
             rows' = Ensured(r, S \cup {g}),
             task' = [task EXCEPT ![t] =
               [pc |-> "sync", guild |-> g, todo |-> todo \ (S \cup {g})]],
             UNCHANGED synced
      PROVE  /\ task' \in [Ready -> TaskType]
             /\ rows' \in [Guild -> SUBSET Row]
             /\ synced' \in BOOLEAN
             /\ \A u \in Ready \ {t} : task'[u] = task[u]
             /\ task'[t].guild \in todo \cup {NoGuild}
             /\ task'[t].todo \subseteq todo
             /\ task'[t].pc \in {"idle", "sync"}
             /\ \A h \in Guild : rows'[h] = r[h] \/ (h \in todo /\ rows'[h] = r[h] \cup {"settings"})
  <2>1. g \in todo /\ g \in Guild /\ S \subseteq todo
    BY <1>1 DEF ToSync
  <2>2. [pc |-> "sync", guild |-> g, todo |-> todo \ (S \cup {g})] \in TaskType
    BY <2>1 DEF TaskType
  <2>3. rows' \in [Guild -> SUBSET Row]
    BY <1>1 DEF Ensured, Row
  <2>4. \A h \in Guild : rows'[h] = r[h] \/ (h \in todo /\ rows'[h] = r[h] \cup {"settings"})
    BY <1>1, <2>1 DEF Ensured
  <2> QED BY <1>1, <2>1, <2>2, <2>3, <2>4 DEF TypeOK
<1>2. ASSUME rows' = Ensured(r, todo), task' = [task EXCEPT ![t] = Idle], synced' = TRUE
      PROVE  /\ task' \in [Ready -> TaskType]
             /\ rows' \in [Guild -> SUBSET Row]
             /\ synced' \in BOOLEAN
             /\ \A u \in Ready \ {t} : task'[u] = task[u]
             /\ task'[t].guild \in todo \cup {NoGuild}
             /\ task'[t].todo \subseteq todo
             /\ task'[t].pc \in {"idle", "sync"}
             /\ \A h \in Guild : rows'[h] = r[h] \/ (h \in todo /\ rows'[h] = r[h] \cup {"settings"})
  <2>1. Idle \in TaskType
    BY DEF Idle, TaskType
  <2>2. rows' \in [Guild -> SUBSET Row]
    BY <1>2 DEF Ensured, Row
  <2> QED BY <1>2, <2>1, <2>2 DEF TypeOK, Ensured, Idle
<1> QED BY <1>1, <1>2 DEF Visit

-----------------------------------------------------------------------------
LEMMA InitType == Init => TypeOK
PROOF
<1> SUFFICES ASSUME Init PROVE TypeOK
  OBVIOUS
<1>1. Idle \in TaskType
  BY DEF Idle, TaskType
<1>2. {readyDue, health, synced, dev} \subseteq BOOLEAN
  BY ModeAssumption DEF Init
<1>3. task \in [Ready -> TaskType]
  BY <1>1 DEF Init
<1>4. rows \in [Guild -> SUBSET Row]
  BY DEF Init
<1> QED BY <1>2, <1>3, <1>4 DEF Init, TypeOK

(* Every step keeps the types.                                             *)
LEMMA TypeStep == TypeOK /\ [Next]_vars => TypeOK'
PROOF
<1> SUFFICES ASSUME TypeOK, [Next]_vars PROVE TypeOK'
  OBVIOUS
<1> USE DEF discord, session, process
<1>1. CASE Identify
  BY <1>1 DEF TypeOK, Identify
<1>2. CASE Resume
  <2>1. busy' \subseteq Guild
    BY <1>2 DEF TypeOK, Resume, Prompted
  <2>2. rows' \in [Guild -> SUBSET Row]
    BY <1>2 DEF TypeOK, Resume, Joined, Row
  <2> QED BY <1>2, <2>1, <2>2 DEF TypeOK, Resume
<1>3. CASE Disconnect
  BY <1>3 DEF TypeOK, Disconnect
<1>4. ASSUME NEW g \in Guild, Join(g) PROVE TypeOK'
  <2>1. busy' \subseteq Guild
    BY <1>4 DEF TypeOK, Join, Prompted
  <2> QED BY <1>4, <2>1 DEF TypeOK, Join, Joined, Row
<1>5. ASSUME NEW g \in Guild, Leave(g) PROVE TypeOK'
  BY <1>5 DEF TypeOK, Leave
<1>6. ASSUME NEW g \in Guild, JoinSyncEnds(g) PROVE TypeOK'
  BY <1>6 DEF TypeOK, JoinSyncEnds
<1>7. ASSUME NEW g \in Guild, HandlerBegins(g) PROVE TypeOK'
  BY <1>7 DEF TypeOK, HandlerBegins
<1>8. ASSUME NEW g \in Guild, HandlerWrites(g) PROVE TypeOK'
  BY <1>8 DEF TypeOK, HandlerWrites, Row
<1>9. CASE PollBegins
  BY <1>9 DEF TypeOK, PollBegins
<1>10. ASSUME NEW t \in Ready, OnReady(t) PROVE TypeOK'
  <2>1. CASE ReadyFires(t)
    BY <2>1 DEF TypeOK, ReadyFires, TaskType
  <2>2. CASE InfoArrives(t)
    <3>1. CASE synced
      <4>1. Idle \in TaskType
        BY DEF Idle, TaskType
      <4> QED BY <2>2, <3>1, <4>1 DEF TypeOK, InfoArrives
    <3>2. CASE ~synced
      <4>1. Visit(t, cache, rows)
        BY <2>2, <3>2 DEF InfoArrives
      <4>2. /\ task' \in [Ready -> TaskType]
            /\ rows' \in [Guild -> SUBSET Row]
            /\ synced' \in BOOLEAN
        BY <4>1, VisitType DEF TypeOK
      <4> QED BY <2>2, <4>2 DEF TypeOK, InfoArrives
    <3> QED BY <3>1, <3>2
  <2>3. CASE SyncApplied(t)
    <3>1. task[t].guild \in Guild
      BY <2>3 DEF SyncApplied, TypeOK
    <3> QED BY <2>3, <3>1 DEF TypeOK, SyncApplied, TaskType
  <2>4. CASE SyncOk(t)
    <3> DEFINE r == IF dev THEN rows
                    ELSE [rows EXCEPT ![task[t].guild] = @ \cup {"migration"}]
    <3>1. r \in [Guild -> SUBSET Row]
      BY DEF TypeOK, Row
    <3>2. task[t].todo \in SUBSET Guild
      BY DEF TypeOK, TaskType
    <3>3. Visit(t, task[t].todo, r)
      BY <2>4 DEF SyncOk
    <3> HIDE DEF r
    <3>4. /\ task' \in [Ready -> TaskType]
          /\ rows' \in [Guild -> SUBSET Row]
          /\ synced' \in BOOLEAN
      BY <3>1, <3>2, <3>3, VisitType
    <3> QED BY <2>4, <3>4 DEF TypeOK, SyncOk
  <2>5. CASE RequestFails(t)
    <3>1. Idle \in TaskType
      BY DEF Idle, TaskType
    <3> QED BY <2>5, <3>1 DEF TypeOK, RequestFails
  <2> QED BY <1>10, <2>1, <2>2, <2>3, <2>4, <2>5 DEF OnReady
<1>11. CASE Restart
  <2>1. Idle \in TaskType
    BY DEF Idle, TaskType
  <2>2. {readyDue, health, synced, dev}' \subseteq BOOLEAN
    BY <1>11, ModeAssumption DEF Restart
  <2>3. task' \in [Ready -> TaskType]
    BY <1>11, <2>1 DEF Restart
  <2> QED BY <1>11, <2>2, <2>3 DEF TypeOK, Restart
<1>12. CASE UNCHANGED vars
  BY <1>12 DEF TypeOK, vars
<1> QED BY <1>1, <1>2, <1>3, <1>4, <1>5, <1>6, <1>7, <1>8, <1>9, <1>10, <1>11, <1>12 DEF Next

-----------------------------------------------------------------------------
(* A handler's step from rows r keeps the forgotten guilds as they are.    *)
LEMMA VisitForgets ==
  ASSUME TypeOK, Forgotten, NEW t \in Ready, NEW todo \in SUBSET Guild,
         NEW r \in [Guild -> SUBSET Row], Visit(t, todo, r),
         \A g \in clean : g \notin todo /\ r[g] = {},
         UNCHANGED <<member, cache, missed, busy, clean>>
  PROVE  Forgotten'
PROOF
<1> SUFFICES ASSUME NEW g \in clean
             PROVE  /\ rows'[g] = {}
                    /\ g \notin member \cup cache \cup missed
                    /\ ~Underway(g)'
  BY DEF Forgotten
<1>1. g \in Guild
  BY DEF TypeOK
<1>2. g # NoGuild
  BY <1>1, GuildAssumption
<1>3. rows'[g] = {}
  BY <1>1, VisitType
<1>4. g \notin busy /\ \A u \in Ready : g # task[u].guild /\ g \notin task[u].todo
  BY DEF Forgotten, Underway
<1>5. g # task'[t].guild /\ g \notin task'[t].todo
  BY <1>2, VisitType
<1>6. \A u \in Ready \ {t} : task'[u] = task[u]
  BY VisitType
<1>7. ~Underway(g)'
  BY <1>4, <1>5, <1>6 DEF Underway
<1> QED BY <1>3, <1>7 DEF Forgotten

LEMMA MissedStep == NoneMissed /\ [Next]_vars => NoneMissed'
PROOF
<1> SUFFICES ASSUME NoneMissed, [Next]_vars PROVE NoneMissed'
  OBVIOUS
<1> USE DEF NoneMissed, discord, session, process
<1>1. CASE Identify \/ Resume \/ Disconnect \/ Restart
  BY <1>1 DEF Identify, Resume, Disconnect, Restart
<1>2. ASSUME NEW g \in Guild, Join(g) \/ Leave(g) \/ JoinSyncEnds(g) PROVE NoneMissed'
  BY <1>2 DEF Join, Leave, JoinSyncEnds
<1>3. ASSUME NEW g \in Guild, HandlerBegins(g) \/ HandlerWrites(g) PROVE NoneMissed'
  BY <1>3 DEF HandlerBegins, HandlerWrites
<1>4. CASE PollBegins
  BY <1>4 DEF PollBegins
<1>5. ASSUME NEW t \in Ready, OnReady(t) PROVE NoneMissed'
  BY <1>5 DEF OnReady, ReadyFires, InfoArrives, SyncApplied, SyncOk, RequestFails
<1>6. CASE UNCHANGED vars
  BY <1>6 DEF vars
<1> QED BY <1>1, <1>2, <1>3, <1>4, <1>5, <1>6 DEF Next

(* Every step keeps the forgotten guilds forgotten.                        *)
LEMMA ForgottenStep == IInv /\ [Next]_vars => Forgotten'
PROOF
<1> SUFFICES ASSUME TypeOK, NoneMissed, Forgotten, [Next]_vars PROVE Forgotten'
  BY DEF IInv
<1> USE DEF discord, session, process
<1>1. CASE Identify
  BY <1>1 DEF Forgotten, Underway, Identify
<1>2. CASE Resume
  <2> SUFFICES ASSUME NEW g \in clean
               PROVE  /\ rows'[g] = {}
                      /\ g \notin member' \cup cache' \cup missed'
                      /\ ~Underway(g)'
    BY <1>2 DEF Resume, Forgotten
  <2>1. rows[g] = {} /\ g \notin member \cup missed /\ ~Underway(g) /\ g \in Guild
    BY DEF Forgotten, TypeOK
  <2>2. rows'[g] = {}
    BY <1>2, <2>1 DEF Resume, TypeOK
  <2>3. g \notin busy'
    BY <1>2, <2>1 DEF Resume, Prompted, Underway
  <2> QED BY <1>2, <2>1, <2>2, <2>3 DEF Resume, Underway
<1>3. CASE Disconnect
  BY <1>3 DEF Forgotten, Underway, Disconnect
<1>4. ASSUME NEW g \in Guild, Join(g) PROVE Forgotten'
  BY <1>4 DEF Forgotten, Underway, Join, Prompted, TypeOK
<1>5. ASSUME NEW g \in Guild, Leave(g) PROVE Forgotten'
  BY <1>5 DEF Forgotten, NoneMissed, Underway, Leave, TypeOK
<1>6. ASSUME NEW g \in Guild, JoinSyncEnds(g) PROVE Forgotten'
  BY <1>6 DEF Forgotten, Underway, JoinSyncEnds
<1>7. ASSUME NEW g \in Guild, HandlerBegins(g) PROVE Forgotten'
  BY <1>7 DEF Forgotten, Underway, HandlerBegins
<1>8. ASSUME NEW g \in Guild, HandlerWrites(g) PROVE Forgotten'
  BY <1>8 DEF Forgotten, Underway, HandlerWrites, TypeOK
<1>9. CASE PollBegins
  BY <1>9 DEF Forgotten, Underway, PollBegins
<1>10. ASSUME NEW t \in Ready, OnReady(t) PROVE Forgotten'
  <2>1. CASE ReadyFires(t)
    BY <2>1 DEF Forgotten, Underway, ReadyFires, TypeOK, TaskType
  <2>2. CASE InfoArrives(t)
    <3>1. CASE synced
      BY <2>2, <3>1, GuildAssumption DEF InfoArrives, Forgotten, Underway, Idle, TypeOK
    <3>2. CASE ~synced
      <4>1. Visit(t, cache, rows) /\ UNCHANGED <<member, cache, missed, busy, clean>>
        BY <2>2, <3>2 DEF InfoArrives
      <4>2. \A g \in clean : g \notin cache /\ rows[g] = {}
        BY DEF Forgotten
      <4> QED BY <4>1, <4>2, VisitForgets DEF TypeOK
    <3> QED BY <3>1, <3>2
  <2>3. CASE SyncApplied(t)
    BY <2>3 DEF Forgotten, Underway, SyncApplied, TypeOK, TaskType
  <2>4. CASE SyncOk(t)
    <3> DEFINE r == IF dev THEN rows
                    ELSE [rows EXCEPT ![task[t].guild] = @ \cup {"migration"}]
    <3>1. r \in [Guild -> SUBSET Row]
      BY DEF TypeOK, Row
    <3>2. task[t].todo \in SUBSET Guild
      BY DEF TypeOK, TaskType
    <3>3. Visit(t, task[t].todo, r) /\ UNCHANGED <<member, cache, missed, busy, clean>>
      BY <2>4 DEF SyncOk
    <3>4. \A g \in clean : g \notin task[t].todo /\ r[g] = {}
      BY DEF Forgotten, Underway, TypeOK
    <3> HIDE DEF r
    <3> QED BY <3>1, <3>2, <3>3, <3>4, VisitForgets
  <2>5. CASE RequestFails(t)
    BY <2>5, GuildAssumption DEF Forgotten, Underway, RequestFails, Idle, TypeOK
  <2> QED BY <1>10, <2>1, <2>2, <2>3, <2>4, <2>5 DEF OnReady
<1>11. CASE Restart
  BY <1>11, GuildAssumption DEF Forgotten, Underway, Restart, Idle, TypeOK
<1>12. CASE UNCHANGED vars
  BY <1>12 DEF Forgotten, Underway, vars
<1> QED BY <1>1, <1>2, <1>3, <1>4, <1>5, <1>6, <1>7, <1>8, <1>9, <1>10, <1>11, <1>12 DEF Next

-----------------------------------------------------------------------------
(* The strengthened invariant holds always.                                *)
THEOREM Invariance == Spec => []IInv
PROOF
<1>1. Init => IInv
  BY InitType DEF Init, IInv, NoneMissed, Forgotten
<1>2. IInv /\ [Next]_vars => IInv'
  BY TypeStep, MissedStep, ForgottenStep DEF IInv
<1> QED BY <1>1, <1>2, PTL DEF Spec

(* Every variable keeps its type.                                          *)
THEOREM TypeCorrect == Spec => []TypeOK
PROOF
<1>1. IInv => TypeOK
  BY DEF IInv
<1> QED BY <1>1, Invariance, PTL

(* A guild left while the bot is connected and nothing about it is under   *)
(* way, be it a command, a prompt, a welcome message, a poll or a          *)
(* synchronisation, leaves no row behind and gets none until it is joined  *)
(* again (on_guild_remove).                                                *)
THEOREM ForgottenForGood == Spec => []CleanlyForgotten
PROOF
<1>1. IInv => CleanlyForgotten
  BY DEF IInv, Forgotten, CleanlyForgotten
<1> QED BY <1>1, Invariance, PTL

-----------------------------------------------------------------------------
(* A handler's step from rows r whose marked guilds have no commands of    *)
(* their own: the loop marks none.                                         *)
LEMMA VisitGlobal ==
  ASSUME TypeOK, GlobalInv, NEW t \in Ready, NEW todo \in SUBSET Guild,
         NEW r \in [Guild -> SUBSET Row], Visit(t, todo, r),
         \A g \in Guild : "migration" \in r[g] => g \notin copies,
         UNCHANGED <<copies, dev, joining>>
  PROVE  GlobalInv'
PROOF
<1>1. \A g \in Guild : "migration" \in rows'[g] => g \notin copies
  BY VisitType
<1>2. \A u \in Ready : task'[u].pc = "applied" => task'[u].guild \notin copies
  <2> SUFFICES ASSUME NEW u \in Ready, task'[u].pc = "applied"
               PROVE  task'[u].guild \notin copies
    OBVIOUS
  <2>1. u # t
    BY VisitType
  <2>2. task'[u] = task[u]
    BY <2>1, VisitType
  <2> QED BY <2>2 DEF GlobalInv
<1> QED BY <1>1, <1>2 DEF GlobalInv, MigratedUsesGlobal

(* In global mode every step keeps GlobalInv: nothing makes copies, and    *)
(* what marks a guild has removed its copies before.                       *)
LEMMA GlobalStep ==
  ASSUME Modes = {FALSE}
  PROVE  TypeOK /\ GlobalInv /\ [Next]_vars => GlobalInv'
PROOF
<1> SUFFICES ASSUME TypeOK, GlobalInv, [Next]_vars PROVE GlobalInv'
  OBVIOUS
<1> USE DEF discord, session, process
<1>1. CASE Identify
  BY <1>1 DEF GlobalInv, MigratedUsesGlobal, Identify
<1>2. CASE Resume
  <2>1. \A g \in Guild : "migration" \in rows'[g] => "migration" \in rows[g]
    BY <1>2 DEF Resume, Joined, TypeOK
  <2>2. UNCHANGED <<copies, dev, task, joining>>
    BY <1>2 DEF Resume, GlobalInv
  <2> QED BY <2>1, <2>2 DEF GlobalInv, MigratedUsesGlobal
<1>3. CASE Disconnect
  BY <1>3 DEF GlobalInv, MigratedUsesGlobal, Disconnect
<1>4. ASSUME NEW g \in Guild, Join(g) PROVE GlobalInv'
  <2>1. \A h \in Guild : "migration" \in rows'[h] => "migration" \in rows[h]
    BY <1>4 DEF Join, Joined, TypeOK
  <2>2. UNCHANGED <<copies, dev, task, joining>>
    BY <1>4 DEF Join, GlobalInv
  <2> QED BY <2>1, <2>2 DEF GlobalInv, MigratedUsesGlobal
<1>5. ASSUME NEW g \in Guild, Leave(g) PROVE GlobalInv'
  <2>1. \A h \in Guild : "migration" \in rows'[h] => "migration" \in rows[h]
    BY <1>5 DEF Leave, TypeOK
  <2>2. copies' \subseteq copies /\ UNCHANGED <<dev, task, joining>>
    BY <1>5 DEF Leave
  <2> QED BY <2>1, <2>2 DEF GlobalInv, MigratedUsesGlobal
<1>6. ASSUME NEW g \in Guild, JoinSyncEnds(g) PROVE GlobalInv'
  BY <1>6 DEF GlobalInv, JoinSyncEnds
<1>7. ASSUME NEW g \in Guild, HandlerBegins(g) PROVE GlobalInv'
  BY <1>7 DEF GlobalInv, MigratedUsesGlobal, HandlerBegins
<1>8. ASSUME NEW g \in Guild, HandlerWrites(g) PROVE GlobalInv'
  <2>1. \A h \in Guild : "migration" \in rows'[h] => "migration" \in rows[h]
    BY <1>8 DEF HandlerWrites, TypeOK
  <2>2. UNCHANGED <<copies, dev, task, joining>>
    BY <1>8 DEF HandlerWrites
  <2> QED BY <2>1, <2>2 DEF GlobalInv, MigratedUsesGlobal
<1>9. CASE PollBegins
  BY <1>9 DEF GlobalInv, MigratedUsesGlobal, PollBegins
<1>10. ASSUME NEW t \in Ready, OnReady(t) PROVE GlobalInv'
  <2>1. CASE ReadyFires(t)
    BY <2>1 DEF GlobalInv, MigratedUsesGlobal, ReadyFires, TypeOK, TaskType
  <2>2. CASE InfoArrives(t)
    <3>1. CASE synced
      BY <2>2, <3>1 DEF InfoArrives, GlobalInv, MigratedUsesGlobal, Idle, TypeOK
    <3>2. CASE ~synced
      <4>1. Visit(t, cache, rows) /\ UNCHANGED <<copies, dev, joining>>
        BY <2>2, <3>2 DEF InfoArrives
      <4> QED BY <4>1, VisitGlobal DEF TypeOK, GlobalInv, MigratedUsesGlobal
    <3> QED BY <3>1, <3>2
  <2>3. CASE SyncApplied(t)
    <3>1. copies' = copies \ {task[t].guild} /\ UNCHANGED <<rows, dev, joining>>
      BY <2>3 DEF SyncApplied, GlobalInv
    <3>2. \A u \in Ready : task'[u].guild = task[u].guild
      BY <2>3 DEF SyncApplied, TypeOK, TaskType
    <3>3. \A u \in Ready \ {t} : task'[u].pc = task[u].pc
      BY <2>3 DEF SyncApplied, TypeOK, TaskType
    <3> QED BY <3>1, <3>2, <3>3 DEF GlobalInv, MigratedUsesGlobal
  <2>4. CASE SyncOk(t)
    <3> DEFINE r == IF dev THEN rows
                    ELSE [rows EXCEPT ![task[t].guild] = @ \cup {"migration"}]
    <3>1. r \in [Guild -> SUBSET Row]
      BY DEF TypeOK, Row
    <3>2. task[t].todo \in SUBSET Guild
      BY DEF TypeOK, TaskType
    <3>3. Visit(t, task[t].todo, r) /\ UNCHANGED <<copies, dev, joining>>
      BY <2>4 DEF SyncOk
    <3>4. task[t].guild \notin copies
      BY <2>4 DEF SyncOk, GlobalInv
    <3>5. \A g \in Guild : "migration" \in r[g] => g \notin copies
      BY <3>4 DEF GlobalInv, MigratedUsesGlobal, TypeOK
    <3> HIDE DEF r
    <3> QED BY <3>1, <3>2, <3>3, <3>5, VisitGlobal
  <2>5. CASE RequestFails(t)
    BY <2>5 DEF GlobalInv, MigratedUsesGlobal, RequestFails, Idle, TypeOK
  <2> QED BY <1>10, <2>1, <2>2, <2>3, <2>4, <2>5 DEF OnReady
<1>11. CASE Restart
  <2>1. dev' = FALSE /\ joining' = {} /\ UNCHANGED <<copies, rows>>
    BY <1>11 DEF Restart
  <2>2. \A u \in Ready : task'[u].pc # "applied"
    BY <1>11 DEF Restart, Idle
  <2> QED BY <2>1, <2>2 DEF GlobalInv, MigratedUsesGlobal
<1>12. CASE UNCHANGED vars
  BY <1>12 DEF GlobalInv, MigratedUsesGlobal, vars
<1> QED BY <1>1, <1>2, <1>3, <1>4, <1>5, <1>6, <1>7, <1>8, <1>9, <1>10, <1>11, <1>12 DEF Next

(* A bot that is always started with global commands leaves no guild that  *)
(* it marked as migrated with commands of its own                          *)
(* (migrate_legacy_guild_commands).                                        *)
THEOREM MigrationSound ==
  ASSUME Modes = {FALSE}
  PROVE  Spec => []MigratedUsesGlobal
PROOF
<1>1. Init => GlobalInv
  BY DEF Init, GlobalInv, MigratedUsesGlobal, Idle
<1>2. TypeOK /\ GlobalInv /\ [Next]_vars => GlobalInv'
  BY GlobalStep
<1>3. GlobalInv => MigratedUsesGlobal
  BY DEF GlobalInv
<1> QED BY <1>1, <1>2, <1>3, TypeCorrect, PTL DEF Spec

=============================================================================
