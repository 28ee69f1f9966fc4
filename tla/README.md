# TLA+ verification of yeonsam_bot

yeonsam_bot is a Discord bot (Python, discord.py) with a local launcher for
Windows and a static site. This directory holds TLA+ models of its parts that
have state and concurrency, the TLC configurations that check them, and TLAPS
proofs of what matters most. Paths below are relative to the repository.

## 1. Inventory

| component | state | operations | hard behaviour |
| --- | --- | --- | --- |
| **Free-game alerts** `bot/cogs/free_game_alerts.py` | table `free_game_alerts` (guild to channel), `_last_digest_by_guild`, `_poll_lock`, the task of `free_game_poll_loop` | periodic poll, `configure_alert` (stores the row and forces a poll), `remove_alert`, `alert_status`, `list_current_offers` | several tasks interleave at each await; a poll uses a list read earlier; refusals and broken connections in the middle of a list; restarts |
| **Steam popular chart** `bot/utils/steam_popular.py`, `bot/cogs/steam_popular.py` | `_snapshot`, `_snapshot_cached_at`, `_retry_after`, `_lock`, `_metadata_cache` and its semaphore | `get_snapshot`, `_refresh_snapshot`, `_get_app_metadata` | single flight; check, wait, check again; cooldown and stale answers; failures of any kind |
| **Local launcher** `scripts/local_launcher.py` | the bot's process, its log handle, last exit code and error, an RLock; one thread per HTTP request | `start`, `stop`, `restart`, `status`, `shutdown` | threads overlap; `stop` waits without the lock; a process ends at any time; shutdown races requests |
| **SQLite storage** `bot/utils/storage.py` | tables of settings, metrics, subscriptions, alerts, `runtime_state`; `_INITIALIZED` | upserts, reads, `delete_guild_data`, one-time migration of the legacy JSON | crash and unreadable file around the migration; a failing write escapes into the callers |
| **Bot lifecycle** `bot/main.py` | `HEALTH_STATE`, `initial_guild_sync_done`, command tree | `on_ready`, `on_disconnect`, guild events, command sync, health server | order of gateway events, awaits inside handlers, partial synchronisation |
| **Guild settings, welcome** `bot/cogs/settings.py`, `yeonsam.py` (`EditMessageModal`), `welcome.py`, `utils/profile.py` | `guild_settings` rows; texts held by open forms | two forms for message and link, channel select, welcome message, nickname change | forms open together; a save in two transactions; missing channels and rights |
| **Game guides** `bot/cogs/yeonsam.py`, `utils/game_content.py` | pages and selections of `GameBrowserView` | search, browse, random pick | scoring, paging boundaries, Discord's limits |
| **Free-game feed** `bot/utils/free_game_feed.py` | none | fetch, normalise, digest | pure algorithm over foreign data |
| **Patch alerts** `bot/cogs/patch_alerts.py` | in the package `steam_discord_patch_alerts` | thin adapter | the package is not in the repository |
| **Project-docs publication** `.github/project-docs/*.mjs`, `.github/workflows/project-docs-notion.yml` | pages at Notion, `alreadyCurrent`, attempts | validate, preflight, replace, report | retries of writes that may have been performed or still will be; killed jobs; runs started again |
| **Static site** `docs/`, `scripts/sync_game_fallbacks.py`, `build-site-config.py` | none | render, generate files | none for a state machine |
| **Vendored libraries** `.bot_deps`, `.bot_runtime_deps` | | | third-party |

How they interact: `bot/main.py` loads the cogs on one asyncio event loop and
forwards guild events to the storage; every cog reads and writes the one SQLite
file through `utils/storage.py` (synchronous calls, so a row operation is never
interleaved with another task); the feeds run in worker threads
(`asyncio.to_thread`) and come back as results of an await; the launcher runs the
bot as a child process and polls its health endpoint over HTTP.

What makes each component correct is listed, hazard by hazard with the line where
it bites, in `PROJECT.json` ("hazards").

## 2. Modules and plan

| module | models |
| --- | --- |
| `FreeGameAlerts`, `MCFreeGameAlerts` | the alert cog with its rows and the guild events |
| `AlertLedger` | what it promises: one courier; `FreeGameAlerts` implements it (`OneCourier`) |
| `FreeGameAlertsProofs`, `FreeGameAlertsLedgerProofs` | five theorems about it, and the refinement |
| `SteamPopular`, `MCSteamPopular`, `SteamPopularProofs` | `get_snapshot` under many commands; seven theorems |
| `SteamMetadata`, `MCSteamMetadata`, `SteamMetadataProofs` | the refresh with its requests, cache and semaphore; it extends `SteamPopular` and implements it (`ServesChart`); nine theorems |
| `BotSupervisor`, `MCBotSupervisor`, `BotSupervisorProofs` | the launcher's supervisor and its threads; four theorems |
| `BotLifecycle`, `MCBotLifecycle`, `BotLifecycleProofs` | ready, disconnect, resume, command synchronisation, health flag, a guild's rows; three theorems |
| `GuildSettings`, `MCGuildSettings`, `GuildSettingsProofs` | start and legacy migration, the rows of `guild_settings`, the forms that change them; five theorems |
| `NotionSync`, `MCNotionSync`, `NotionSyncProofs` | publication of the project docs; three theorems |

Order followed: the components with interleavings and failures first, then the
abstract specifications, then persistence and publication. What could still be
added: `BotLifecycle` and `BotSupervisor` composed, for what the admin panel shows
of a bot that is stopped and started; the search of guides and the filter of
offers as pure algorithms (section 6 says why they came last).

## 3. What is modelled

### FreeGameAlerts

State: `alerts` is the table; `lastDigest` is `_last_digest_by_guild`; `pollLock`
is the asyncio.Lock as the sequence of its holder and its FIFO waiters; `task`
holds, for the loop and for every running command, its await point and locals
(what is left of its subscription list, the guild it is sending to, the digest it
fetched, the messages already accepted); `members`, `channels` and `feed` are the
world; `posted` and `owed` are history that only properties read.

Steps: the event loop runs one task until it awaits, so what the code does
between two awaits is one action. `Advance` is the synchronous part of the
`for subscription` loop from one await to the next: it skips guilds whose digest
is unchanged (unless forced), passes over missing channels, and either starts the
next send or leaves the poll.

| action | code |
| --- | --- |
| `LoopTick`, `LoopTickFails` | `free_game_poll_loop` reads the list and queues for the lock |
| `ConfigureBegin`, `ConfigureStore`, `ConfigureFails` | `configure_alert` to its defer; the row, then the queue; the errors |
| `Acquire`, `FetchOk`, `FetchFails` | the lock, the end of the fetch |
| `SendMore`, `SendLast`, `SendRefused`, `SendBroken` | the end of one `destination.send` |
| `RemoveAlert` | `remove_alert` |
| `GuildRemove`, `GuildJoin`, `ChannelDelete`, `FeedChange`, `Restart` | events from outside |

Faults are a constant, so that a run names those it needs: `fetch` (the feed
raises), `http` (discord.HTTPException: caught by the poll), `transport`
(OSError and its kin: escape from the poll; `discord.ext.tasks` tries again),
`storage` (sqlite3.Error, from a metric too: ends the loop for good). A request
that fails may still have reached Discord (`PostOrNot`).

Abstractions: a list of offers is a digest with a number of messages, one value
standing for the offers and their hash; the value of the feed is read when the
fetch ends; metrics are write-only and appear only as a place where a fault can
escape; permissions are checked by `Reachable`. A deleted channel does not come
back (Discord never reuses ids). `GuildRemove` is discord.py's cache and the
handler in one step, for the handler has no await.

### AlertLedger

The alerts as a subscriber sees them: rows, messages in the inbox, the list each
guild is known to have, and one `courier`, who carries the list that the provider
showed when he set out. `SetOut` begins a delivery, `Deliver` brings a message (the
last one makes the list `remembered`), `Fail` gives the guild up, `MoveOn` goes to
a later guild that does not remember the list. In `FreeGameAlerts` the courier is
the head of `pollLock` while it sends (`Courier`), and `INSTANCE AlertLedger WITH`
maps the rest by name. The refinement says in one formula what the lock, the
digests, the lists read beforehand and `force` are for.

### SteamPopular

`snapshot` is the time at which Steam sent the published chart, which is enough
to say how old a chart is and which of two is newer. `lock` is as above, `client`
what each command is doing and what it was answered; time is an integer that may
advance anywhere. `Served` holds the three checks in the order of the code;
`Ask` makes them before the lock, `Resume` after it. The metadata requests lie
between `ChartArrives` and `Publish`; they never fail a refresh with a
SteamPopularError, and what they fetch is left out. `RefreshBreaks` is every
other exception.

### SteamMetadata

It extends `SteamPopular`: `ChartParsed` is `ChartArrives` with the chart that
`parse_chart_payload` makes of Steam's list and with the start of
`asyncio.gather`. `ParseChart` says of a list what its loop keeps, without
looping: an item that is valid and clashes with no kept one before it
(`FirstMet`), in the order of the ranks and cut to the limit (`ByRank`); the MC
module holds the loop and the sort as the code has them and compares the two on
every list of up to four items (`ParseIsLoop`). `GamesPublished` is `Publish` with the games
collected. `asking` and `queue` are the requests with a slot of the semaphore and
those that wait, `metadata` is `_metadata_cache` reduced to the dates of its
entries; a game's metadata is known by that date, None standing for the placeholder.
`JobOk`, `JobMisses`, `JobBreaks` are the three ways `_get_app_metadata` ends.
`GatherBreaks` is an exception that is no SteamPopularError: the refresh ends, its
other requests lose their gather (`for` becomes None) but go on. That includes the
worker threads: `asyncio.to_thread` cannot be cancelled and nothing tries.

### BotSupervisor

`bot` is the state of each process ever started (unborn, running, told to end,
killed, or ended as done, failed or stopped), `sup` the supervisor's fields,
`thread` where each thread is. What a thread does in one hold of the RLock is one
step, except that `start` keeps it while dependencies are checked and installed
(`installing`, with `lock` set). `Stop`, `Kill`, `GiveUp`, `Stopped` are the
stages of `stop`; the waits hold no lock. `Close` is the end of `serve_forever`:
the handler threads are daemons and go on until `Exit`. Not modelled: the wording
kept in `runtime_message`, Ctrl-C before `serve_forever`, the HTTP layer, and an
exception that escapes from the `start` at boot (the log directory cannot be made):
it would end the launcher, where the model goes on to serve, without a bot in
either case.

### BotLifecycle

`member` and `copies` are what Discord knows: the bot's guilds, and those with
commands of their own beside the global ones. `cache` is `bot.guilds`, `health` is
`HEALTH_STATE["ready"]`, `synced` is `initial_guild_sync_done`, `dev` is what
`guild_sync_enabled` says (the environment is read at each use and does not change
while the process runs), `rows` is what the database holds of each guild: its
settings (which stands for its rows in `guild_settings`, `free_game_alerts` and
`patch_subscriptions`), its metrics, the mark `global_command_migration`. `missed`
has the guilds left while the connection was down. `task` holds the `on_ready`
handlers, which overlap when sessions follow each other quickly, each with its
await point, the guild it synchronises and those left of its list; `joining` the
`on_guild_join` handlers that wait for a synchronisation; `clean` is history.
`busy` has the guilds that a handler awaits something for, behind which it may
write rows: a command, the set-up prompt that the second `on_guild_join` sends
(`bot/cogs/settings.py`), the welcome message of a new member
(`bot/cogs/welcome.py`), a poll with the guild in its list (of free games, or of
the external patch-alert package, which records its metrics through the bot). How
many handlers a guild has there does not matter to the rows, so that `busy` is a
set.

| action | code |
| --- | --- |
| `Identify`, `Resume`, `Disconnect` | the gateway; `on_disconnect`; a resumed session tells the joins and removals that were missed, those of guilds joined and left meanwhile too; a new one does not |
| `Join`, `JoinSyncEnds`, `Leave` | the two `on_guild_join` to their awaits (`Joined`, `Prompted`), and the synchronisation's end; `on_guild_remove` |
| `ReadyFires`, `InfoArrives` | `on_ready` to its first await; the flag, and the loop to its next one |
| `SyncApplied`, `SyncOk`, `RequestFails` | Discord takes a guild's commands, the answer arrives, or the exception ends the handler |
| `HandlerBegins`, `PollBegins` | a command or a welcome message in one guild; a poll with its list of guilds, each to its await |
| `HandlerWrites` | what comes behind an await: the rows of a command, the metric of any of these, or nothing |
| `Restart` | the process starts again, in any mode |

`Visit` is the loop of `on_ready` from one await to the next: guilds already
marked are passed over without one. A request may fail though Discord applied
it. What is taken as given of Discord: a guild that removes the bot loses the
bot's own commands there; a new session lists the guilds; a ready event follows
each new session, and only a new one; interactions and member events come only
for guilds the bot is in and while it is connected. `Faults` names the requests
of `on_ready` that may fail: `info` (`application_info`), `sync` (a guild's
commands). The wait of discord.py for guilds before
that event is the time `readyDue` stays set. Overlapping `on_guild_join` handlers
of one guild count as one. Storage faults are left out here (see
`FreeGameAlerts`); the import of the legacy JSON (see `GuildSettings`) is taken as
finished; `setup_hook` runs before the first session and changes nothing that is
modelled.

### GuildSettings

`process` is down, migrating or up; `file` is what `guild_config.json` is at a
start. `Start` has the four ways of `_migrate_legacy_json`: marked already, no file
(marked at once), a file that cannot be read as JSON (passed over without a
mark), a readable one. `Migrate` and `Commit` are the rows and the end of its one
transaction, `Crash` may come at any point. A file that is not UTF-8 enables no
start: UnicodeDecodeError is not among the errors caught.

The two forms hold the texts stored when they were opened (`Open`), and `on_submit`
writes message and link in two transactions (`SaveMessage` or `Resubmit`, then
`SaveLink`); there is no await between, so that only a kill or a refusal by SQLite
(`SaveLinkFails`) comes there (`Free`). One text stands for a message with its
link, so that "from one submission" is equality. `Ensure`, `Join`, `Leave`,
`Select` are the other writers of the row. Refused forms change nothing and are left out.

### NotionSync

One run at a time (the concurrency group; `--apply` refuses other branches):
`Begin` takes the newest revision or that of an earlier run. Each document has one
request under way: `NotServed`, `Refused`, `Read`, `Write`, `Answered`,
`AnswerLost` and `TimesOut` are the outcomes of an attempt, `Retry` is the loop of
`notionRequest`. A write given up, by its sender or because the job was killed,
becomes `stray`: Notion may perform it at any later time (`PerformLate`), within
another run too. `Preflighted`, `PreflightFailed`, `Finish` are the two
`Promise.allSettled` of `syncProjectDocuments`. `page` says which run wrote a page;
`Exact` says which texts Notion gives back as they were written, without which
no page counts as already current. A final refusal whose body matches
`/timeout|aborted|fetch/i` is retried by the code; `NotServed` covers it.

## 4. What the runs check

| run | result | instance |
| --- | --- | --- |
| `polls` | `DigestNeverAhead`, `PollExclusion`, `NoUnchangedRepeat`, `TypeOK` hold | 1 guild with 2 channels, loop and 2 commands, a short and a long list, all faults, 1 restart; 810,000 states. A list other than the one remembered last may come again |
| `delivery` | `CommandServed`, `EventualDelivery`, `RemovalTakesEffect` hold, and the refinement `OneCourier` | 2 guilds, one of them flaky, one digest (the feed does not change), fetch and HTTP faults; 120,000 states |
| `retry` | `RetryPromiseKept` is violated | a finding, see below |
| `chart` | single flight, freshness, staleness, monotony, pauses hold; `EveryAskAnswered` under fairness | 2 commands, TTL 3, cooldown 2, 6 ticks; 170,000 states |
| `metadata` | `SlotsAccounted`, `ChartWellFormed`, `NameKept`, `FreshMetadata`, `MTypeOK` hold, and under fairness the refinement `ServesChart` | 1 command that asks again and again, 3 games and a limit of 2, 2 slots, 4 lists (one longer than the limit and not in order), up to 3 requests, 3 ticks; 880,000 states |
| `supervisor` | `OneKnownBot`, `LogFollowsProcess`, `TypeOK` hold; `RequestsAnswered`, `CloseEnds` under fairness | 2 handlers and the main thread, 3 processes, a kill that may hang; 115,000 states |
| `lifecycle` | `CleanlyForgotten`, `MigratedUsesGlobal`, `TypeOK` hold | 2 guilds, 2 `on_ready` handlers, global mode, both kinds of failing requests, 1 restart; 2.1 million states |
| `lifecycle_ready` | `ReadyShown` holds under fairness | 1 guild, 2 handlers, both modes, failing synchronisations but no failing `application_info`, 1 restart; 65,000 states |
| `removed` | `RemovedMeansDeleted` is violated | a finding |
| `resumed` | `ConnectedMeansReady` is violated | a finding |
| `settings` | `SavedTogether`, `ChannelKept`, `MigrationAtomic`, `MarkMeansMigrated`, `TypeOK` hold; `StartsAgain` under fairness | 1 guild in the file, 2 forms, 2 texts, 2 channels, 2 kills; 1.2 million states |
| `notion` | `WrittenIfCleared`, `ReportedShown`, `TypeOK` hold; `RunEnds` under fairness | 2 documents, one of which Notion normalises, 2 revisions, 2 runs, 2 attempts; 234,000 states |

**Why the bounds are enough.** Two guilds are needed for one guild's trouble to
reach another, and for the list to be stale while the first is served
(`delivery`); a third adds only another position. `polls` spends its states on two
commands and two channels of one guild instead. Two messages give every way to
fail between messages. Two commands beside the loop give a queue for the lock with
a waiter behind a waiter, and configurations that cross. One restart separates two
lives of the process. In the chart, TTL and cooldown differ and a refresh may take
longer than either; six ticks hold a refresh, its expiry and a second one. Two
handlers and the main thread allow two to overlap in `stop` while a third starts;
three processes allow two successions. Two `on_ready` handlers are the fewest that
overlap, and two guilds the fewest for which one waits in the list while the other
is synchronised; the theorems hold for any number of either. What `polls`, `chart`
and `supervisor` check of safety is proved for any number of guilds, commands and
threads. In `metadata` one command suffices, since the lock lets one refresh run
at a time: the requests that meet are those of successive refreshes, and three of
them with two slots leave one to wait; a chart of two games is enough for one to
break the gather of the other, and a list of three is longer than the limit.
Guilds share nothing in `GuildSettings` but the transaction of the migration, for
which one row before its commit is enough; the theorems hold for any number. Two
runs are needed for a late write to meet another run, two documents for one to
fail while the other goes on; `MAX_ATTEMPTS` is 4 in the code, 2 in the run and
anything in the theorems.

**Fairness.** The event loop runs whatever can go on: weak fairness on the tick of
the loop, on the lock's first waiter (asyncio.Lock is FIFO) and on the end of
every await of a poll (the requests have timeouts). Strong fairness stands for the
world: a feed asked again and again answers once in a while, and so does the
channel of a guild that is not `Flaky`; without it nothing could be promised.
`EventualDelivery` is checked with `fetch` and `http` faults only: with a
connection that breaks at an early guild each time, later guilds do starve, and a
storage fault ends the loop, as the hazards say. In the launcher threads are
scheduled, a thread that asks for the RLock again and again gets it (strong
fairness), a killed process ends in the end; one that is only told to end never
has to. That an installation of dependencies ends is an assumption about pip and
the network: `subprocess.run` has no timeout there, and the thread keeps the
RLock. For the lifecycle: a lost connection is tried again until there is one, the
ready event of a session comes, the requests of `on_ready` end; nothing says that
a connection lasts. `ReadyShown` moreover needs an `application_info` that does
not fail: if it does, `on_ready` ends before the flag is set, and the bot is shown
as waiting until its next session. A request for metadata has a timeout, so the
one that has held its slot for longest ends. For the settings:
`docker-compose.yml` restarts the bot (`unless-stopped`) and a start runs to its
end; nobody has to answer a form. For the publication: each attempt has an
AbortSignal of 30 seconds and the script goes on when its requests have settled; a
kill is never needed. `CHECK_DEADLOCK FALSE` is set for the launcher, which exits,
and for the publication, whose runs are bounded.

**Symmetry** is used in `lifecycle` only, whose guilds and handlers are
interchangeable, never with a liveness property.

### Findings

1. `retry`: after a failed delivery `configure_alert` promises another try at the
   next automatic check, which skips the guild if it already got the same list,
   say on the channel configured before.
2. `removed`: the privacy page says that a removed bot's data of the server is
   deleted. The deletion comes once: a handler that awaits a request meanwhile
   writes the guild's metric afterwards. In the trace it is the set-up prompt of a
   guild that removes the bot at once; a welcome message, a poll and a command do
   the same. A command and `on_ready` may create settings too, and a removal during
   a session that is lost for good is never noticed.
3. `resumed`: the flag goes down at a disconnect and a resumed session does not
   raise it, so that a working bot is shown as waiting.

More states are reachable in the models, or follow from them, and are not kept as runs.

- A poll under way works on the list read before it, and starts a message to a
  guild that has turned its alert off meanwhile (`LoopTick`, `RemoveAlert`).
- A bot that was stopped is shown as ended with an error: `stop` clears
  `last_error` but not the exit code, which SIGTERM makes non-zero (`Stopped`).
- The mark of the command migration survives a start with
  `SYNC_GUILD_COMMANDS=true`, whose copies then stay for good (`Restart` with
  both modes; `lifecycle` and `MigrationSound` are about the global mode).
- A launcher exits and leaves a bot running, though `scripts/local_launcher.py:500`,
  `docs/local-bot-run.md:20` and the panel (`admin_panel.html:111`) say that the bot
  ends with it. Either a restart is under way, and its thread starts the new bot
  before shutdown takes the lock again or while the interpreter ends; or a kill
  takes longer than its wait. `OneKnownBot` is about a launcher that lives.
- The health flag is raised after an await, when the connection may be gone; and it
  stays down for a session whose `application_info` failed.
- The loop sends again a list that was acknowledged before, if another one was in
  between (offers that come, go and come again) or if the alert was removed while a
  poll had its list: only the digest remembered last is compared.
- A command that outlives the removal of the bot stores its alert afterwards
  (`ConfigureStore` after `GuildRemove`).
- After a restart every guild gets the unchanged list again, as the comment at
  `bot/cogs/free_game_alerts.py:153` intends, although `docs/Project_Detail.md:49`
  counts free games among what is stored to avoid it.
- A legacy file that is not UTF-8 keeps the bot from starting (`StartsAgain`
  excludes it), where other unreadable files are passed over.
- A form that was opened earlier and is submitted later overwrites the texts saved
  in between; only the channel is safe (`ChannelKept`).
- An earlier publication started again puts its old revision over a newer one.

## 5. What is proved

TLAPS checks the theorems below for every value of the constants allowed by the
named assumptions (`GuildAssumption`, ..., `ThreadAssumption`), which only say
that ids of different kinds differ and that lists have at least one message.

**FreeGameAlertsProofs.** `TypeCorrect`, `MutualExclusion` (`PollExclusion`),
`NeverAhead` (`DigestNeverAhead`), `NoRepeat` (`NoUnchangedRepeat`), each from
`Invariance`; `LockGivenBack` is explained below. The inductive invariant `IInv`
adds to the properties what makes them inductive: a polling task is the head of
`pollLock`; while a task sends, the messages it counts as sent are indeed posted,
and fewer than the list has; a remembered digest is complete. Exclusion follows
since a sequence has one head; that the loop never sends the list remembered last
since the head alone changes
`lastDigest` to a digest, and others only forget. One lemma per action;
`OutsideStep` covers the actions that touch no polling task, `AdvanceStep` the
synchronous part of the loop.

**BotSupervisorProofs.** `TypeCorrect`, `OneBotOnly` (`OneKnownBot`), `LogOpen`
(`LogFollowsProcess`). Here `IInv` adds `InstallerAlone`: a thread between start's
check and its end keeps the lock and no process is known then; that is why a
spawn never adds a second bot. `QuietStep` covers every action that starts no
process.

**SteamPopularProofs.** `TypeCorrect`, `OneRefresh` (`SingleFlight`),
`FreshAnswers` (`FreshMeansFresh`), `ChartMonotone` (`ChartNeverGoesBack`),
`Sparing` (`AskedSparingly`), `StaleAfterFailure` (`StaleOnlyAfterFailure`), for
any number of commands, any TTL and cooldown, and a clock without end. `IInv`
adds that who refreshes is the head of the lock (`HoldsLock`), that a snapshot's
date lies before the time Steam sent it (`SnapshotPast`), that a refresh began
after the cooldown and waits with a chart no older than the published one
(`RefreshOK`), and that the cache's dates are those of the last refresh while
nobody refreshes (`PauseOK`). The action properties follow step by step from it.

**BotLifecycleProofs.** `TypeCorrect`, `ForgottenForGood` (`CleanlyForgotten`),
`MigrationSound` (`MigratedUsesGlobal`, assuming `Modes = {FALSE}`). `ForgottenForGood`
is about a guild left while the bot was connected and nothing of it was under way:
neither synchronisation nor command, prompt, welcome or poll. It stays forgotten
since it is in no list, cached, missed or taken by a handler, from which a row
could be written (`Forgotten`; that `missed` is empty while the bot is connected,
`NoneMissed`, is what a removal rests on). A mark is sound since it is set only
behind a synchronisation whose copies stay removed (`GlobalInv`).

**FreeGameAlertsLedgerProofs.** `ActsAsOneCourier` (`OneCourier`): `InitSimulates`,
and `StepSimulates` with a case per action. Besides `IInv` it needs `RoundsOK`: the
guild being sent to is the first of the list that is left, so that the next one is
later, and the list of a command has one guild, so that a forced courier ends there.

**SteamMetadataProofs.** `ImplementsChart` (every step is one of `SteamPopular` or
leaves it unchanged, hence `FreshWithMetadata` with no new invariant),
`MetadataTypeCorrect` (`MTypeOK`), `NoSlotLost` (`SlotsAccounted`): the invariant
is `MInv`, both of the last together, for a release hands the slot to the first
that waits, or none waits. `OneChart` says that `ParseChart` gives exactly one chart
for every list of any length. What is kept at a position depends on what is
kept before it, so that two answers that differ do so at a least position, where
they cannot (`WFMin` of the library on the natural numbers); the sets of positions
kept, the order by rank and the cut are then unique one after the other, and
exist likewise. No theorem rests on an assumption about the parser.
`ShownChartWellFormed` (`ChartWellFormed`), `NamesKept` (`NameKept`) and
`MetadataFresh` (`FreshMetadata`) need `GInv`, which speaks of every request under
way, with a slot or waiting for one (`Underway`), since requests outlive the
gather that made them: metadata that was known once is in the cache for good
(`GameOK`); a request that a gather waits for began in this refresh, is for a
game not settled yet, and carries metadata if that game is shown with some
(`Awaited`); a game is asked for once in a gather (`AskedOnce`).
`NothingAwaitedInVain` is the safety half of `ServesChart`: each game that a gather
still waits for has a request of that gather under way, and some request has a slot.

**GuildSettingsProofs.** `TypeCorrect`, `NoMixedSettings` (`SavedTogether`),
`ChannelSurvives` (`ChannelKept`), `MigrationAllOrNothing` (`MigrationAtomic`),
`MarkMigrates` (`MarkMeansMigrated`). `IInv` adds that at most one form is between
its transactions, with its message stored (`FormsOK`), that the migration only
adds rows of the file where there are none (`PendingOK`), and that a guild without
row has no channel (`NoneChosen`). `MarkOK` adds what the mark rests on: a
migration has a row for every guild that it went past, and rows written without
the mark come from a bot that passed over the file.

**NotionSyncProofs.** `TypeCorrect`, `NothingWrittenUncleared` (`WrittenIfCleared`),
`ReportsAreTrue` (`ReportedShown`). `IInv` adds that pages and stray writes come
from runs whose preflight was in order (`WritersOK`), and that what a run takes for
shown is shown as long as no write of another revision is astray (`ShownOK`).

**The safety half of liveness.** Fairness and ENABLED are out of the prover's
reach, so that `CommandServed`, `EveryAskAnswered`, `RequestsAnswered` and the
fairness in `ServesChart` stay with TLC. What makes them true is provable, for any
number of tasks: nobody waits behind a lock that nobody gives back.
`FreeGameAlertsProofs!LockGivenBack` and `SteamPopularProofs!SomebodyServes` show
that the lock's queue has exactly the tasks that wait or hold it, each once
(`Queued`), so that the first of it is a task that can go on: every early return,
error and restart takes its task from the front and no other.
`BotSupervisorProofs!LockGivenBack` shows that the RLock outlives a step only in
the hands of a thread that is installing. TLC checked each of these invariants
on the instance of its run before it was proved.

Only model-checked: the liveness properties (those above, `EventualDelivery`,
`RemovalTakesEffect`, `CloseEnds`, `ReadyShown`, `StartsAgain`, `RunEnds`); that
`ParseChart` is what the loop of the code computes (`ParseIsLoop`, an induction over
the list's recursion); and the findings. Every invariant and every action
property of the passing runs is a theorem.

## 6. What is not modelled

See `PROJECT.json` ("components") for each part. The patch alerts: their package
is not in the repository. The static site and the build scripts: files made from
files. The search and the browser of the guides: pure scoring and the page of one
message. The filter of the free-game feed: conditions on one item at a time. The
nickname change, the permission check and the text of the welcome message: they
read and send, and keep nothing (the metric of a welcome is in `BotLifecycle`).
Validation and link rewriting of the project docs. Embed layout and wording,
logging, and vendored code.
