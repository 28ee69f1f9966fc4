---------------------------- MODULE SteamPopular ----------------------------
(***************************************************************************)
(* SteamPopularService.get_snapshot (bot/utils/steam_popular.py) as the    *)
(* popular_games commands call it at the same time: a snapshot of Steam's  *)
(* chart is cached for CacheTtl, one command at a time refreshes it, and   *)
(* after a failed refresh nobody tries again for ErrorRetry.               *)
(*                                                                         *)
(* A chart is known by the time Steam answered with it.  The metadata of   *)
(* the games is fetched between that answer and the publication; what it   *)
(* holds is left out, for it never fails a refresh.                        *)
(***************************************************************************)
EXTENDS Integers, Sequences

CONSTANTS
  Client,      \* running commands
  CacheTtl,    \* _cache_ttl_seconds
  ErrorRetry,  \* _error_retry_seconds
  MaxTime,     \* bound on the clock
  None         \* no snapshot

ASSUME DurationAssumption ==
  CacheTtl \in Nat \ {0} /\ ErrorRetry \in Nat \ {0} /\ MaxTime \in Nat
ASSUME NoneAssumption == None \notin Nat

VARIABLES
  now,         \* the monotonic clock
  snapshot,    \* when Steam sent the cached chart (_snapshot), or None
  cachedAt,    \* _snapshot_cached_at
  retryAfter,  \* _retry_after
  lock,        \* _lock: the holder, then the waiters in FIFO order
  client,      \* what each command is doing and what it was answered
  lastStart,   \* history: when the last refresh started
  lastEnd      \* history: how it ended

vars == <<now, snapshot, cachedAt, retryAfter, lock, client, lastStart, lastEnd>>
cache == <<snapshot, cachedAt, retryAfter>>
history == <<lastStart, lastEnd>>

NoAnswer == [kind |-> "none", chart |-> None, at |-> 0]
Init ==
  /\ now = 0
  /\ snapshot = None
  /\ cachedAt = 0
  /\ retryAfter = 0
  /\ lock = << >>
  /\ client = [c \in Client |-> [pc |-> "idle", began |-> 0, chart |-> None,
                                 answer |-> NoAnswer]]
  /\ lastStart = 0
  /\ lastEnd = "none"

-----------------------------------------------------------------------------
(* A command goes on to another await, or has its answer.                  *)
Enter(c, pc, began, chart) ==
  client' = [client EXCEPT ![c] =
    [pc |-> pc, began |-> began, chart |-> chart, answer |-> client[c].answer]]
Answered(c, kind, chart) ==
  client' = [client EXCEPT ![c] =
    [pc |-> "idle", began |-> 0, chart |-> None,
     answer |-> [kind |-> kind, chart |-> chart, at |-> now]]]

(* The checks made before and again after the lock is taken, in the order  *)
(* of the code: cooldown of a cold start, fresh cache, stale cache.        *)
Cooling == snapshot = None /\ now < retryAfter
Fresh == snapshot # None /\ now - cachedAt < CacheTtl
StaleWhenever == snapshot # None /\ ~Fresh  \* variant: any old snapshot will do
Stale == snapshot # None /\ ~Fresh /\ now < retryAfter
MustRefresh == ~Cooling /\ ~Fresh /\ ~Stale

Served(c) ==
  \/ Cooling /\ Answered(c, "error", None)
  \/ Fresh /\ Answered(c, "fresh", snapshot)
  \/ Stale /\ Answered(c, "stale", snapshot)

StartRefresh(c) ==
  /\ Enter(c, "chart", now, None)
  /\ lastStart' = now

(* Variant: no lock is waited for.                                         *)
AskUnlocked(c) ==
  /\ client[c].pc = "idle"
  /\ \/ Served(c) /\ UNCHANGED <<lock, lastStart>>
     \/ MustRefresh /\ StartRefresh(c) /\ lock' = Append(lock, c)
  /\ UNCHANGED <<now, cache, lastEnd>>

(* get_snapshot up to `async with self._lock`.                             *)
Ask(c) ==
  /\ client[c].pc = "idle"
  /\ \/ Served(c) /\ UNCHANGED lock
     \/ MustRefresh /\ Enter(c, "waiting", 0, None) /\ lock' = Append(lock, c)
  /\ UNCHANGED <<now, cache, history>>

HasLock(c) == client[c].pc = "waiting" /\ lock # << >> /\ Head(lock) = c

(* Variant: the command that got the lock refreshes without a second look. *)
ResumeUnchecked(c) ==
  /\ HasLock(c)
  /\ StartRefresh(c)
  /\ UNCHANGED <<now, cache, lock, lastEnd>>

(* The lock is taken: the checks are made again, at the time it is now.    *)
Resume(c) ==
  /\ HasLock(c)
  /\ \/ Served(c) /\ lock' = Tail(lock) /\ UNCHANGED lastStart
     \/ MustRefresh /\ StartRefresh(c) /\ UNCHANGED lock
  /\ UNCHANGED <<now, cache, lastEnd>>

(* Steam answers the chart request with a usable chart.                    *)
ChartArrives(c) ==
  /\ client[c].pc = "chart"
  /\ Enter(c, "metadata", client[c].began, now)
  /\ UNCHANGED <<now, cache, lock, history>>

(* Variant: the age of the snapshot is counted from its publication.       *)
PublishDatedAtEnd(c) ==
  /\ client[c].pc = "metadata"
  /\ snapshot' = client[c].chart
  /\ cachedAt' = now
  /\ retryAfter' = 0
  /\ lock' = Tail(lock)
  /\ lastEnd' = "ok"
  /\ Answered(c, "new", client[c].chart)
  /\ UNCHANGED <<now, lastStart>>

(* The metadata is there: the snapshot is published, dated at the start of *)
(* its refresh.                                                            *)
Publish(c) ==
  /\ client[c].pc = "metadata"
  /\ snapshot' = client[c].chart
  /\ cachedAt' = client[c].began
  /\ retryAfter' = 0
  /\ lock' = Tail(lock)
  /\ lastEnd' = "ok"
  /\ Answered(c, "new", client[c].chart)
  /\ UNCHANGED <<now, lastStart>>

(* Variant: a failed refresh keeps the lock.                               *)
RefreshFailsHoldingLock(c) ==
  /\ client[c].pc = "chart"
  /\ retryAfter' = client[c].began + ErrorRetry
  /\ lastEnd' = "failed"
  /\ Answered(c, "error", None)
  /\ UNCHANGED <<now, snapshot, cachedAt, lock, lastStart>>

(* Variant: the cooldown is counted the wrong way.                         *)
RefreshFailsBackdated(c) ==
  /\ client[c].pc = "chart"
  /\ retryAfter' = client[c].began - ErrorRetry
  /\ lock' = Tail(lock)
  /\ lastEnd' = "failed"
  /\ Answered(c, "error", None)
  /\ UNCHANGED <<now, snapshot, cachedAt, lastStart>>

(* SteamPopularError: no chart, or none that can be used.  The cooldown is *)
(* counted from the start of the refresh.                                  *)
RefreshFails(c) ==
  /\ client[c].pc = "chart"
  /\ retryAfter' = client[c].began + ErrorRetry
  /\ lock' = Tail(lock)
  /\ lastEnd' = "failed"
  /\ IF snapshot = None THEN Answered(c, "error", None)
                        ELSE Answered(c, "stale", snapshot)
  /\ UNCHANGED <<now, snapshot, cachedAt, lastStart>>

(* Any other exception, such as http.client.IncompleteRead, leaves by the  *)
(* `async with`: no cooldown starts and no stale snapshot is shown.        *)
RefreshBreaks(c) ==
  /\ client[c].pc \in {"chart", "metadata"}
  /\ lock' = Tail(lock)
  /\ lastEnd' = "broken"
  /\ Answered(c, "broken", None)
  /\ UNCHANGED <<now, cache, lastStart>>

Tick ==
  /\ now < MaxTime
  /\ now' = now + 1
  /\ UNCHANGED <<cache, lock, client, history>>

Refresh(c) ==
  \/ ChartArrives(c)
  \/ Publish(c)
  \/ RefreshFails(c)
  \/ RefreshBreaks(c)

Next == Tick \/ \E c \in Client : Ask(c) \/ Resume(c) \/ Refresh(c)

Spec == Init /\ [][Next]_vars

(* A released asyncio.Lock wakes its first waiter, and a refresh ends: its *)
(* requests have a timeout.  Nobody has to ask.                            *)
FairSpec ==
  Spec /\ \A c \in Client : WF_vars(Resume(c)) /\ WF_vars(Refresh(c))

-----------------------------------------------------------------------------
Time == Nat
AnswerKind == {"none", "new", "fresh", "stale", "error", "broken"}
ClientType ==
  [pc : {"idle", "waiting", "chart", "metadata"},
   began : Time,
   chart : Time \cup {None},
   answer : [kind : AnswerKind, chart : Time \cup {None}, at : Time]]

(* Every variable keeps its type (SteamPopularService.__init__).           *)
TypeOK ==
  /\ now \in Time
  /\ snapshot \in Time \cup {None}
  /\ cachedAt \in Time
  /\ retryAfter \in Time
  /\ lock \in Seq(Client)
  /\ client \in [Client -> ClientType]
  /\ lastStart \in Time
  /\ lastEnd \in {"none", "ok", "failed", "broken"}

(* "Single-flight" (steam_popular.py:206): however many commands run, one  *)
(* at most is refreshing.                                                  *)
Refreshing(c) == client[c].pc \in {"chart", "metadata"}
SingleFlight == \A c, d \in Client : Refreshing(c) /\ Refreshing(d) => c = d

(* An answer from the cache that is not marked stale shows a chart Steam   *)
(* sent less than CacheTtl before, however long its refresh took and       *)
(* however long the command waited for the lock.                           *)
FreshMeansFresh ==
  \A c \in Client :
    LET a == client[c].answer
    IN a.kind = "fresh" => a.at - a.chart < CacheTtl

(* The warning of a stale chart is shown only while the last refresh that  *)
(* ended is one that failed.                                               *)
AnsweredStale(c) ==
  client'[c].answer # client[c].answer /\ client'[c].answer.kind = "stale"
StaleOnlyAfterFailure ==
  [][\A c \in Client : AnsweredStale(c) => lastEnd' = "failed"]_vars

(* The published chart never goes back to one that Steam sent earlier.     *)
ChartNeverGoesBack ==
  [][snapshot # None => snapshot' # None /\ snapshot' >= snapshot]_vars

(* Steam is not asked again before CacheTtl has passed since the start of  *)
(* a refresh that succeeded, or ErrorRetry since one that failed, however  *)
(* many commands queued up meanwhile.                                      *)
Pause == CASE lastEnd = "ok" -> CacheTtl
           [] lastEnd = "failed" -> ErrorRetry
           [] OTHER -> 0
StartsRefresh == \E c \in Client : ~Refreshing(c) /\ Refreshing(c)'
AskedSparingly == [][StartsRefresh => now >= lastStart + Pause]_vars

(* Every command gets its answer or its error.                             *)
EveryAskAnswered ==
  \A c \in Client : client[c].pc # "idle" ~> client[c].pc = "idle"
=============================================================================
