---------------------------- MODULE SteamMetadata ----------------------------
(***************************************************************************)
(* The refresh of SteamPopular in full (_refresh_snapshot and              *)
(* _get_app_metadata, bot/utils/steam_popular.py): Steam's answer becomes  *)
(* a chart, and asyncio.gather collects the metadata of its games, from a  *)
(* cache or from requests that share a semaphore.  An error that is no     *)
(* SteamPopularError ends the gather but none of its requests: they go on, *)
(* hold their slots and write the cache while a later refresh runs.        *)
(*                                                                         *)
(* The metadata of a game is known by the time its request began, which is *)
(* the date it has in the cache.                                           *)
(***************************************************************************)
EXTENDS SteamPopular, SequencesExt

CONSTANTS
  App,          \* games
  Payload,      \* `ranks` lists Steam may send
  Junk,         \* an item that is no valid entry
  ResultLimit,  \* MAX_RESULT_LIMIT
  Slots,        \* MAX_METADATA_CONCURRENCY
  MetadataTtl,  \* _metadata_ttl_seconds
  MaxJobs       \* bound on the requests under way and waiting

Entry == [rank : Nat \ {0}, app : App]
ASSUME PayloadAssumption == Payload \subseteq Seq(Entry \cup {Junk})
ASSUME LimitAssumption ==
  /\ ResultLimit \in Nat \ {0} /\ Slots \in Nat \ {0}
  /\ MetadataTtl \in Nat \ {0} /\ MaxJobs \in Nat
ASSUME JunkAssumption == Junk \notin Entry
ASSUME NobodyAssumption == None \notin Client

VARIABLES
  metadata,  \* _metadata_cache: the date of each game's entry, or None
  gather,    \* what the refresh of each command has collected
  free,      \* the semaphore's value
  asking,    \* requests that hold a slot
  queue,     \* requests that wait for one, in FIFO order
  games      \* the games of _snapshot

requests == <<free, asking, queue>>
mvars == <<metadata, gather, requests, games>>
allvars == <<vars, mvars>>

(* A game is `settled` once its metadata is known: with the date it has,   *)
(* or None for the placeholder "Steam App <id>"; `missed` when the request *)
(* gave nothing.                                                           *)
MInit ==
  /\ Init
  /\ metadata = [a \in App |-> None]
  /\ gather = [c \in Client |-> << >>]
  /\ free = Slots
  /\ asking = << >>
  /\ queue = << >>
  /\ games = << >>

-----------------------------------------------------------------------------
(* parse_chart_payload: of the valid items, each rank and each app once,   *)
(* as first met, arranged by rank and cut at the limit.                    *)
ClashRank(j, k) == j.rank = k.rank  \* variant: an app may come twice
Clash(j, k) == j.rank = k.rank \/ j.app = k.app

(* The set of the positions that are kept: there is exactly one.           *)
Valid(ranks) == {i \in DOMAIN ranks : ranks[i] # Junk}
FirstMet(ranks) ==
  {K \in SUBSET Valid(ranks) : \A i \in Valid(ranks) :
     i \in K <=> \A j \in K : j < i => ~Clash(ranks[j], ranks[i])}

ByRank(K, ranks) ==
  {p \in [1..Cardinality(K) -> K] : \A i, j \in DOMAIN p :
     i < j => p[i] # p[j] /\ ranks[p[i]].rank <= ranks[p[j]].rank}

ParseChart(ranks) ==
  {[i \in (DOMAIN p) \cap (1..ResultLimit) |-> ranks[p[i]]] :
     p \in UNION {ByRank(K, ranks) : K \in FirstMet(ranks)}}

(* The charts Steam may send: an empty one is an error.                    *)
Charts == (UNION {ParseChart(ranks) : ranks \in Payload}) \ {<< >>}

-----------------------------------------------------------------------------
(* Variant: any entry of the cache will do.                                *)
CurrentAlways(app) == metadata[app] # None
Current(app) == metadata[app] # None /\ now - metadata[app] < MetadataTtl

Job(c, app) == [for |-> c, app |-> app, asked |-> now, cached |-> metadata[app]]

(* The gather starts: a game with current metadata is settled, the others  *)
(* (those at the positions `lacking`) ask for a slot in the order of the   *)
(* chart.                                                                  *)
InOrder(S) ==
  {p \in [1..Cardinality(S) -> S] : \A i, j \in DOMAIN p : i < j => p[i] < p[j]}

ChartParsed(c) ==
  \E entries \in Charts :
    \E lacking \in InOrder({i \in DOMAIN entries : ~Current(entries[i].app)}) :
      LET jobs == [i \in DOMAIN lacking |-> Job(c, entries[lacking[i]].app)]
          at == IF Len(jobs) < free THEN Len(jobs) ELSE free
      IN /\ Len(asking) + Len(queue) + Len(jobs) <= MaxJobs
         /\ ChartArrives(c)
         /\ gather' = [gather EXCEPT ![c] = [i \in DOMAIN entries |->
              [rank |-> entries[i].rank, app |-> entries[i].app,
               settled |-> Current(entries[i].app),
               date |-> metadata[entries[i].app], missed |-> FALSE]]]
         /\ free' = free - at
         /\ asking' = asking \o SubSeq(jobs, 1, at)
         /\ queue' = queue \o SubSeq(jobs, at + 1, Len(jobs))
         /\ UNCHANGED <<metadata, games>>

(* asyncio.Semaphore.release gives the slot to the first that waits.       *)
Hand(rest, waiting) ==
  /\ asking' = IF waiting = << >> THEN rest ELSE Append(rest, Head(waiting))
  /\ queue' = IF waiting = << >> THEN waiting ELSE Tail(waiting)
ReleaseTwice(i) ==  \* variant: a slot handed over counts as free, too
  /\ Hand(RemoveAt(asking, i), queue)
  /\ free' = free + 1
Release(i) ==
  /\ Hand(RemoveAt(asking, i), queue)
  /\ free' = IF queue = << >> THEN free + 1 ELSE free

(* The gather, if it still waits, gets the metadata of one game.           *)
Settle(job, date, missed) ==
  gather' = IF job.for = None THEN gather
    ELSE [gather EXCEPT ![job.for] = [i \in DOMAIN @ |->
           IF @[i].app # job.app THEN @[i]
           ELSE [rank |-> @[i].rank, app |-> job.app,
                 settled |-> TRUE, date |-> date, missed |-> missed]]]

JobOk(i) ==
  LET job == asking[i]
  IN /\ Release(i)
     /\ metadata' = [metadata EXCEPT ![job.app] = job.asked]
     /\ Settle(job, job.asked, FALSE)
     /\ UNCHANGED <<vars, games>>

(* Variant: a request that failed forgets what the cache had.              *)
JobMissesForgetting(i) ==
  /\ Release(i)
  /\ Settle(asking[i], None, TRUE)
  /\ UNCHANGED <<vars, metadata, games>>

(* Variant: a request that failed is made again, for ever.                 *)
JobMissesRetried(i) ==
  /\ asking' = Append(RemoveAt(asking, i), asking[i])
  /\ UNCHANGED <<vars, metadata, gather, free, queue, games>>

(* Variant: a request that failed keeps its slot.                          *)
JobMissesHoldingSlot(i) ==
  /\ asking' = RemoveAt(asking, i)
  /\ Settle(asking[i], asking[i].cached, TRUE)
  /\ UNCHANGED <<vars, metadata, free, queue, games>>

(* SteamPopularError, or an answer without metadata: what the cache had    *)
(* when the request began, of any age, or the placeholder.                 *)
JobMisses(i) ==
  /\ Release(i)
  /\ Settle(asking[i], asking[i].cached, TRUE)
  /\ UNCHANGED <<vars, metadata, games>>

(* Any other exception leaves by the gather, whose other requests go on    *)
(* with nobody to wait for them.                                           *)
Orphaned(jobs, c) ==
  [i \in DOMAIN jobs |->
    IF jobs[i].for = c THEN [jobs[i] EXCEPT !.for = None] ELSE jobs[i]]
GatherBreaks(i, c) ==
  /\ RefreshBreaks(c)
  /\ Hand(Orphaned(RemoveAt(asking, i), c), Orphaned(queue, c))
  /\ free' = IF queue = << >> THEN free + 1 ELSE free
  /\ gather' = [gather EXCEPT ![c] = << >>]
JobBreaks(i) ==
  /\ \/ \E c \in Client : asking[i].for = c /\ GatherBreaks(i, c)
     \/ asking[i].for = None /\ Release(i) /\ UNCHANGED <<vars, gather>>
  /\ UNCHANGED <<metadata, games>>

JobEnds(i) == JobOk(i) \/ JobMisses(i) \/ JobBreaks(i)

(* Everything is collected: the snapshot is published with its games.      *)
GamesPublished(c) ==
  /\ \A g \in Range(gather[c]) : g.settled
  /\ Publish(c)
  /\ games' = gather[c]
  /\ gather' = [gather EXCEPT ![c] = << >>]
  /\ UNCHANGED <<metadata, requests>>

(* The request for the chart itself ends with no chart.                    *)
ChartMissing(c) ==
  /\ client[c].pc = "chart"
  /\ RefreshFails(c) \/ RefreshBreaks(c)
  /\ UNCHANGED mvars

MRefresh(c) == ChartParsed(c) \/ ChartMissing(c) \/ GamesPublished(c)

MNext ==
  \/ Tick /\ UNCHANGED mvars
  \/ \E c \in Client :
       \/ (Ask(c) \/ Resume(c)) /\ UNCHANGED mvars
       \/ MRefresh(c)
  \/ \E i \in DOMAIN asking : JobEnds(i)

MSpec == MInit /\ [][MNext]_allvars

(* Every request has a timeout, so the one that holds a slot for longest   *)
(* ends.                                                                   *)
FirstEnds == asking # << >> /\ JobEnds(1)
MFairSpec ==
  /\ MSpec
  /\ \A c \in Client : WF_allvars(Resume(c) /\ UNCHANGED mvars)
                       /\ WF_allvars(MRefresh(c))
  /\ WF_allvars(FirstEnds)

-----------------------------------------------------------------------------
JobType ==
  [for : Client \cup {None}, app : App, asked : Time, cached : Time \cup {None}]
GameType ==
  [rank : Nat \ {0}, app : App, settled : BOOLEAN,
   date : Time \cup {None}, missed : BOOLEAN]

(* Every variable of the refresh keeps its type.                           *)
MTypeOK ==
  /\ metadata \in [App -> Time \cup {None}]
  /\ gather \in [Client -> Seq(GameType)]
  /\ free \in 0..Slots
  /\ asking \in Seq(JobType)
  /\ queue \in Seq(JobType)
  /\ games \in Seq(GameType)

(* However many gathers broke and left their requests behind, a slot of    *)
(* the semaphore (steam_popular.py:239) is held by one request or free,    *)
(* and nobody waits while one is free.                                     *)
SlotsAccounted ==
  /\ free + Len(asking) = Slots
  /\ queue # << >> => free = 0

(* "ordered, unique entries" (steam_popular.py:126), all the way to what   *)
(* is shown: the ranks go up, no game comes twice, there are no more than  *)
(* the limit, and none lacks the metadata its request asked for.           *)
ChartWellFormed ==
  /\ \A i, j \in DOMAIN games :
       i < j => games[i].rank < games[j].rank /\ games[i].app # games[j].app
  /\ DOMAIN games \subseteq 1..ResultLimit
  /\ \A g \in Range(games) : g.settled

(* A game shown by its name is not shown by the placeholder in the next    *)
(* snapshot, whatever failed in between.                                   *)
NameKept ==
  [][\A g \in Range(games), h \in Range(games') :
       g.app = h.app /\ g.date # None => h.date # None]_allvars

(* A fresh answer shows metadata no older than both lifetimes together,    *)
(* unless Steam failed to send it again for this very snapshot: waiting    *)
(* for a slot, for the lock or for the rest of the gather adds nothing.    *)
AnsweredFresh(c) ==
  client'[c].answer # client[c].answer /\ client'[c].answer.kind = "fresh"
FreshMetadata ==
  [][\A c \in Client : AnsweredFresh(c) =>
       \A g \in Range(games) :
         g.missed \/ now - g.date < CacheTtl + MetadataTtl]_allvars

(* The commands see what SteamPopular says, fairness included: no refresh  *)
(* waits for ever for a slot.                                              *)
ServesChart == FairSpec
=============================================================================
