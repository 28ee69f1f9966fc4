----------------------------- MODULE NotionSync -----------------------------
(***************************************************************************)
(* sync-project-docs-to-notion.mjs --apply in the workflow                 *)
(* project-docs-notion.yml: a run publishes a revision of the documents,   *)
(* each to its Notion page.  All pages are read first; then those that     *)
(* show something else are written in parallel.  A request is sent up to   *)
(* MAX_ATTEMPTS times.  Runs are of the branch main only, and the          *)
(* concurrency group lets one of them run at a time; a job is killed after *)
(* five minutes.  Notion may perform a write whose sender gave up.         *)
(* A page is what its last writer, a run, wrote.  The text of a document   *)
(* has its commit in it, so every revision is another text.                *)
(***************************************************************************)
EXTENDS Naturals

CONSTANTS
  Doc,
  Exact,        \* <<document, revision>> that Notion gives back as written
  MAX_ATTEMPTS,
  MaxRevision,  \* bounds the pushes
  MaxRun        \* bounds the runs

Revision == 1..MaxRevision
Run == 1..MaxRun
Attempt == 1..MAX_ATTEMPTS

ASSUME NumberAssumption ==
  /\ MAX_ATTEMPTS \in Nat \ {0}
  /\ MaxRevision \in Nat \ {0}
  /\ MaxRun \in Nat
ASSUME ExactAssumption == Exact \subseteq Doc \X Revision

VARIABLES
  head,      \* the revision of main
  phase,     \* of the run: "preflight", "update", or "idle" when there is none
  run,       \* the last run, 0 if none was started
  revision,  \* of each run
  task,      \* per document: "asked", "written", "done" or "failed"
  attempt,
  current,   \* alreadyCurrent
  result,    \* what the last run said at its end
  page,      \* per page: the run that wrote it, 0 if none did
  stray,     \* writes that were given up and may still be performed
  gaveUp,    \* history: <<run, document>> with a write given up
  cleared    \* history: runs whose preflight found every page in order

requests == <<task, attempt>>
notion == <<page, stray, gaveUp>>
vars == <<head, phase, run, revision, requests, current, result, notion, cleared>>

Init ==
  /\ head = 1
  /\ phase = "idle"
  /\ run = 0
  /\ revision = [r \in Run |-> 1]
  /\ task = [d \in Doc |-> "done"]
  /\ attempt = [d \in Doc |-> 1]
  /\ current = {}
  /\ result = "none"
  /\ page = [d \in Doc |-> 0]
  /\ stray = {} /\ gaveUp = {} /\ cleared = {}

Push ==
  /\ head < MaxRevision
  /\ head' = head + 1
  /\ UNCHANGED <<phase, run, revision, requests, current, result, notion, cleared>>

(* A run of the newest revision, or an earlier run started again, which    *)
(* has its old revision.                                                   *)
Begin(v) ==
  /\ phase = "idle" /\ run < MaxRun
  /\ v = head \/ \E r \in 1..run : revision[r] = v
  /\ phase' = "preflight"
  /\ run' = run + 1
  /\ revision' = [revision EXCEPT ![run + 1] = v]
  /\ task' = [d \in Doc |-> "asked"]
  /\ attempt' = [d \in Doc |-> 1]
  /\ current' = {}
  /\ result' = "none"
  /\ UNCHANGED <<head, notion, cleared>>

-----------------------------------------------------------------------------
(* notionRequest.                                                          *)
End(d, how) ==
  /\ task' = [task EXCEPT ![d] = how]
  /\ attempt' = [attempt EXCEPT ![d] = 1]

(* Variants: once too often, and for ever.                                 *)
RetryOnceMore(d) ==
  IF attempt[d] <= MAX_ATTEMPTS
    THEN /\ task' = [task EXCEPT ![d] = "asked"]
         /\ attempt' = [attempt EXCEPT ![d] = @ + 1]
    ELSE End(d, "failed")
RetryForEver(d) == End(d, "asked")

Retry(d) ==
  IF attempt[d] < MAX_ATTEMPTS
    THEN /\ task' = [task EXCEPT ![d] = "asked"]
         /\ attempt' = [attempt EXCEPT ![d] = @ + 1]
    ELSE End(d, "failed")

Running(d, at) == phase # "idle" /\ task[d] = at
OthersKept == UNCHANGED <<head, phase, run, revision, result, cleared>>

(* Status 429 or 500 and above, or no connection: nothing was performed.   *)
NotServed(d) ==
  /\ Running(d, "asked") /\ Retry(d)
  /\ UNCHANGED <<current, notion>> /\ OthersKept
(* Another status that is no success, or a page not fit for a mirror.      *)
Refused(d) ==
  /\ Running(d, "asked") /\ End(d, "failed")
  /\ UNCHANGED <<current, notion>> /\ OthersKept

(* preflightDocument, and whether the page shows the text to be published. *)
Shows(d, v) == page[d] # 0 /\ revision[page[d]] = v
(* Variant: any mirror is taken for the one to be published.               *)
AlreadyMirror(d) == page[d] # 0
AlreadyCurrent(d) == Shows(d, revision[run]) /\ <<d, revision[run]>> \in Exact
Read(d) ==
  /\ phase = "preflight" /\ Running(d, "asked") /\ End(d, "done")
  /\ current' = IF AlreadyCurrent(d) THEN current \cup {d} ELSE current
  /\ UNCHANGED notion /\ OthersKept

(* updateDocument: the write is performed, then the answer arrives and is  *)
(* checked, or is lost; or the sender gives up before.                     *)
Write(d) ==
  /\ phase = "update" /\ Running(d, "asked")
  /\ task' = [task EXCEPT ![d] = "written"]
  /\ page' = [page EXCEPT ![d] = run]
  /\ UNCHANGED <<attempt, current, stray, gaveUp>> /\ OthersKept
Answered(d, how) ==
  /\ Running(d, "written") /\ End(d, how)
  /\ UNCHANGED <<current, notion>> /\ OthersKept
AnswerLost(d) ==
  /\ Running(d, "written") /\ Retry(d)
  /\ UNCHANGED <<current, notion>> /\ OthersKept
TimesOut(d) ==
  /\ phase = "update" /\ Running(d, "asked") /\ Retry(d)
  /\ stray' = stray \cup {<<run, d, attempt[d]>>}
  /\ gaveUp' = gaveUp \cup {<<run, d>>}
  /\ UNCHANGED <<current, page>> /\ OthersKept

Request(d) ==
  \/ NotServed(d) \/ Refused(d) \/ Read(d) \/ Write(d) \/ AnswerLost(d) \/ TimesOut(d)
  \/ \E how \in {"done", "failed"} : Answered(d, how)

-----------------------------------------------------------------------------
(* syncProjectDocuments.                                                   *)
Settled == \A d \in Doc : task[d] \in {"done", "failed"}
(* Variant: a page that cannot be read is left out, the others go on.      *)
PreflightedPartly ==
  /\ phase = "preflight" /\ Settled
  /\ phase' = "update"
  /\ task' = [d \in Doc |->
               IF task[d] = "failed" \/ d \in current THEN task[d] ELSE "asked"]
  /\ UNCHANGED attempt
  /\ cleared' = IF \A d \in Doc : task[d] = "done" THEN cleared \cup {run} ELSE cleared
  /\ UNCHANGED <<head, run, revision, current, result, notion>>

Preflighted ==
  /\ phase = "preflight" /\ Settled
  /\ \A d \in Doc : task[d] = "done"
  /\ phase' = "update"
  /\ task' = [d \in Doc |-> IF d \in current THEN "done" ELSE "asked"]
  /\ cleared' = cleared \cup {run}
  /\ UNCHANGED <<head, run, revision, attempt, current, result, notion>>
PreflightFailed ==
  /\ phase = "preflight" /\ Settled
  /\ \E d \in Doc : task[d] = "failed"
  /\ phase' = "idle"
  /\ result' = "preflight failed"
  /\ UNCHANGED <<head, run, revision, requests, current, notion, cleared>>
Finish ==
  /\ phase = "update" /\ Settled
  /\ phase' = "idle"
  /\ result' = IF \A d \in Doc : task[d] = "done" THEN "published" ELSE "partial"
  /\ UNCHANGED <<head, run, revision, requests, current, notion, cleared>>

(* The job is killed; requests that are under way stay with Notion.        *)
Kill ==
  /\ phase # "idle"
  /\ phase' = "idle"
  /\ result' = "killed"
  /\ LET sent == {d \in Doc : phase = "update" /\ task[d] = "asked"} IN
       /\ stray' = stray \cup {<<run, d, attempt[d]>> : d \in sent}
       /\ gaveUp' = gaveUp \cup {<<run, d>> : d \in sent}
  /\ UNCHANGED <<head, run, revision, requests, current, page, cleared>>

(* Notion performs a write that was given up.                              *)
PerformLate(r, d, a) ==
  /\ <<r, d, a>> \in stray
  /\ page' = [page EXCEPT ![d] = r]
  /\ stray' = stray \ {<<r, d, a>>}
  /\ UNCHANGED <<head, phase, run, revision, requests, current, result, gaveUp, cleared>>

Next ==
  \/ Push
  \/ \E v \in Revision : Begin(v)
  \/ \E d \in Doc : Request(d)
  \/ Preflighted \/ PreflightFailed \/ Finish \/ Kill
  \/ \E r \in Run, d \in Doc, a \in Attempt : PerformLate(r, d, a)

Spec == Init /\ [][Next]_vars

(* Every attempt ends, within the 30 seconds of its AbortSignal, and the   *)
(* script goes on when its requests have settled.                          *)
FairSpec ==
  /\ Spec
  /\ \A d \in Doc : WF_vars(Request(d))
  /\ WF_vars(Preflighted) /\ WF_vars(PreflightFailed) /\ WF_vars(Finish)

-----------------------------------------------------------------------------
(* Every variable keeps its type; no request is sent more than             *)
(* MAX_ATTEMPTS times.                                                     *)
TypeOK ==
  /\ head \in Revision
  /\ phase \in {"idle", "preflight", "update"}
  /\ run \in 0..MaxRun
  /\ revision \in [Run -> Revision]
  /\ task \in [Doc -> {"asked", "written", "done", "failed"}]
  /\ attempt \in [Doc -> Attempt]
  /\ current \subseteq Doc
  /\ result \in {"none", "preflight failed", "partial", "published", "killed"}
  /\ page \in [Doc -> 0..MaxRun]
  /\ stray \subseteq Run \X Doc \X Attempt
  /\ gaveUp \subseteq Run \X Doc
  /\ cleared \subseteq Run

(* A run that could not read every page has written none, and will not     *)
(* later (docs/Project_Docs_Operations.md:88).                             *)
WrittenIfCleared == \A d \in Doc : page[d] # 0 => page[d] \in cleared

(* A document that a run reports as synced or already current is on its    *)
(* page in the revision of the run, also after lost answers, retries and   *)
(* late writes, unless a run of another revision gave a write of it up.    *)
ReportedShown ==
  phase = "idle" /\ result \in {"published", "partial"} =>
    \A d \in Doc :
      \/ task[d] # "done"
      \/ Shows(d, revision[run])
      \/ \E r \in Run : <<r, d>> \in gaveUp /\ revision[r] # revision[run]

(* A run comes to its end, however Notion answers, also if nobody kills    *)
(* it.                                                                     *)
RunEnds == phase # "idle" ~> phase = "idle"
=============================================================================
