-------------------------- MODULE NotionSyncProofs --------------------------
(***************************************************************************)
(* Theorems about NotionSync for any documents, revisions, runs and        *)
(* attempts.                                                               *)
(***************************************************************************)
EXTENDS NotionSync, TLAPS

(* Only a run whose preflight was in order has a write with Notion, and    *)
(* only a started one.                                                     *)
WritersOK ==
  /\ \A d \in Doc : page[d] # 0 => page[d] \in cleared /\ page[d] <= run
  /\ \A s \in stray : s[1] \in cleared /\ s[1] <= run /\ <<s[1], s[2]>> \in gaveUp
  /\ \A p \in gaveUp : p[1] <= run
  /\ phase = "update" => run \in cleared
  /\ phase # "idle" => run # 0

(* No write of another revision than the run's is astray.                  *)
Alone(d) == \A r \in Run : <<r, d>> \in gaveUp => revision[r] = revision[run]

(* What the run takes for shown is shown.                                  *)
ShownOK ==
  \A d \in Doc : Alone(d) =>
    /\ phase = "preflight" /\ d \in current => Shows(d, revision[run])
    /\ phase = "update" /\ task[d] \in {"written", "done"} => Shows(d, revision[run])
    /\ phase = "idle" /\ result \in {"published", "partial"} /\ task[d] = "done" =>
         Shows(d, revision[run])

IInv == TypeOK /\ WritersOK /\ ShownOK

LEMMA Numbers ==
  /\ 0..MaxRun \subseteq Nat /\ Run \subseteq 0..MaxRun /\ 0 \notin Run
  /\ \A n \in 0..MaxRun : n # 0 => n \in Run
  /\ \A n \in 0..MaxRun : n < MaxRun => n + 1 \in Run
  /\ \A n \in Revision : n < MaxRevision => n + 1 \in Revision
  BY NumberAssumption DEF Run, Revision

LEMMA Typed ==
  ASSUME IInv
  PROVE  /\ run \in 0..MaxRun /\ run \in Nat
         /\ page \in [Doc -> 0..MaxRun]
         /\ phase # "idle" => run \in Run
  <1>1. run \in 0..MaxRun /\ page \in [Doc -> 0..MaxRun]
    BY DEF IInv, TypeOK
  <1>2. phase # "idle" => run # 0
    BY DEF IInv, WritersOK
  <1>3. QED
    BY <1>1, <1>2, Numbers

LEMMA InitIInv == Init => IInv
  <1> SUFFICES ASSUME Init PROVE IInv
    OBVIOUS
  <1>1. 1 \in Revision /\ 1 \in Attempt /\ 0 \in 0..MaxRun
    BY NumberAssumption DEF Revision, Attempt
  <1>2. TypeOK
    BY <1>1 DEF Init, TypeOK
  <1>3. WritersOK /\ ShownOK
    BY DEF Init, WritersOK, ShownOK
  <1>4. QED
    BY <1>2, <1>3 DEF IInv

-----------------------------------------------------------------------------
(* A retry stays within MAX_ATTEMPTS.                                      *)
LEMMA RetryFacts ==
  ASSUME TypeOK, NEW d \in Doc, Retry(d)
  PROVE  /\ task' \in [Doc -> {"asked", "written", "done", "failed"}]
         /\ attempt' \in [Doc -> Attempt]
         /\ task'[d] \in {"asked", "failed"}
         /\ \A e \in Doc \ {d} : task'[e] = task[e]
  <1>1. \A n \in Attempt : n < MAX_ATTEMPTS => n + 1 \in Attempt
    BY NumberAssumption DEF Attempt
  <1>2. 1 \in Attempt
    BY NumberAssumption DEF Attempt
  <1>3. attempt \in [Doc -> Attempt] /\ attempt[d] \in Attempt
        /\ task \in [Doc -> {"asked", "written", "done", "failed"}]
    BY DEF TypeOK
  <1>4. CASE attempt[d] < MAX_ATTEMPTS
    BY <1>1, <1>3, <1>4 DEF Retry
  <1>5. CASE ~(attempt[d] < MAX_ATTEMPTS)
    BY <1>2, <1>3, <1>5 DEF Retry, End
  <1>6. QED
    BY <1>4, <1>5

LEMMA EndFacts ==
  ASSUME TypeOK, NEW d \in Doc, NEW how \in {"done", "failed"}, End(d, how)
  PROVE  /\ task' \in [Doc -> {"asked", "written", "done", "failed"}]
         /\ attempt' \in [Doc -> Attempt]
         /\ task'[d] = how
         /\ \A e \in Doc \ {d} : task'[e] = task[e]
  <1>1. 1 \in Attempt
    BY NumberAssumption DEF Attempt
  <1>2. QED
    BY <1>1 DEF End, TypeOK

(* A request that leaves Notion and the Map alone, and takes nothing for   *)
(* written that was not.                                                   *)
LEMMA Unwritten ==
  ASSUME IInv, NEW d \in Doc, TypeOK',
         phase # "idle",
         task'[d] \in {"asked", "failed"} \/ task[d] = "written",
         \A e \in Doc \ {d} : task'[e] = task[e],
         UNCHANGED <<current, notion>>, OthersKept
  PROVE  IInv'
  <1>1. WritersOK'
    BY DEF notion, OthersKept, IInv, WritersOK
  <1>2. ShownOK'
    BY DEF notion, OthersKept, IInv, ShownOK, Shows, Alone
  <1>3. QED
    BY <1>1, <1>2 DEF IInv

LEMMA RequestStep ==
  ASSUME IInv, NEW d \in Doc, Request(d) PROVE IInv'
  <1>0. TypeOK
    BY DEF IInv
  <1>1. CASE NotServed(d)
    <2>1. TypeOK'
      BY <1>0, <1>1, RetryFacts DEF NotServed, OthersKept, notion, TypeOK
    <2>2. QED
      BY <1>0, <1>1, <2>1, RetryFacts, Unwritten DEF NotServed, Running
  <1>2. CASE Refused(d)
    <2>1. TypeOK'
      BY <1>0, <1>2, EndFacts DEF Refused, OthersKept, notion, TypeOK
    <2>2. QED
      BY <1>0, <1>2, <2>1, EndFacts, Unwritten DEF Refused, Running
  <1>3. CASE AnswerLost(d)
    <2>1. TypeOK'
      BY <1>0, <1>3, RetryFacts DEF AnswerLost, OthersKept, notion, TypeOK
    <2>2. QED
      BY <1>0, <1>3, <2>1, RetryFacts, Unwritten DEF AnswerLost, Running
  <1>4. CASE \E how \in {"done", "failed"} : Answered(d, how)
    <2>1. TypeOK'
      BY <1>0, <1>4, EndFacts DEF Answered, OthersKept, notion, TypeOK
    <2>2. QED
      BY <1>0, <1>4, <2>1, EndFacts, Unwritten DEF Answered, Running
  <1>5. CASE Read(d)
    <2>1. /\ phase = "preflight" /\ current' \in {current, current \cup {d}}
          /\ d \in current' => d \in current \/ Shows(d, revision[run])
          /\ UNCHANGED <<page, stray, gaveUp, head, phase, run, revision,
                         result, cleared>>
      BY <1>5 DEF Read, AlreadyCurrent, OthersKept, notion
    <2>2. End(d, "done")
      BY <1>5 DEF Read
    <2>3. TypeOK'
      BY <1>0, <2>1, <2>2, EndFacts DEF TypeOK
    <2>4. WritersOK'
      BY <2>1 DEF IInv, WritersOK
    <2>5. ShownOK'
      BY <2>1 DEF IInv, ShownOK, Shows, Alone
    <2>6. QED
      BY <2>3, <2>4, <2>5 DEF IInv
  <1>6. CASE Write(d)
    <2>1. /\ phase = "update" /\ page' = [page EXCEPT ![d] = run]
          /\ task' = [task EXCEPT ![d] = "written"]
          /\ UNCHANGED <<attempt, current, stray, gaveUp, head, phase, run,
                         revision, result, cleared>>
      BY <1>6 DEF Write, OthersKept
    <2>2. TypeOK'
      BY <1>0, <2>1 DEF TypeOK
    <2>3. page \in [Doc -> 0..MaxRun] /\ run \in Nat
      BY Typed
    <2>4. WritersOK'
      BY <2>1, <2>3 DEF IInv, WritersOK
    <2>5. ShownOK'
      BY <1>0, <2>1, <2>3 DEF IInv, TypeOK, WritersOK, ShownOK, Shows, Alone
    <2>6. QED
      BY <2>2, <2>4, <2>5 DEF IInv
  <1>7. CASE TimesOut(d)
    <2>1. /\ phase = "update" /\ Retry(d)
          /\ stray' = stray \cup {<<run, d, attempt[d]>>}
          /\ gaveUp' = gaveUp \cup {<<run, d>>}
          /\ UNCHANGED <<current, page, head, phase, run, revision, result, cleared>>
      BY <1>7 DEF TimesOut, OthersKept
    <2>2. run \in Run /\ run \in Nat /\ run \in cleared /\ attempt[d] \in Attempt
      BY <1>0, <2>1, Typed DEF TypeOK, IInv, WritersOK
    <2>3. TypeOK'
      <3>1. /\ task' \in [Doc -> {"asked", "written", "done", "failed"}]
            /\ attempt' \in [Doc -> Attempt]
        BY <1>0, <2>1, RetryFacts
      <3>2. stray' \subseteq Run \X Doc \X Attempt /\ gaveUp' \subseteq Run \X Doc
        <4>1. stray \subseteq Run \X Doc \X Attempt /\ gaveUp \subseteq Run \X Doc
          BY <1>0 DEF TypeOK
        <4>2. <<run, d, attempt[d]>> \in Run \X Doc \X Attempt
          BY <2>2
        <4>3. <<run, d>> \in Run \X Doc
          BY <2>2
        <4>4. QED
          BY <2>1, <4>1, <4>2, <4>3
      <3>3. QED
        BY <1>0, <2>1, <3>1, <3>2 DEF TypeOK
    <2>4. WritersOK'
      BY <2>1, <2>2 DEF IInv, WritersOK
    <2>5. \A e \in Doc : Alone(e)' => Alone(e)
      BY <2>1 DEF Alone
    <2>6. ShownOK'
      BY <1>0, <2>1, <2>5, RetryFacts DEF IInv, ShownOK, Shows
    <2>7. QED
      BY <2>3, <2>4, <2>6 DEF IInv
  <1>8. QED
    BY <1>1, <1>2, <1>3, <1>4, <1>5, <1>6, <1>7 DEF Request

LEMMA BeginStep ==
  ASSUME IInv, NEW v \in Revision, Begin(v) PROVE IInv'
  <1>1. /\ phase' = "preflight" /\ run' = run + 1 /\ run < MaxRun
        /\ revision' = [revision EXCEPT ![run + 1] = v]
        /\ task' = [d \in Doc |-> "asked"] /\ attempt' = [d \in Doc |-> 1]
        /\ current' = {} /\ result' = "none"
        /\ UNCHANGED <<head, page, stray, gaveUp, cleared>>
    BY DEF Begin, notion
  <1>2. run \in Nat /\ run' \in 0..MaxRun /\ run' # 0
    BY <1>1, Typed, Numbers
  <1>3. 1 \in Attempt
    BY NumberAssumption DEF Attempt
  <1>4. TypeOK'
    BY <1>1, <1>2, <1>3 DEF IInv, TypeOK
  <1>5. /\ \A d \in Doc : page[d] \in Nat
        /\ \A s \in stray : s[1] \in Nat
        /\ \A p \in gaveUp : p[1] \in Nat
    BY Numbers, Typed DEF IInv, TypeOK
  <1>6. \A n \in Nat : n <= run => n <= run'
    BY <1>1, <1>2
  <1>7. WritersOK'
    BY <1>1, <1>2, <1>5, <1>6 DEF IInv, WritersOK
  <1>8. ShownOK'
    BY <1>1 DEF ShownOK
  <1>9. QED
    BY <1>4, <1>7, <1>8 DEF IInv

LEMMA PreflightedStep == ASSUME IInv, Preflighted PROVE IInv'
  <1>1. /\ phase = "preflight" /\ phase' = "update"
        /\ task' = [d \in Doc |-> IF d \in current THEN "done" ELSE "asked"]
        /\ cleared' = cleared \cup {run}
        /\ UNCHANGED <<head, run, revision, attempt, current, result, page,
                       stray, gaveUp>>
    BY DEF Preflighted, notion
  <1>2. run \in Run
    BY <1>1, Typed
  <1>3. TypeOK'
    BY <1>1, <1>2 DEF IInv, TypeOK
  <1>4. WritersOK'
    BY <1>1 DEF IInv, WritersOK
  <1>5. ShownOK'
    BY <1>1 DEF IInv, ShownOK, Shows, Alone
  <1>6. QED
    BY <1>3, <1>4, <1>5 DEF IInv

LEMMA PreflightFailedStep == ASSUME IInv, PreflightFailed PROVE IInv'
  BY DEF PreflightFailed, requests, notion, IInv, TypeOK, WritersOK, ShownOK,
         Shows, Alone

LEMMA FinishStep == ASSUME IInv, Finish PROVE IInv'
  BY DEF Finish, requests, notion, IInv, TypeOK, WritersOK, ShownOK, Shows, Alone

LEMMA KillStep == ASSUME IInv, Kill PROVE IInv'
  <1> DEFINE sent == {d \in Doc : phase = "update" /\ task[d] = "asked"}
  <1>1. /\ phase # "idle" /\ phase' = "idle" /\ result' = "killed"
        /\ stray' = stray \cup {<<run, d, attempt[d]>> : d \in sent}
        /\ gaveUp' = gaveUp \cup {<<run, d>> : d \in sent}
        /\ UNCHANGED <<head, run, revision, task, attempt, current, page, cleared>>
    BY DEF Kill, requests
  <1>2. /\ run \in Run /\ run \in Nat
        /\ \A d \in sent : d \in Doc /\ attempt[d] \in Attempt /\ run \in cleared
    BY <1>1, Typed DEF IInv, TypeOK, WritersOK
  <1> HIDE DEF sent
  <1>3. TypeOK'
    <2>1. stray' \subseteq Run \X Doc \X Attempt /\ gaveUp' \subseteq Run \X Doc
      <3>1. stray \subseteq Run \X Doc \X Attempt /\ gaveUp \subseteq Run \X Doc
        BY DEF IInv, TypeOK
      <3>2. \A d \in sent : <<run, d, attempt[d]>> \in Run \X Doc \X Attempt
        BY <1>2
      <3>3. \A d \in sent : <<run, d>> \in Run \X Doc
        BY <1>2
      <3>4. QED
        BY <1>1, <3>1, <3>2, <3>3
    <2>2. QED
      BY <1>1, <2>1 DEF IInv, TypeOK
  <1>4. WritersOK'
    <2>1. \A s \in stray' : s \in stray \/ \E d \in sent : s = <<run, d, attempt[d]>>
      BY <1>1
    <2>2. \A p \in gaveUp' : p \in gaveUp \/ \E d \in sent : p = <<run, d>>
      BY <1>1
    <2>3. \A d \in sent : <<run, d>> \in gaveUp'
      BY <1>1
    <2>4. \A s \in stray' :
            s[1] \in cleared /\ s[1] <= run /\ <<s[1], s[2]>> \in gaveUp'
      <3> SUFFICES ASSUME NEW s \in stray'
                   PROVE  s[1] \in cleared /\ s[1] <= run /\ <<s[1], s[2]>> \in gaveUp'
        OBVIOUS
      <3>1. CASE s \in stray
        BY <1>1, <3>1 DEF IInv, WritersOK
      <3>2. CASE \E d \in sent : s = <<run, d, attempt[d]>>
        BY <1>2, <2>3, <3>2
      <3>3. QED
        BY <2>1, <3>1, <3>2
    <2>5. \A p \in gaveUp' : p[1] <= run
      BY <1>2, <2>2 DEF IInv, WritersOK
    <2>6. QED
      BY <1>1, <2>4, <2>5 DEF IInv, WritersOK
  <1>5. ShownOK'
    BY <1>1 DEF ShownOK
  <1>6. QED
    BY <1>3, <1>4, <1>5 DEF IInv

LEMMA PerformLateStep ==
  ASSUME IInv, NEW r \in Run, NEW d \in Doc, NEW a \in Attempt,
         PerformLate(r, d, a)
  PROVE  IInv'
  <1>1. /\ <<r, d, a>> \in stray /\ stray' = stray \ {<<r, d, a>>}
        /\ page' = [page EXCEPT ![d] = r]
        /\ UNCHANGED <<head, phase, run, revision, task, attempt, current,
                       result, gaveUp, cleared>>
    BY DEF PerformLate, requests
  <1>2. r \in cleared /\ r <= run /\ <<r, d>> \in gaveUp
    BY <1>1 DEF IInv, WritersOK
  <1>3. page \in [Doc -> 0..MaxRun] /\ r \in 0..MaxRun /\ r # 0
    BY Typed, Numbers
  <1>4. TypeOK'
    BY <1>1, <1>3 DEF IInv, TypeOK
  <1>5. WritersOK'
    BY <1>1, <1>2, <1>3 DEF IInv, WritersOK
  <1>6. \A e \in Doc : Alone(e)' => Alone(e)
    BY <1>1 DEF Alone
  <1>7. Alone(d) => Shows(d, revision[run])'
    BY <1>1, <1>2, <1>3 DEF Alone, Shows
  <1>8. \A e \in Doc \ {d} : Shows(e, revision[run]) => Shows(e, revision[run])'
    BY <1>1, <1>3 DEF Shows
  <1>9. ShownOK'
    BY <1>1, <1>6, <1>7, <1>8 DEF IInv, ShownOK
  <1>10. QED
    BY <1>4, <1>5, <1>9 DEF IInv

-----------------------------------------------------------------------------
LEMMA StepIInv == IInv /\ [Next]_vars => IInv'
  <1> SUFFICES ASSUME IInv, [Next]_vars PROVE IInv'
    OBVIOUS
  <1>1. CASE Push
    <2>1. head + 1 \in Revision
      BY <1>1, Numbers DEF Push, IInv, TypeOK
    <2>2. QED
      BY <1>1, <2>1 DEF Push, requests, notion, IInv, TypeOK, WritersOK,
                        ShownOK, Shows, Alone
  <1>2. CASE UNCHANGED vars
    BY <1>2 DEF vars, requests, notion, IInv, TypeOK, WritersOK, ShownOK,
                Shows, Alone
  <1>3. QED
    BY <1>1, <1>2, BeginStep, RequestStep, PreflightedStep, PreflightFailedStep,
       FinishStep, KillStep, PerformLateStep DEF Next

LEMMA Invariance == Spec => []IInv
  BY InitIInv, StepIInv, PTL DEF Spec

(* Every variable keeps its type, and no request exceeds MAX_ATTEMPTS.     *)
THEOREM TypeCorrect == Spec => []TypeOK
  BY Invariance, PTL DEF IInv

(* A failed preflight leaves every page as it was, for good.               *)
THEOREM NothingWrittenUncleared == Spec => []WrittenIfCleared
  <1>1. IInv => WrittenIfCleared
    BY DEF IInv, WritersOK, WrittenIfCleared
  <1>2. QED
    BY <1>1, Invariance, PTL

(* The report of a run is true of the pages, whatever was lost or late.    *)
THEOREM ReportsAreTrue == Spec => []ReportedShown
  <1>1. IInv => ReportedShown
    BY DEF IInv, ShownOK, Alone, ReportedShown
  <1>2. QED
    BY <1>1, Invariance, PTL
=============================================================================
