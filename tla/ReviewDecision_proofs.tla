------------------------ MODULE ReviewDecision_proofs ------------------------
(***************************************************************************)
(* Theorems about ReviewDecision, for any number of summaries and reviews, *)
(* with or without deaths.                                                 *)
(***************************************************************************)
EXTENDS ReviewDecision, TLAPS

-----------------------------------------------------------------------------
(* The inductive invariant.                                                *)

\* One worker at a time has the interview, and the revision it took is the next.
RunsInv ==
  /\ \A r \in DOMAIN runs : runs[r].phase # "DONE" => runs[r].status = "PROCESSING"
  /\ \A r \in DOMAIN runs : runs[r].phase = "CHECKED" => runs[r].revision = Len(summaries) + 1
  /\ \A r, q \in DOMAIN runs :
       runs[r].phase \in {"LOCKED", "CHECKED"} /\ runs[q].phase \in {"LOCKED", "CHECKED"} => r = q

\* Summaries and succeeded runs, one to one.
SummariesInv ==
  /\ \A n \in DOMAIN summaries : runs[summaries[n].run].status = "SUCCEEDED"
  /\ \A n, m \in DOMAIN summaries : summaries[n].run = summaries[m].run => n = m
  /\ \A r \in DOMAIN runs :
       runs[r].status = "SUCCEEDED" => \E n \in DOMAIN summaries : summaries[n].run = r

\* What a decision has checked under the application's lock stays so.
DecidingInv ==
  deciding # None =>
    decision = None /\ application.status = "UNDER_REVIEW" /\ interview # "IN_PROGRESS"

\* The decision waited for the interview, and whoever has it later sees the decision.
ClosedInv ==
  decision # None /\ ~application.deleted => \A r \in DOMAIN runs : runs[r].phase # "CHECKED"

Inv ==
  /\ TypeInvariant /\ RevisionsInOrder /\ DecisionIsTheStatus
  /\ RunsInv /\ SummariesInv /\ DecidingInv /\ ClosedInv

-----------------------------------------------------------------------------
(* The application, its interview and what HR has read.                    *)

\* What the types say of the rows.
LEMMA Rows ==
  ASSUME TypeInvariant
  PROVE  /\ application.version \in Nat /\ application.deleted \in BOOLEAN
         /\ application = [status |-> application.status, version |-> application.version,
                           deleted |-> application.deleted]
         /\ DOMAIN runs = 1 .. Len(runs) /\ Len(runs) \in Nat
         /\ \A r \in DOMAIN runs : runs[r] \in Run
         /\ DOMAIN summaries = 1 .. Len(summaries) /\ Len(summaries) \in Nat
         /\ \A n \in DOMAIN summaries :
              summaries[n] \in [revision : Nat, run : DOMAIN runs] /\ summaries[n].run \in DOMAIN runs
         /\ reviews \in Nat /\ reviewing \in Nat /\ MaxReviews \in Nat
         /\ reviews + reviewing <= MaxReviews
<1>1. runs \in Seq(Run) /\ summaries \in Seq([revision : Nat, run : DOMAIN runs])
  BY DEF TypeInvariant
<1>2. /\ \A r \in DOMAIN runs : runs[r] \in Run
      /\ \A n \in DOMAIN summaries :
           summaries[n] \in [revision : Nat, run : DOMAIN runs] /\ summaries[n].run \in DOMAIN runs
  <2>1. \A r \in DOMAIN runs : runs[r] \in Run
    BY <1>1
  <2> DEFINE Summary == [revision : Nat, run : DOMAIN runs]
  <2>2. \A summary \in Summary : summary.run \in DOMAIN runs
    OBVIOUS
  <2>3. summaries \in Seq(Summary)
    BY <1>1
  <2> HIDE DEF Summary
  <2>4. \A n \in DOMAIN summaries : summaries[n] \in Summary
    BY <2>3
  <2> QED BY <2>1, <2>2, <2>4 DEF Summary
<1>3. reviews \in Nat /\ reviewing \in Nat /\ MaxReviews \in Nat /\ reviews + reviewing <= MaxReviews
  BY ConstantsAssumption DEF TypeInvariant
<1> QED BY <1>1, <1>2, <1>3 DEF TypeInvariant

\* The row of the application goes on while nobody decides it.
LEMMA ApplicationMovesKeepsInv ==
  ASSUME Inv, EvaluationsOnly, deciding = None,
         application' \in [status : {"INTERVIEWING", "UNDER_REVIEW"} \cup Terminal,
                           version : Nat, deleted : BOOLEAN],
         application'.version >= application.version,
         application.deleted => application'.deleted,
         interview' \in {"IN_PROGRESS", "COMPLETED", "EXPIRED", "CANCELLED"},
         interview' # interview => interview' # "IN_PROGRESS",
         IF application.status \in Outcomes THEN application'.status = application.status
                                            ELSE application'.status \notin Outcomes
  PROVE  Inv'
<1> USE DEF Inv
<1>1. UNCHANGED <<runs, summaries, reviews, reviewing, seen, deciding, decision>>
  BY DEF EvaluationsOnly
<1>2. seen' \in [version : 1 .. application'.version, reviews : 0 .. reviews']
  <2>1. seen \in [version : 1 .. application.version, reviews : 0 .. reviews]
    BY DEF TypeInvariant
  <2>2. 1 .. application.version \subseteq 1 .. application'.version
    BY Rows
  <2> QED BY <1>1, <2>1, <2>2
<1>3. TypeInvariant'
  BY <1>1, <1>2 DEF TypeInvariant, Run
<1>4. RevisionsInOrder' /\ RunsInv' /\ SummariesInv' /\ DecidingInv'
  BY <1>1 DEF RevisionsInOrder, RunsInv, SummariesInv, DecidingInv
<1>5. DecisionIsTheStatus' /\ ClosedInv'
  BY <1>1, Rows DEF DecisionIsTheStatus, ClosedInv
<1> QED BY <1>3, <1>4, <1>5

\* The status goes on to one that is no decision, the version by one.
LEMMA MoveOnMoves ==
  ASSUME TypeInvariant, NEW status \in {"INTERVIEWING", "UNDER_REVIEW"} \cup Terminal,
         MoveOn(status)
  PROVE  /\ application' \in [status : {"INTERVIEWING", "UNDER_REVIEW"} \cup Terminal,
                              version : Nat, deleted : BOOLEAN]
         /\ application'.status = status /\ application'.deleted = application.deleted
         /\ application'.version = application.version + 1
<1>1. /\ application \in [status : {"INTERVIEWING", "UNDER_REVIEW"} \cup Terminal,
                         version : Nat, deleted : BOOLEAN]
      /\ application.version + 1 \in Nat
  BY Rows DEF TypeInvariant
<1>2. application' = [application EXCEPT !.status = status, !.version = application.version + 1]
  BY DEF MoveOn
<1> QED BY <1>1, <1>2

LEMMA ApplicationStepsKeepInv ==
  ASSUME Inv, SessionEnds \/ UpdateNotes \/ Withdraw \/ Remove
  PROVE  Inv'
<1> USE DEF Inv
<1> DEFINE Type == [status : {"INTERVIEWING", "UNDER_REVIEW"} \cup Terminal,
                    version : Nat, deleted : BOOLEAN]
<1>1. application \in Type /\ application.version \in Nat
  BY Rows DEF TypeInvariant
<1>2. CASE SessionEnds
  <2>1. deciding = None /\ EvaluationsOnly /\ application.status = "INTERVIEWING"
        /\ interview' \in {"COMPLETED", "EXPIRED", "CANCELLED"}
    BY <1>2 DEF SessionEnds, DecidingInv
  <2>2. CASE application' = application
    BY <1>1, <2>1, <2>2, ApplicationMovesKeepsInv DEF Outcomes
  <2>3. CASE MoveOn("UNDER_REVIEW")
    BY <1>1, <2>1, <2>3, MoveOnMoves, ApplicationMovesKeepsInv DEF Outcomes
  <2> QED BY <1>2, <2>2, <2>3 DEF SessionEnds
<1>3. CASE UpdateNotes
  <2>1. /\ deciding = None /\ EvaluationsOnly /\ MoveOn(application.status)
        /\ application.status \notin Outcomes /\ interview' = interview
    BY <1>3 DEF UpdateNotes, ApplicationUnlocked, Terminal
  <2>2. application.status \in {"INTERVIEWING", "UNDER_REVIEW"} \cup Terminal
    BY <1>1
  <2>3. /\ application' \in Type /\ application'.status = application.status
        /\ application'.deleted = application.deleted
        /\ application'.version = application.version + 1
    BY <2>1, <2>2, MoveOnMoves
  <2> QED BY <1>1, <2>1, <2>3, ApplicationMovesKeepsInv DEF TypeInvariant
<1>4. CASE Withdraw
  <2>1. /\ deciding = None /\ EvaluationsOnly /\ MoveOn("WITHDRAWN")
        /\ application.status \notin Outcomes
        /\ interview' = IF interview = "IN_PROGRESS" THEN "CANCELLED" ELSE interview
    BY <1>4 DEF Withdraw, ApplicationUnlocked, Terminal
  <2>2. interview' \in {"IN_PROGRESS", "COMPLETED", "EXPIRED", "CANCELLED"}
        /\ (interview' # interview => interview' # "IN_PROGRESS")
    BY <2>1 DEF TypeInvariant
  <2> QED BY <1>1, <2>1, <2>2, MoveOnMoves, ApplicationMovesKeepsInv DEF Terminal, Outcomes
<1>5. CASE Remove
  <2>1. /\ deciding = None /\ EvaluationsOnly /\ application' = [application EXCEPT !.deleted = TRUE]
        /\ interview' = interview
    BY <1>5 DEF Remove, ApplicationUnlocked
  <2>2. /\ application' \in Type /\ application'.version = application.version
        /\ application'.status = application.status /\ application'.deleted
    BY <1>1, <2>1
  <2> QED BY <1>1, <2>1, <2>2, ApplicationMovesKeepsInv DEF TypeInvariant
<1> QED BY <1>2, <1>3, <1>4, <1>5

-----------------------------------------------------------------------------
(* Summaries.                                                              *)

\* A worker whose run is not through goes on; only it changes.
LEMMA WorkerStepKeepsInv ==
  ASSUME Inv, RunsOnly, NEW r \in DOMAIN runs, NEW q \in Run, runs' = [runs EXCEPT ![r] = q],
         runs[r].phase # "DONE", q.status # "SUCCEEDED",
         q.phase # "DONE" => q.status = "PROCESSING",
         q.phase \in {"LOCKED", "CHECKED"} =>
           \A p \in DOMAIN runs \ {r} : runs[p].phase \notin {"LOCKED", "CHECKED"},
         q.phase = "CHECKED" => /\ q.revision = Len(summaries) + 1
                                /\ decision = None \/ application.deleted
  PROVE  Inv'
<1> USE DEF Inv
<1>1. UNCHANGED <<application, interview, summaries, reviews, reviewing, seen, deciding, decision>>
  BY DEF RunsOnly
<1>2. /\ runs' \in Seq(Run) /\ DOMAIN runs' = DOMAIN runs /\ runs'[r] = q
      /\ \A p \in DOMAIN runs : p # r => runs'[p] = runs[p]
  BY DEF TypeInvariant
<1>3. TypeInvariant'
  BY <1>1, <1>2 DEF TypeInvariant, Run
<1>4. RevisionsInOrder' /\ DecisionIsTheStatus' /\ DecidingInv' /\ ClosedInv'
  BY <1>1, <1>2 DEF RevisionsInOrder, DecisionIsTheStatus, DecidingInv, ClosedInv
<1>5. RunsInv'
  BY <1>1, <1>2 DEF RunsInv
<1>6. runs[r].status = "PROCESSING"
  BY DEF RunsInv
<1>7. SummariesInv'
  BY <1>1, <1>2, <1>6, Rows DEF SummariesInv
<1> QED BY <1>3, <1>4, <1>5, <1>7

LEMMA WorkersKeepInv ==
  ASSUME Inv, NEW r \in DOMAIN runs,
         AiAnswers(r) \/ Fail(r) \/ LockInterview(r) \/ Recheck(r) \/ WorkerDies(r)
  PROVE  Inv'
<1> USE DEF Inv
<1>1. runs[r] \in Run /\ DOMAIN runs = 1 .. Len(runs) /\ Len(summaries) + 1 \in Nat
  BY Rows
<1>2. runs[r].phase # "DONE" => runs[r].status = "PROCESSING"
  BY DEF RunsInv
<1>3. CASE AiAnswers(r)
  <2> DEFINE q == [runs[r] EXCEPT !.phase = "ANSWERED"]
  <2>1. RunsOnly /\ runs' = [runs EXCEPT ![r] = q] /\ runs[r].phase = "AI"
    BY <1>3 DEF AiAnswers
  <2>2. q \in Run /\ q.phase = "ANSWERED" /\ q.status = runs[r].status
    BY <1>1 DEF Run, Phases
  <2> HIDE DEF q
  <2> QED BY <1>2, <2>1, <2>2, WorkerStepKeepsInv
<1>4. CASE Fail(r)
  <2> DEFINE q == [runs[r] EXCEPT !.phase = "DONE", !.status = "FAILED", !.answer = "FAILED"]
  <2>1. RunsOnly /\ runs' = [runs EXCEPT ![r] = q] /\ runs[r].phase = "AI"
    BY <1>4, Zenon DEF Fail
  <2>2. q \in Run /\ q.phase = "DONE" /\ q.status = "FAILED"
    BY <1>1 DEF Run, Phases, Answers
  <2> HIDE DEF q
  <2> QED BY <1>2, <2>1, <2>2, WorkerStepKeepsInv
<1>5. CASE LockInterview(r)
  <2> DEFINE q == [runs[r] EXCEPT !.phase = "LOCKED"]
  <2>1. /\ RunsOnly /\ runs' = [runs EXCEPT ![r] = q] /\ runs[r].phase = "ANSWERED"
        /\ \A p \in DOMAIN runs : runs[p].phase \notin {"LOCKED", "CHECKED"}
    BY <1>5 DEF LockInterview, InterviewUnlocked
  <2>2. q \in Run /\ q.phase = "LOCKED" /\ q.status = runs[r].status
    BY <1>1 DEF Run, Phases
  <2> HIDE DEF q
  <2> QED BY <1>2, <2>1, <2>2, WorkerStepKeepsInv
<1>6. CASE Recheck(r)
  <2>1. RunsOnly /\ runs[r].phase = "LOCKED"
    BY <1>6 DEF Recheck
  <2>2. \A p \in DOMAIN runs \ {r} : runs[p].phase \notin {"LOCKED", "CHECKED"}
    BY <2>1 DEF RunsInv
  <2>3. CASE ~application.deleted /\ application.status \in Terminal
    <3> DEFINE q == [runs[r] EXCEPT !.phase = "DONE", !.answer = "TERMINAL"]
    <3>1. runs' = [runs EXCEPT ![r] = q]
      BY <1>6, <2>3 DEF Recheck
    <3>2. q \in Run /\ q.phase = "DONE" /\ q.status = runs[r].status
      BY <1>1 DEF Run, Phases, Answers
    <3> HIDE DEF q
    <3> QED BY <1>2, <2>1, <3>1, <3>2, WorkerStepKeepsInv
  <2>4. CASE ~(~application.deleted /\ application.status \in Terminal)
    <3> DEFINE q == [runs[r] EXCEPT !.phase = "CHECKED", !.revision = Len(summaries) + 1]
    <3>1. runs' = [runs EXCEPT ![r] = q]
      BY <1>6, <2>4 DEF Recheck
    <3>2. /\ q \in Run /\ q.phase = "CHECKED" /\ q.status = runs[r].status
          /\ q.revision = Len(summaries) + 1
      BY <1>1 DEF Run, Phases
    <3>3. decision = None \/ application.deleted
      BY <2>4 DEF DecisionIsTheStatus, Terminal
    <3> HIDE DEF q
    <3> QED BY <1>2, <2>1, <2>2, <3>1, <3>2, <3>3, WorkerStepKeepsInv
  <2> QED BY <2>3, <2>4
<1>7. CASE WorkerDies(r)
  <2> DEFINE q == [runs[r] EXCEPT !.phase = "DONE", !.answer = "LOST"]
  <2>1. RunsOnly /\ runs' = [runs EXCEPT ![r] = q] /\ runs[r].phase # "DONE"
    BY <1>7 DEF WorkerDies
  <2>2. q \in Run /\ q.phase = "DONE" /\ q.status = runs[r].status
    BY <1>1 DEF Run, Phases, Answers
  <2> HIDE DEF q
  <2> QED BY <1>2, <2>1, <2>2, WorkerStepKeepsInv
<1> QED BY <1>3, <1>4, <1>5, <1>6, <1>7

LEMMA BeginSummaryKeepsInv ==
  ASSUME Inv, BeginSummary
  PROVE  Inv'
<1> USE DEF Inv
<1> DEFINE new == [status |-> "PROCESSING", phase |-> "AI", revision |-> 0, answer |-> "NONE"]
           n == Len(runs) + 1
<1>1. /\ runs' = Append(runs, new)
      /\ UNCHANGED <<application, interview, summaries, reviews, reviewing, seen, deciding, decision>>
  BY DEF BeginSummary, RunsOnly
<1>2. new \in Run /\ new.status = "PROCESSING" /\ new.phase = "AI"
  BY DEF Run, Phases, Answers
<1> HIDE DEF new
<1>3. /\ runs' \in Seq(Run) /\ DOMAIN runs' = 1 .. n /\ runs'[n] = new
      /\ DOMAIN runs = 1 .. Len(runs) /\ Len(runs) \in Nat
      /\ \A r \in DOMAIN runs : runs'[r] = runs[r]
  BY <1>1, <1>2 DEF TypeInvariant
<1>4. summaries' \in Seq([revision : Nat, run : DOMAIN runs'])
  <2>1. [revision : Nat, run : DOMAIN runs] \subseteq [revision : Nat, run : DOMAIN runs']
    BY <1>3
  <2> DEFINE Summary == [revision : Nat, run : DOMAIN runs]
  <2>2. summaries \in Seq(Summary)
    BY DEF TypeInvariant
  <2> HIDE DEF Summary
  <2>3. \A T : Summary \subseteq T => summaries \in Seq(T)
    BY <2>2
  <2> QED BY <1>1, <2>1, <2>3 DEF Summary
<1>5. TypeInvariant'
  BY <1>1, <1>3, <1>4 DEF TypeInvariant
<1>6. RevisionsInOrder' /\ DecisionIsTheStatus' /\ DecidingInv'
  BY <1>1 DEF RevisionsInOrder, DecisionIsTheStatus, DecidingInv
<1>7. ClosedInv' /\ RunsInv'
  BY <1>1, <1>2, <1>3 DEF ClosedInv, RunsInv
<1>8. SummariesInv'
  BY <1>1, <1>2, <1>3, Rows DEF SummariesInv
<1> QED BY <1>5, <1>6, <1>7, <1>8

\* The summary and the success of its run are one commit.
LEMMA StoreSummaryKeepsInv ==
  ASSUME Inv, NEW r \in DOMAIN runs, StoreSummary(r)
  PROVE  Inv'
<1> USE DEF Inv
<1> DEFINE new == [revision |-> runs[r].revision, run |-> r]
           q == [runs[r] EXCEPT !.phase = "DONE", !.status = "SUCCEEDED", !.answer = "CREATED"]
           n == Len(summaries) + 1
<1>1. /\ runs[r].phase = "CHECKED" /\ summaries' = Append(summaries, new)
      /\ UNCHANGED <<application, interview, reviews, reviewing, seen, deciding, decision>>
  BY DEF StoreSummary
<1>2. runs' = [runs EXCEPT ![r] = q]
  BY Zenon DEF StoreSummary
<1>3. runs[r] \in Run /\ runs[r].revision = n /\ n \in Nat
  BY <1>1, Rows DEF RunsInv
<1>4. q \in Run /\ q.phase = "DONE" /\ q.status = "SUCCEEDED"
  BY <1>3 DEF Run, Phases, Answers
<1>5. new \in [revision : Nat, run : DOMAIN runs] /\ new.revision = n /\ new.run = r
  BY <1>3
<1> HIDE DEF new, q
<1>6. /\ runs' \in Seq(Run) /\ DOMAIN runs' = DOMAIN runs /\ runs'[r] = q
      /\ \A p \in DOMAIN runs : p # r => runs'[p] = runs[p]
  BY <1>2, <1>4 DEF TypeInvariant
<1> DEFINE Summary == [revision : Nat, run : DOMAIN runs]
<1>7. summaries \in Seq(Summary) /\ new \in Summary
  BY <1>5 DEF TypeInvariant
<1>8. summaries' \in Seq([revision : Nat, run : DOMAIN runs'])
  <2> HIDE DEF Summary
  <2>1. summaries' \in Seq(Summary)
    BY <1>1, <1>7
  <2> QED BY <1>6, <2>1 DEF Summary
<1>9. /\ DOMAIN summaries' = 1 .. n /\ Len(summaries') = n /\ summaries'[n] = new
      /\ DOMAIN summaries = 1 .. Len(summaries) /\ Len(summaries) \in Nat
      /\ \A m \in DOMAIN summaries : summaries'[m] = summaries[m]
  <2> HIDE DEF Summary
  <2> QED BY <1>1, <1>7
<1>10. TypeInvariant'
  BY <1>1, <1>6, <1>8 DEF TypeInvariant
<1>11. RevisionsInOrder'
  BY <1>5, <1>9 DEF RevisionsInOrder
<1>12. DecisionIsTheStatus' /\ DecidingInv' /\ ClosedInv'
  BY <1>1, <1>4, <1>6 DEF DecisionIsTheStatus, DecidingInv, ClosedInv
<1>13. RunsInv'
  BY <1>1, <1>4, <1>6 DEF RunsInv
<1>14. runs[r].status = "PROCESSING"
  BY <1>1 DEF RunsInv
<1>15. \A m \in DOMAIN summaries : summaries[m].run \in DOMAIN runs /\ summaries[m].run # r
  BY <1>14, Rows DEF SummariesInv
<1>16. SummariesInv'
  <2>1. \A m \in DOMAIN summaries' : runs'[summaries'[m].run].status = "SUCCEEDED"
    BY <1>3, <1>4, <1>5, <1>6, <1>9, <1>15 DEF SummariesInv
  <2>2. \A m, k \in DOMAIN summaries' : summaries'[m].run = summaries'[k].run => m = k
    BY <1>3, <1>5, <1>9, <1>15 DEF SummariesInv
  <2>3. ASSUME NEW p \in DOMAIN runs', runs'[p].status = "SUCCEEDED"
        PROVE  \E m \in DOMAIN summaries' : summaries'[m].run = p
    <3>1. CASE p = r
      BY <1>3, <1>5, <1>9, <3>1
    <3>2. CASE p # r
      <4>1. PICK m \in DOMAIN summaries : summaries[m].run = p
        BY <1>6, <2>3, <3>2 DEF SummariesInv
      <4>2. m \in DOMAIN summaries' /\ summaries'[m].run = p
        BY <1>9, <4>1
      <4> QED BY <4>2
    <3> QED BY <3>1, <3>2
  <2> QED BY <2>1, <2>2, <2>3 DEF SummariesInv
<1> QED BY <1>10, <1>11, <1>12, <1>13, <1>16

-----------------------------------------------------------------------------
(* Reviews, and what HR reads.                                             *)

LEMMA ReviewStepsKeepInv ==
  ASSUME Inv, BeginReview \/ EndReview \/ ReviewDies \/ HrReads
  PROVE  Inv'
<1> USE DEF Inv
<1>1. UNCHANGED <<application, interview, runs, summaries, deciding, decision>>
  BY DEF BeginReview, EndReview, ReviewDies, HrReads, ReviewsOnly
<1>2. /\ reviews' \in Nat /\ reviewing' \in Nat /\ reviews' + reviewing' <= MaxReviews
      /\ reviews <= reviews'
  BY Rows DEF BeginReview, EndReview, ReviewDies, HrReads, ReviewsOnly
<1>3. reviews' \in 0 .. MaxReviews /\ reviewing' \in 0 .. MaxReviews - reviews'
  BY <1>2, Rows
<1>4. seen' \in [version : 1 .. application.version, reviews : 0 .. reviews']
  <2>1. seen \in [version : 1 .. application.version, reviews : 0 .. reviews]
    BY DEF TypeInvariant
  <2>2. CASE HrReads
    <3>1. seen.version \in 1 .. application.version
      BY <2>1
    <3>2. application.version \in 1 .. application.version
      BY <3>1, Rows
    <3>3. seen' = [version |-> application.version, reviews |-> reviews] /\ reviews' = reviews
      BY <2>2 DEF HrReads
    <3> QED BY <3>2, <3>3, Rows
  <2>3. CASE seen' = seen
    <3>1. 0 .. reviews \subseteq 0 .. reviews'
      BY <1>2, Rows
    <3> QED BY <2>1, <2>3, <3>1
  <2> QED BY <2>2, <2>3 DEF BeginReview, EndReview, ReviewDies, ReviewsOnly
<1>5. \A d \in {deciding', decision'} : d = None \/ d \in [outcome : Outcomes, review : 1 .. reviews']
  <2>1. \A d \in {deciding, decision} : d = None \/ d \in [outcome : Outcomes, review : 1 .. reviews]
    BY DEF TypeInvariant
  <2>2. 1 .. reviews \subseteq 1 .. reviews'
    BY <1>2, Rows
  <2>3. [outcome : Outcomes, review : 1 .. reviews] \subseteq [outcome : Outcomes, review : 1 .. reviews']
    BY <2>2
  <2> QED BY <1>1, <2>1, <2>3
<1>6. TypeInvariant'
  BY <1>1, <1>3, <1>4, <1>5 DEF TypeInvariant, Run
<1>7. RevisionsInOrder' /\ DecisionIsTheStatus' /\ RunsInv' /\ SummariesInv' /\ DecidingInv' /\ ClosedInv'
  BY <1>1 DEF RevisionsInOrder, DecisionIsTheStatus, RunsInv, SummariesInv, DecidingInv, ClosedInv
<1> QED BY <1>6, <1>7

-----------------------------------------------------------------------------
(* The decision.                                                           *)

LEMMA BeginDecideKeepsInv ==
  ASSUME Inv, NEW outcome \in Outcomes, NEW review \in 1 .. reviews, BeginDecide(outcome, review)
  PROVE  Inv'
<1> USE DEF Inv
<1>1. /\ UNCHANGED <<application, interview, runs, summaries, reviews, reviewing, seen, decision>>
      /\ deciding' \in [outcome : Outcomes, review : 1 .. reviews]
      /\ decision = None /\ application.status = "UNDER_REVIEW" /\ interview # "IN_PROGRESS"
  BY DEF BeginDecide
<1>2. TypeInvariant'
  BY <1>1 DEF TypeInvariant, Run
<1>3. RevisionsInOrder' /\ DecisionIsTheStatus' /\ RunsInv' /\ SummariesInv' /\ DecidingInv' /\ ClosedInv'
  BY <1>1 DEF RevisionsInOrder, DecisionIsTheStatus, RunsInv, SummariesInv, DecidingInv, ClosedInv
<1> QED BY <1>2, <1>3

LEMMA DecisionDiesKeepsInv ==
  ASSUME Inv, DecisionDies
  PROVE  Inv'
<1> USE DEF Inv
<1>1. /\ UNCHANGED <<application, interview, runs, summaries, reviews, reviewing, seen, decision>>
      /\ deciding' = None
  BY DEF DecisionDies
<1>2. TypeInvariant'
  BY <1>1 DEF TypeInvariant, Run
<1>3. RevisionsInOrder' /\ DecisionIsTheStatus' /\ RunsInv' /\ SummariesInv' /\ DecidingInv' /\ ClosedInv'
  BY <1>1 DEF RevisionsInOrder, DecisionIsTheStatus, RunsInv, SummariesInv, DecidingInv, ClosedInv
<1> QED BY <1>2, <1>3

\* The insert waits for the interview, so no summary is about to be stored.
LEMMA EndDecideKeepsInv ==
  ASSUME Inv, EndDecide
  PROVE  Inv'
<1> USE DEF Inv
<1>1. /\ deciding # None /\ InterviewUnlocked /\ decision' = deciding /\ deciding' = None
      /\ MoveOn(deciding.outcome)
      /\ UNCHANGED <<interview, runs, summaries, reviews, reviewing, seen>>
  BY DEF EndDecide
<1>2. deciding \in [outcome : Outcomes, review : 1 .. reviews] /\ deciding.outcome \in Outcomes
  BY <1>1 DEF TypeInvariant
<1>3. /\ application' \in [status : {"INTERVIEWING", "UNDER_REVIEW"} \cup Terminal,
                           version : Nat, deleted : BOOLEAN]
      /\ application'.status = deciding.outcome
      /\ application'.version = application.version + 1
  BY <1>1, <1>2, MoveOnMoves DEF Terminal
<1>4. seen' \in [version : 1 .. application'.version, reviews : 0 .. reviews']
  <2>1. seen \in [version : 1 .. application.version, reviews : 0 .. reviews]
    BY DEF TypeInvariant
  <2>2. 1 .. application.version \subseteq 1 .. application'.version
    BY <1>3, Rows
  <2> QED BY <1>1, <2>1, <2>2
<1>5. \A d \in {deciding', decision'} : d = None \/ d \in [outcome : Outcomes, review : 1 .. reviews']
  BY <1>1, <1>2
<1>6. TypeInvariant'
  BY <1>1, <1>3, <1>4, <1>5 DEF TypeInvariant, Run
<1>7. RevisionsInOrder' /\ RunsInv' /\ SummariesInv' /\ DecidingInv'
  BY <1>1 DEF RevisionsInOrder, RunsInv, SummariesInv, DecidingInv
<1>8. DecisionIsTheStatus'
  BY <1>1, <1>2, <1>3 DEF DecisionIsTheStatus, DecidingInv
<1>9. ClosedInv'
  BY <1>1 DEF ClosedInv, InterviewUnlocked
<1> QED BY <1>6, <1>7, <1>8, <1>9

-----------------------------------------------------------------------------
(* The theorems.                                                           *)

LEMMA InitInv == Init => Inv
<1> SUFFICES ASSUME Init PROVE Inv
  OBVIOUS
<1>1. TypeInvariant
  BY ConstantsAssumption DEF Init, TypeInvariant
<1>2. DOMAIN runs = {} /\ DOMAIN summaries = {} /\ deciding = None /\ decision = None
      /\ application.status = "INTERVIEWING"
  BY DEF Init
<1>3. RevisionsInOrder /\ RunsInv /\ SummariesInv /\ DecidingInv /\ ClosedInv
  BY <1>2 DEF RevisionsInOrder, RunsInv, SummariesInv, DecidingInv, ClosedInv
<1>4. DecisionIsTheStatus
  BY <1>2 DEF DecisionIsTheStatus, Outcomes
<1> QED BY <1>1, <1>3, <1>4 DEF Inv

LEMMA NextKeepsInv == Inv /\ [Next]_vars => Inv'
<1> SUFFICES ASSUME Inv, [Next]_vars PROVE Inv'
  OBVIOUS
<1>1. ASSUME NEW r \in DOMAIN runs, Worker(r) \/ WorkerDies(r) PROVE Inv'
  BY <1>1, WorkersKeepInv, StoreSummaryKeepsInv DEF Worker
<1>2. CASE UNCHANGED vars
  <2>1. UNCHANGED <<application, interview, runs, summaries, reviews, reviewing, seen, deciding, decision>>
    BY <1>2 DEF vars
  <2>2. TypeInvariant'
    BY <2>1 DEF Inv, TypeInvariant, Run
  <2>3. RevisionsInOrder' /\ DecisionIsTheStatus' /\ RunsInv' /\ SummariesInv' /\ DecidingInv' /\ ClosedInv'
    BY <2>1 DEF Inv, RevisionsInOrder, DecisionIsTheStatus, RunsInv, SummariesInv, DecidingInv, ClosedInv
  <2> QED BY <2>2, <2>3 DEF Inv
<1> QED BY <1>1, <1>2, ApplicationStepsKeepInv, BeginSummaryKeepsInv, ReviewStepsKeepInv,
           BeginDecideKeepsInv, DecisionDiesKeepsInv, EndDecideKeepsInv DEF Next

\* The invariant, for the fair specification too, which implies Spec.
THEOREM InvariantHolds == Spec => []Inv
BY InitInv, NextKeepsInv, PTL DEF Spec

\* Summaries, runs, the decision, the status and the interview agree.
THEOREM FilesAlwaysConsistent == Spec => []FilesConsistent
<1>1. ASSUME Inv PROVE SummaryPerSucceededRun
  <2> SUFFICES ASSUME NEW r \in DOMAIN runs
               PROVE  LET ofRun == {n \in DOMAIN summaries : summaries[n].run = r} IN
                      IF runs[r].status = "SUCCEEDED" THEN \E n \in ofRun : ofRun = {n}
                                                      ELSE ofRun = {}
    BY DEF SummaryPerSucceededRun
  <2> DEFINE ofRun == {n \in DOMAIN summaries : summaries[n].run = r}
  <2>1. CASE runs[r].status = "SUCCEEDED"
    <3>1. PICK n \in DOMAIN summaries : summaries[n].run = r
      BY <1>1, <2>1 DEF Inv, SummariesInv
    <3>2. ofRun = {n} /\ n \in ofRun
      BY <1>1, <3>1 DEF Inv, SummariesInv
    <3> QED BY <2>1, <3>2
  <2>2. CASE runs[r].status # "SUCCEEDED"
    BY <1>1, <2>2 DEF Inv, SummariesInv
  <2> QED BY <2>1, <2>2
<1>2. Inv => FilesConsistent
  BY <1>1 DEF Inv, FilesConsistent
<1> QED BY <1>2, InvariantHolds, PTL

\* What joins the files of a decided application was let in before.
THEOREM FilesAlwaysClosedByDecision == Spec => FilesClosedByDecision
<1>1. Inv /\ [Next]_vars =>
        (decision # None /\ ~application.deleted => summaries' = summaries)
  <2> SUFFICES ASSUME Inv, [Next]_vars, decision # None, ~application.deleted
               PROVE  summaries' = summaries
    OBVIOUS
  <2>1. \A r \in DOMAIN runs : ~StoreSummary(r)
    BY DEF Inv, ClosedInv, StoreSummary
  <2> QED BY <2>1 DEF Next, vars, SessionEnds, UpdateNotes, Withdraw, Remove, HrReads,
       EvaluationsOnly, BeginSummary, Worker, WorkerDies, AiAnswers, Fail, LockInterview, Recheck,
       RunsOnly, BeginReview, EndReview, ReviewDies, ReviewsOnly, BeginDecide, EndDecide, DecisionDies
<1>2. Inv /\ [Next]_vars => (decision # None => reviews' + reviewing' <= reviews + reviewing)
  <2> SUFFICES ASSUME Inv, [Next]_vars, decision # None
               PROVE  reviews' + reviewing' <= reviews + reviewing
    OBVIOUS
  <2>1. reviews \in Nat /\ reviewing \in Nat
    BY Rows DEF Inv
  <2>2. application.status # "UNDER_REVIEW"
    BY DEF Inv, DecisionIsTheStatus, Outcomes
  <2>3. ~BeginReview
    BY <2>2 DEF BeginReview
  <2>4. CASE EndReview \/ ReviewDies
    BY <2>1, <2>4 DEF EndReview, ReviewDies
  <2>5. UNCHANGED <<reviews, reviewing>> \/ EndReview \/ ReviewDies
    BY <2>3 DEF Next, vars, SessionEnds, UpdateNotes, Withdraw, Remove, HrReads,
       EvaluationsOnly, BeginSummary, Worker, WorkerDies, AiAnswers, Fail, LockInterview, Recheck,
       StoreSummary, RunsOnly, BeginDecide, EndDecide, DecisionDies
  <2> QED BY <2>1, <2>4, <2>5
<1>3. Spec => NoSummaryAfterDecision
  BY <1>1, InvariantHolds, PTL DEF Spec, NoSummaryAfterDecision
<1>4. Spec => NoReviewBegunAfterDecision
  BY <1>2, InvariantHolds, PTL DEF Spec, NoReviewBegunAfterDecision
<1> QED BY <1>3, <1>4 DEF FilesClosedByDecision
==============================================================================
