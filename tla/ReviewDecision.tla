--------------------------- MODULE ReviewDecision ---------------------------
(***************************************************************************)
(* What happens to an application after its interview: summaries by the    *)
(* AI, reviews by HR and the decision that cites one of them, while the    *)
(* application may be edited, withdrawn or removed.                        *)
(*                                                                         *)
(* Summaries and reviews lock the interview, a decision the application,   *)
(* and each reads the other's row without a lock.  They meet all the same: *)
(* application_decisions has a foreign key to interviews, so that the      *)
(* insert of a decision waits for whoever holds the row of the interview   *)
(* (FOR KEY SHARE against FOR UPDATE), and the other way round.            *)
(***************************************************************************)
EXTENDS Integers, Sequences

CONSTANTS
  MaxRuns,     \* bound on the AI runs
  MaxReviews,  \* bound on the reviews of HR, with those under way
  MaxVersion,  \* bound on the version of the application for edits
  MayDie       \* processes may die and transactions fail

ASSUME ConstantsAssumption ==
  /\ MaxRuns \in Nat /\ MaxReviews \in Nat /\ MaxVersion \in Nat
  /\ MayDie \in BOOLEAN

VARIABLES
  application,  \* the row of applications
  interview,    \* the status of its interview, which its session shares
  runs,         \* the rows of ai_runs, each with the worker it belongs to
  summaries,    \* the evaluations of type ai_summary
  reviews,      \* the number of evaluations of type hr_review, the last revision
  reviewing,    \* the number of createHrReview requests that have passed the checks
  seen,         \* what HR last read: the application's version and the reviews
  deciding,     \* the createDecision transaction under way, checks passed
  decision      \* the row of application_decisions

vars == <<application, interview, runs, summaries, reviews, reviewing, seen, deciding, decision>>

Outcomes == {"APPROVED", "REJECTED"}
Terminal == Outcomes \cup {"WITHDRAWN"}
None == [outcome |-> "NONE", review |-> 0]

\* Where the worker of a run is: with the model, waiting for the interview's
\* lock, before its recheck of the application, before its commit, or through.
Phases == {"AI", "ANSWERED", "LOCKED", "CHECKED", "DONE"}
Answers == {"NONE", "CREATED", "FAILED", "TERMINAL", "LOST"}
Run == [status : {"PROCESSING", "SUCCEEDED", "FAILED"}, phase : Phases,
        revision : Nat, answer : Answers]

TypeInvariant ==
  /\ application \in [status : {"INTERVIEWING", "UNDER_REVIEW"} \cup Terminal,
                      version : Nat, deleted : BOOLEAN]
  /\ interview \in {"IN_PROGRESS", "COMPLETED", "EXPIRED", "CANCELLED"}
  /\ runs \in Seq(Run)
  /\ summaries \in Seq([revision : Nat, run : DOMAIN runs])
  /\ reviews \in 0 .. MaxReviews
  /\ reviewing \in 0 .. MaxReviews - reviews
  /\ seen \in [version : 1 .. application.version, reviews : 0 .. reviews]
  /\ \A d \in {deciding, decision} : d = None \/ d \in [outcome : Outcomes, review : 1 .. reviews]

Init ==
  /\ application = [status |-> "INTERVIEWING", version |-> 1, deleted |-> FALSE]
  /\ interview = "IN_PROGRESS"
  /\ runs = <<>> /\ summaries = <<>>
  /\ reviews = 0 /\ reviewing = 0
  /\ seen = [version |-> 1, reviews |-> 0]
  /\ deciding = None /\ decision = None

ApplicationUnlocked == deciding = None

\* Faulty variant: the row of the interview is not locked.
FaultyInterviewUnlocked == TRUE

InterviewUnlocked == \A r \in DOMAIN runs : runs[r].phase \notin {"LOCKED", "CHECKED"}

-----------------------------------------------------------------------------
(* The application and its interview.                                      *)

EvaluationsOnly == UNCHANGED <<runs, summaries, reviews, reviewing, seen, deciding, decision>>

MoveOn(status) ==
  application' = [application EXCEPT !.status = status, !.version = @ + 1]

\* closeSession, or a revocation of the running interview; neither finds the row
\* of a removed application.
SessionEnds ==
  /\ interview = "IN_PROGRESS" /\ application.status = "INTERVIEWING"
  /\ interview' \in {"COMPLETED", "EXPIRED", "CANCELLED"}
  /\ IF application.deleted THEN UNCHANGED application ELSE MoveOn("UNDER_REVIEW")
  /\ EvaluationsOnly

\* update
UpdateNotes ==
  /\ ApplicationUnlocked /\ ~application.deleted
  /\ application.status \notin Terminal
  /\ application.version < MaxVersion
  /\ MoveOn(application.status)
  /\ UNCHANGED interview /\ EvaluationsOnly

Withdraw ==
  /\ ApplicationUnlocked /\ ~application.deleted
  /\ application.status \notin Terminal
  /\ interview' = IF interview = "IN_PROGRESS" THEN "CANCELLED" ELSE interview
  /\ MoveOn("WITHDRAWN")
  /\ EvaluationsOnly

\* The soft delete of an administrator, which waits for the row but looks at nothing.
Remove ==
  /\ ApplicationUnlocked /\ ~application.deleted
  /\ application' = [application EXCEPT !.deleted = TRUE]
  /\ UNCHANGED interview /\ EvaluationsOnly

HrReads ==
  /\ ~application.deleted
  /\ seen' = [version |-> application.version, reviews |-> reviews]
  /\ UNCHANGED <<application, interview, runs, summaries, reviews, reviewing, deciding, decision>>

-----------------------------------------------------------------------------
(* Summaries: regenerateSummary.                                           *)

RunsOnly ==
  UNCHANGED <<application, interview, summaries, reviews, reviewing, seen, deciding, decision>>

\* The checks, of the application without a lock, and the transaction that
\* starts the run.
BeginSummary ==
  /\ Len(runs) < MaxRuns
  /\ ~application.deleted /\ application.status \notin Terminal
  /\ interview # "IN_PROGRESS"
  /\ runs' = Append(runs, [status |-> "PROCESSING", phase |-> "AI", revision |-> 0,
                           answer |-> "NONE"])
  /\ RunsOnly

AiAnswers(r) ==
  /\ runs[r].phase = "AI"
  /\ runs' = [runs EXCEPT ![r].phase = "ANSWERED"]
  /\ RunsOnly

\* The model fails, or its summary does not validate.
Fail(r) ==
  /\ runs[r].phase = "AI"
  /\ runs' = [runs EXCEPT ![r].phase = "DONE", ![r].status = "FAILED", ![r].answer = "FAILED"]
  /\ RunsOnly

LockInterview(r) ==
  /\ runs[r].phase = "ANSWERED" /\ InterviewUnlocked
  /\ runs' = [runs EXCEPT ![r].phase = "LOCKED"]
  /\ RunsOnly

\* Faulty variant: the application is not looked at again.
FaultyRecheck(r) ==
  /\ runs[r].phase = "LOCKED"
  /\ runs' = [runs EXCEPT ![r].phase = "CHECKED", ![r].revision = Len(summaries) + 1]
  /\ RunsOnly

\* Faulty variant: the recheck locks the application.
FaultyRecheckWithLock(r) ==
  /\ runs[r].phase = "LOCKED" /\ ApplicationUnlocked
  /\ runs' = IF ~application.deleted /\ application.status \in Terminal
               THEN [runs EXCEPT ![r].phase = "DONE", ![r].answer = "TERMINAL"]
               ELSE [runs EXCEPT ![r].phase = "CHECKED", ![r].revision = Len(summaries) + 1]
  /\ RunsOnly

\* The read of the application, without a lock, and of the last revision.  The
\* application of a removed row is not found and counts as open.  A run that is
\* refused stays PROCESSING.
Recheck(r) ==
  /\ runs[r].phase = "LOCKED"
  /\ runs' = IF ~application.deleted /\ application.status \in Terminal
               THEN [runs EXCEPT ![r].phase = "DONE", ![r].answer = "TERMINAL"]
               ELSE [runs EXCEPT ![r].phase = "CHECKED", ![r].revision = Len(summaries) + 1]
  /\ RunsOnly

StoreSummary(r) ==
  /\ runs[r].phase = "CHECKED"
  /\ summaries' = Append(summaries, [revision |-> runs[r].revision, run |-> r])
  /\ runs' = [runs EXCEPT ![r].phase = "DONE", ![r].status = "SUCCEEDED", ![r].answer = "CREATED"]
  /\ UNCHANGED <<application, interview, reviews, reviewing, seen, deciding, decision>>

\* The process dies, or the transaction it is in fails.
WorkerDies(r) ==
  /\ MayDie
  /\ runs[r].phase # "DONE"
  /\ runs' = [runs EXCEPT ![r].phase = "DONE", ![r].answer = "LOST"]
  /\ RunsOnly

-----------------------------------------------------------------------------
(* Reviews: createHrReview.                                                *)

ReviewsOnly == UNCHANGED <<application, interview, runs, summaries, seen, deciding, decision>>

\* The checks come before the transaction and are not repeated in it.
BeginReview ==
  /\ reviews + reviewing < MaxReviews
  /\ ~application.deleted /\ application.status = "UNDER_REVIEW"
  /\ interview # "IN_PROGRESS"
  /\ reviewing' = reviewing + 1
  /\ UNCHANGED reviews /\ ReviewsOnly

\* The transaction, under the lock of the interview.
EndReview ==
  /\ reviewing > 0 /\ InterviewUnlocked
  /\ reviewing' = reviewing - 1
  /\ reviews' = reviews + 1
  /\ ReviewsOnly

ReviewDies ==
  /\ MayDie /\ reviewing > 0
  /\ reviewing' = reviewing - 1
  /\ UNCHANGED reviews /\ ReviewsOnly

-----------------------------------------------------------------------------
(* The decision: createDecision.                                           *)

\* The lock of the application and all checks; reviews are read without a lock.
BeginDecide(outcome, review) ==
  /\ ApplicationUnlocked /\ ~application.deleted
  /\ seen.version = application.version
  /\ decision = None
  /\ application.status = "UNDER_REVIEW"
  /\ interview # "IN_PROGRESS"
  /\ review <= seen.reviews
  /\ review = reviews
  /\ deciding' = [outcome |-> outcome, review |-> review]
  /\ UNCHANGED <<application, interview, runs, summaries, reviews, reviewing, seen, decision>>

\* The insert, which waits for the row of the interview, and the commit.
EndDecide ==
  /\ deciding # None /\ InterviewUnlocked
  /\ decision' = deciding
  /\ MoveOn(deciding.outcome)
  /\ deciding' = None
  /\ UNCHANGED <<interview, runs, summaries, reviews, reviewing, seen>>

DecisionDies ==
  /\ MayDie /\ deciding # None
  /\ deciding' = None
  /\ UNCHANGED <<application, interview, runs, summaries, reviews, reviewing, seen, decision>>

-----------------------------------------------------------------------------
Worker(r) ==
  AiAnswers(r) \/ Fail(r) \/ LockInterview(r) \/ Recheck(r) \/ StoreSummary(r)

Next ==
  \/ SessionEnds \/ UpdateNotes \/ Withdraw \/ Remove \/ HrReads
  \/ BeginSummary
  \/ \E r \in DOMAIN runs : Worker(r) \/ WorkerDies(r)
  \/ BeginReview \/ EndReview \/ ReviewDies
  \/ \E outcome \in Outcomes, review \in 1 .. reviews : BeginDecide(outcome, review)
  \/ EndDecide \/ DecisionDies

Spec == Init /\ [][Next]_vars

\* The model has a timeout, and PostgreSQL queues those who wait for a row.
Fairness ==
  /\ \A r \in 1 .. MaxRuns : WF_vars(r \in DOMAIN runs /\ Worker(r))
  /\ WF_vars(EndDecide)

FairSpec == Spec /\ Fairness

-----------------------------------------------------------------------------
(* Properties.                                                             *)

\* Summaries are numbered 1, 2, ... however many requests make them at once, so
\* that the unique index never rejects one the AI has been paid for
\* (regenerateSummary locks the interview, which has no summary to lock yet).
RevisionsInOrder == \A n \in DOMAIN summaries : summaries[n].revision = n

\* A run has succeeded when, and only when, there is one summary of it.
SummaryPerSucceededRun ==
  \A r \in DOMAIN runs :
    LET ofRun == {n \in DOMAIN summaries : summaries[n].run = r} IN
    IF runs[r].status = "SUCCEEDED" THEN \E n \in ofRun : ofRun = {n} ELSE ofRun = {}

\* There is a decision when, and only when, the application is decided, with the
\* same outcome, and its interview is over.
DecisionIsTheStatus ==
  IF application.status \in Outcomes
    THEN decision.outcome = application.status /\ interview # "IN_PROGRESS"
    ELSE decision = None

\* Rows have their types; summaries and succeeded runs belong together one to
\* one, in the order of their revisions; and the decision, the status of the
\* application and the end of the interview agree, although three transactions
\* under two locks write them.
FilesConsistent ==
  /\ TypeInvariant
  /\ RevisionsInOrder
  /\ SummaryPerSucceededRun
  /\ DecisionIsTheStatus

\* Once an application is decided no summary joins the files, not even one that
\* was under way (regenerateSummary's recheck); a removal blinds the recheck.
NoSummaryAfterDecision ==
  [][decision # None /\ ~application.deleted => summaries' = summaries]_vars

\* No review is begun once the application is decided: those that come later
\* were under way at the decision (createHrReview).
NoReviewBegunAfterDecision ==
  [][decision # None => reviews' + reviewing' <= reviews + reviewing]_vars

\* The decision closes the files: what joins them later was let in before.
FilesClosedByDecision ==
  /\ NoSummaryAfterDecision
  /\ NoReviewBegunAfterDecision

\* A decision never hangs on a worker that hangs on it.
DecisionEnds == deciding # None ~> deciding = None

WorkerIsAtIt(r) ==
  r \in DOMAIN runs /\ runs[r].status = "PROCESSING" /\ runs[r].answer \notin {"LOST", "TERMINAL"}

\* Every run whose worker lives, and whose application is still open when it
\* comes to store the summary, is settled.
RunsSettle == \A r \in 1 .. MaxRuns : WorkerIsAtIt(r) ~> ~WorkerIsAtIt(r)

\* Decisions and summaries do not wait for each other: the decision holds the
\* application while it waits for the interview, and a summary that holds the
\* interview reads the application without its lock.
RequestsEnd ==
  /\ DecisionEnds
  /\ RunsSettle

\* The review a decision cites is the latest one (decisions.service.ts:198).
DecisionCitesLatestReview == decision # None => decision.review = reviews
=============================================================================
