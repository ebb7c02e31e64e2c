---------------------------- MODULE CvExtraction ----------------------------
(***************************************************************************)
(* The CV versions of one application: upload and removal, the AI          *)
(* extraction of the profile by a worker that claims the CV in one         *)
(* transaction and applies its result in another, the edits and the        *)
(* approval of the profile by HR.                                          *)
(*                                                                         *)
(* A transaction that locks the row of the CV first is one action.  The    *)
(* removal locks nothing it reads and is two: what it reads of the         *)
(* application, and the commit, which saves the application as it was      *)
(* read.  The files are left out: an upload stores its file before the     *)
(* row.  Parsing the PDF, calling the model and validating the evidence    *)
(* happen outside the transactions: they give a profile or an error.       *)
(***************************************************************************)
EXTENDS Integers, Sequences, FiniteSets

CONSTANTS
  MaxCvs,      \* bound on the uploads
  MaxRuns,     \* bound on the AI runs
  MaxEdits,    \* bound on the edits of HR, per CV
  MaxTime,     \* bound of the clock
  StaleAfter,  \* cvExtraction.processingStaleMs
  Operations   \* the optional operations that may occur

ASSUME ConstantsAssumption ==
  /\ MaxCvs \in Nat /\ MaxRuns \in Nat /\ MaxEdits \in Nat
  /\ MaxTime \in Nat /\ StaleAfter \in Nat
  /\ Operations \subseteq {"crash", "remove", "move"}

VARIABLES
  now,          \* the clock
  shortlisted,  \* application.status is SHORTLISTED
  current,      \* application.currentCvVersionId, 0 for null
  cvs,          \* the rows of cv_versions, by version
  runs,         \* the rows of ai_runs, each with the worker it belongs to
  seen,         \* what HR last read of each CV: its profile and its versions
  removal       \* the removal under way: its CV, the application as it was read

vars == <<now, shortlisted, current, cvs, runs, seen, removal>>
application == <<shortlisted, current>>

ExtractionStatus == {"PENDING", "PROCESSING", "READY", "FAILED", "NEEDS_MANUAL_INPUT"}

\* Who wrote profileJson and when, and the run that did or, for HR, the newest
\* run at that time.
Profile == [by : {"NOBODY", "AI", "HR"}, run : Nat, at : Nat]
NoProfile == [by |-> "NOBODY", run |-> 0, at |-> 0]

Cv == [extraction : ExtractionStatus, processingVersion : Nat,
       profile : Profile, approved : BOOLEAN, profileVersion : Nat,
       updatedAt : Nat, edits : Nat, deleted : BOOLEAN]

\* A run, and its worker: the exception it has caught and what it answers to
\* HR.  UNRECORDED is a failure that could not be stored, DIED no answer at all.
Run == [cv : Nat, processingVersion : Nat, startedAt : Nat,
        status : {"PROCESSING", "SUCCEEDED", "FAILED", "SUPERSEDED"},
        caught : {"NONE", "ERROR", "AI_RESULT_SUPERSEDED"},
        answer : {"NONE", "READY", "FAILED", "UNRECORDED", "DIED"}]

\* What the detail DTO shows of a CV.
Sight == [processingVersion : Nat, profile : Profile, approved : BOOLEAN,
          profileVersion : Nat]

None == [none |-> TRUE]

TypeInvariant ==
  /\ now \in 0 .. MaxTime
  /\ shortlisted \in BOOLEAN
  /\ cvs \in Seq(Cv)
  /\ current \in {0} \cup DOMAIN cvs
  /\ runs \in Seq(Run)
  /\ \A r \in DOMAIN runs : runs[r].cv \in DOMAIN cvs
  /\ \A c \in DOMAIN cvs : cvs[c].profile.run \in 0 .. Len(runs)
  /\ seen \in Seq(Sight)
  /\ removal \in {None} \cup
       [cv : DOMAIN cvs, wasCurrent : BOOLEAN, shortlisted : BOOLEAN, next : {0} \cup DOMAIN cvs]

Init ==
  /\ now = 0
  /\ shortlisted = TRUE
  /\ current = 0
  /\ cvs = <<>>
  /\ runs = <<>>
  /\ seen = <<>>
  /\ removal = None

Tick ==
  /\ now < MaxTime
  /\ now' = now + 1
  /\ UNCHANGED <<application, cvs, runs, seen, removal>>

\* An interview is created, or ends before its start.
ApplicationMoves ==
  /\ "move" \in Operations
  /\ shortlisted' = ~shortlisted
  /\ UNCHANGED <<now, current, cvs, runs, seen, removal>>

HrReads ==
  /\ seen' = [c \in DOMAIN cvs |->
                [processingVersion |-> cvs[c].processingVersion, profile |-> cvs[c].profile,
                 approved |-> cvs[c].approved, profileVersion |-> cvs[c].profileVersion]]
  /\ UNCHANGED <<now, application, cvs, runs, removal>>

-----------------------------------------------------------------------------
(* CV versions.                                                            *)

\* The row the queries find and lock: not deleted, nor being deleted.
Found(c) == ~cvs[c].deleted /\ (removal # None => removal.cv # c)

Active == {c \in DOMAIN cvs : ~cvs[c].deleted}
IsLatestOf(set, c) == c \in {0} \cup set /\ \A d \in set : d <= c

\* executeUpload
Upload ==
  /\ shortlisted
  /\ Len(cvs) < MaxCvs
  /\ cvs' = Append(cvs,
       [extraction |-> "PENDING", processingVersion |-> 1, profile |-> NoProfile,
        approved |-> FALSE, profileVersion |-> 1, updatedAt |-> now, edits |-> 0,
        deleted |-> FALSE])
  /\ current' = Len(cvs) + 1
  /\ UNCHANGED <<now, shortlisted, runs, seen, removal>>

\* remove deletes the row and reads the application and the CV that comes next ...
BeginRemove(c) ==
  /\ "remove" \in Operations
  /\ removal = None
  /\ ~cvs[c].deleted
  /\ \E next \in {0} \cup DOMAIN cvs :
       /\ IsLatestOf(Active \ {c}, next)
       /\ removal' = [cv |-> c, wasCurrent |-> current = c, shortlisted |-> shortlisted,
                      next |-> next]
  /\ UNCHANGED <<now, application, cvs, runs, seen>>

\* ... and, when it was the current one, saves the application as it was read.
EndRemove ==
  /\ removal # None
  /\ cvs' = [cvs EXCEPT ![removal.cv].deleted = TRUE]
  /\ IF removal.wasCurrent
       THEN shortlisted' = removal.shortlisted /\ current' = removal.next
       ELSE UNCHANGED application
  /\ removal' = None
  /\ UNCHANGED <<now, runs, seen>>

-----------------------------------------------------------------------------
(* The extraction.                                                         *)

IsStale(c) == now - cvs[c].updatedAt > StaleAfter

\* Every save of the entity sets updatedAt.
Save(c, row) == cvs' = [cvs EXCEPT ![c] = [row EXCEPT !.updatedAt = now]]

\* AiRunService.supersede and fail only change a run that is PROCESSING.
CloseRun(r, status) == IF r.status = "PROCESSING" THEN [r EXCEPT !.status = status] ELSE r

StartRun(c, version) ==
  [cv |-> c, processingVersion |-> version, startedAt |-> now,
   status |-> "PROCESSING", caught |-> "NONE", answer |-> "NONE"]

\* The guards both claims share.
MayClaim(c) ==
  /\ Len(runs) < MaxRuns
  /\ c \in DOMAIN seen
  /\ Found(c) /\ shortlisted /\ ~cvs[c].approved
  /\ seen[c].processingVersion = cvs[c].processingVersion

ClaimInitial(c) ==
  /\ MayClaim(c)
  /\ cvs[c].extraction = "PENDING"
  /\ Save(c, [cvs[c] EXCEPT !.extraction = "PROCESSING"])
  /\ runs' = Append(runs, StartRun(c, cvs[c].processingVersion))
  /\ UNCHANGED <<now, application, seen, removal>>

\* Faulty variant: the version is not counted up.
FaultyClaimRetry(c) ==
  /\ MayClaim(c)
  /\ \/ cvs[c].extraction \in {"FAILED", "NEEDS_MANUAL_INPUT"}
     \/ cvs[c].extraction = "PROCESSING" /\ IsStale(c)
  /\ Save(c, [cvs[c] EXCEPT !.extraction = "PROCESSING"])
  /\ runs' = Append(runs, StartRun(c, cvs[c].processingVersion))
  /\ UNCHANGED <<now, application, seen, removal>>

\* A retry of a stale extraction supersedes the one run that is still PROCESSING.
ClaimRetry(c) ==
  /\ MayClaim(c)
  /\ \/ cvs[c].extraction \in {"FAILED", "NEEDS_MANUAL_INPUT"}
     \/ cvs[c].extraction = "PROCESSING" /\ IsStale(c)
  /\ LET version == cvs[c].processingVersion + 1
         closed == [r \in DOMAIN runs |->
                      IF runs[r].cv = c /\ cvs[c].extraction = "PROCESSING"
                        THEN CloseRun(runs[r], "SUPERSEDED") ELSE runs[r]]
     IN /\ Save(c, [cvs[c] EXCEPT !.extraction = "PROCESSING", !.processingVersion = version])
        /\ runs' = Append(closed, StartRun(c, version))
  /\ UNCHANGED <<now, application, seen, removal>>

\* Faulty variant: the version of the claim is not compared.
FaultyStillClaimed(r) ==
  LET c == runs[r].cv IN
  /\ ~cvs[c].deleted
  /\ cvs[c].extraction = "PROCESSING"

\* The CV is still the one the worker claimed.
StillClaimed(r) ==
  LET c == runs[r].cv IN
  /\ ~cvs[c].deleted
  /\ cvs[c].processingVersion = runs[r].processingVersion
  /\ cvs[c].extraction = "PROCESSING"

\* The worker is before, or after, the exception that ends its main path.
Working(r) == runs[r].answer = "NONE" /\ runs[r].caught = "NONE"
Catching(r) == runs[r].answer = "NONE" /\ runs[r].caught # "NONE"
RowUnlocked(r) == removal # None => removal.cv # runs[r].cv

\* Faulty variant: the approval is not looked at.
FaultyComplete(r) ==
  /\ Working(r) /\ RowUnlocked(r)
  /\ StillClaimed(r)
  /\ LET cv == cvs[runs[r].cv] IN
     Save(runs[r].cv, [cv EXCEPT !.extraction = "READY", !.approved = FALSE,
       !.profile = [by |-> "AI", run |-> r, at |-> now], !.profileVersion = @ + 1])
  /\ runs' = [runs EXCEPT ![r].status = "SUCCEEDED", ![r].answer = "READY"]
  /\ UNCHANGED <<now, application, seen, removal>>

Complete(r) ==
  /\ Working(r) /\ RowUnlocked(r)
  /\ StillClaimed(r) /\ ~cvs[runs[r].cv].approved
  /\ LET cv == cvs[runs[r].cv] IN
     Save(runs[r].cv, [cv EXCEPT !.extraction = "READY", !.approved = FALSE,
       !.profile = [by |-> "AI", run |-> r, at |-> now], !.profileVersion = @ + 1])
  /\ runs' = [runs EXCEPT ![r].status = "SUCCEEDED", ![r].answer = "READY"]
  /\ UNCHANGED <<now, application, seen, removal>>

\* completeExtraction finds its result late.  The exception that says so is
\* thrown inside the try block and caught by the handler of all errors.
CompleteLate(r) ==
  /\ Working(r) /\ RowUnlocked(r)
  /\ ~StillClaimed(r) \/ cvs[runs[r].cv].approved
  /\ runs' = [runs EXCEPT ![r] = [CloseRun(@, "SUPERSEDED")
                                    EXCEPT !.caught = "AI_RESULT_SUPERSEDED"]]
  /\ UNCHANGED <<now, application, cvs, seen, removal>>

\* The storage, the parser, the model, the evidence or the database fails.
WorkFails(r) ==
  /\ Working(r)
  /\ runs' = [runs EXCEPT ![r].caught = "ERROR"]
  /\ UNCHANGED <<now, application, cvs, seen, removal>>

\* failExtraction with the status mapErrorToFailure gives, which knows no
\* superseded result: whatever was caught, the answer is a failure.
Fail(r, status) ==
  /\ Catching(r) /\ RowUnlocked(r)
  /\ runs[r].caught = "AI_RESULT_SUPERSEDED" => status = "FAILED"
  /\ StillClaimed(r)
  /\ Save(runs[r].cv, [cvs[runs[r].cv] EXCEPT !.extraction = status])
  /\ runs' = [runs EXCEPT ![r] = [CloseRun(@, "FAILED") EXCEPT !.answer = "FAILED"]]
  /\ UNCHANGED <<now, application, seen, removal>>

\* Faulty variant: the run is left as it is.
FaultyFailLate(r) ==
  /\ Catching(r) /\ RowUnlocked(r)
  /\ ~StillClaimed(r)
  /\ runs' = [runs EXCEPT ![r].answer = "FAILED"]
  /\ UNCHANGED <<now, application, cvs, seen, removal>>

FailLate(r) ==
  /\ Catching(r) /\ RowUnlocked(r)
  /\ ~StillClaimed(r)
  /\ runs' = [runs EXCEPT ![r] = [CloseRun(@, "SUPERSEDED") EXCEPT !.answer = "FAILED"]]
  /\ UNCHANGED <<now, application, cvs, seen, removal>>

\* The failure transaction fails: logged, and answered all the same.
FailIsLost(r) ==
  /\ "crash" \in Operations
  /\ Catching(r)
  /\ runs' = [runs EXCEPT ![r].answer = "UNRECORDED"]
  /\ UNCHANGED <<now, application, cvs, seen, removal>>

WorkerDies(r) ==
  /\ "crash" \in Operations
  /\ runs[r].answer = "NONE"
  /\ runs' = [runs EXCEPT ![r].answer = "DIED"]
  /\ UNCHANGED <<now, application, cvs, seen, removal>>

-----------------------------------------------------------------------------
(* The edits of HR.                                                        *)

\* The guards of updateProfile and approveProfile.
MayEdit(c) ==
  /\ c \in DOMAIN seen
  /\ Found(c) /\ shortlisted /\ ~cvs[c].approved
  /\ cvs[c].extraction = "PROCESSING" => IsStale(c)
  /\ seen[c].profileVersion = cvs[c].profileVersion

UpdateProfile(c) ==
  /\ MayEdit(c)
  /\ cvs[c].edits < MaxEdits
  /\ Save(c, [cvs[c] EXCEPT !.profile = [by |-> "HR", run |-> Len(runs), at |-> now],
                            !.profileVersion = @ + 1, !.edits = @ + 1])
  /\ UNCHANGED <<now, application, runs, seen, removal>>

ApproveProfile(c) ==
  /\ MayEdit(c)
  /\ cvs[c].profile # NoProfile
  /\ Save(c, [cvs[c] EXCEPT !.approved = TRUE, !.profileVersion = @ + 1])
  /\ UNCHANGED <<now, application, runs, seen, removal>>

-----------------------------------------------------------------------------
Worker(r) ==
  \/ Complete(r) \/ CompleteLate(r) \/ WorkFails(r)
  \/ \E status \in {"FAILED", "NEEDS_MANUAL_INPUT"} : Fail(r, status)
  \/ FailLate(r)

Next ==
  \/ Tick \/ ApplicationMoves \/ HrReads \/ Upload \/ EndRemove
  \/ \E c \in DOMAIN cvs :
       \/ BeginRemove(c) \/ ClaimInitial(c) \/ ClaimRetry(c)
       \/ UpdateProfile(c) \/ ApproveProfile(c)
  \/ \E r \in DOMAIN runs : Worker(r) \/ FailIsLost(r) \/ WorkerDies(r)

Spec == Init /\ [][Next]_vars

\* A worker that lives gets its locks and the answers of the providers, which
\* time out; a removal commits.
Fairness ==
  /\ WF_vars(EndRemove)
  /\ \A r \in 1 .. MaxRuns : WF_vars(r \in DOMAIN runs /\ Worker(r))

FairSpec == Spec /\ Fairness

-----------------------------------------------------------------------------
(* Properties.                                                             *)

\* A run that is PROCESSING owns its CV: the CV is being extracted, under the
\* version the run claimed, and by no other run.  Retries of stale extractions,
\* dead workers, edits and removals do not change that.
ProcessingRunOwnsCv ==
  \A r \in DOMAIN runs : runs[r].status = "PROCESSING" =>
    /\ cvs[runs[r].cv].extraction = "PROCESSING"
    /\ cvs[runs[r].cv].processingVersion = runs[r].processingVersion
    /\ \A q \in DOMAIN runs \ {r} :
         runs[q].cv = runs[r].cv => runs[q].status # "PROCESSING"

\* A CV is READY through the newest of its runs: late results of older ones
\* change nothing (completeExtraction).
ReadyIsFromNewestRun ==
  \A c \in DOMAIN cvs : cvs[c].extraction = "READY" =>
    \E r \in DOMAIN runs :
      /\ runs[r].cv = c /\ runs[r].status = "SUCCEEDED"
      /\ \A q \in DOMAIN runs : runs[q].cv = c => q <= r
      /\ cvs[c].profile.by = "AI" => cvs[c].profile.run = r

\* The version HR sends with an edit or an approval names the profile HR read.
VersionNamesProfile ==
  \A c \in DOMAIN seen : seen[c].profileVersion = cvs[c].profileVersion =>
    seen[c].profile = cvs[c].profile /\ seen[c].approved = cvs[c].approved

\* Rows have their types; a run in processing owns its CV alone; and a CV that
\* is ready is so through its newest run, so that claims, retries, failures and
\* late results leave CV and runs telling one story; and the version HR sends
\* along never names another profile than the one HR read.
CvConsistent ==
  /\ TypeInvariant
  /\ ProcessingRunOwnsCv
  /\ ReadyIsFromNewestRun
  /\ VersionNamesProfile

\* An approved profile never changes, whatever worker is still at it
\* (nestjs-auth/README.md: immutable after the approval).
ApprovedProfileIsFrozen ==
  [][\A c \in DOMAIN cvs : cvs[c].approved =>
       /\ cvs'[c].approved
       /\ cvs'[c].profile = cvs[c].profile
       /\ cvs'[c].profileVersion = cvs[c].profileVersion]_vars

\* HR loses an edit only to a run claimed after it, or to one that was overdue
\* already when HR made the edit (cv-versions.service.ts:553).
EditsLoseOnlyToOverdueRuns ==
  [][\A c \in DOMAIN cvs :
       LET old == cvs[c].profile  new == cvs'[c].profile IN
       old.by = "HR" /\ new.by = "AI" =>
         \/ new.run > old.run
         \/ old.at - runs[new.run].startedAt > StaleAfter]_vars

\* No worker, however late, takes back what HR has said of a profile: an
\* approval stands, and an edit stands against every run it did not overtake.
HrsWordStands ==
  /\ ApprovedProfileIsFrozen
  /\ EditsLoseOnlyToOverdueRuns

Processing(r) ==
  r \in DOMAIN runs /\ runs[r].status = "PROCESSING" /\ runs[r].answer \notin {"UNRECORDED", "DIED"}

\* Every run whose worker lives comes to an end: it succeeds, fails or is
\* superseded, whatever HR does meanwhile (executeExtractionWorkflow).
RunsSettle ==
  \A r \in 1 .. MaxRuns : Processing(r) ~> ~Processing(r)

\* The runs follow AiJobs: each settles once, and only the newest of a CV puts
\* its profile there.
Jobs == INSTANCE AiJobs WITH
  jobs <- [r \in DOMAIN runs |-> [of |-> runs[r].cv, status |-> runs[r].status]],
  result <- [c \in DOMAIN cvs |-> IF cvs[c].profile.by = "AI" THEN cvs[c].profile.run ELSE 0]

FollowsAiJobs == Jobs!Ledger
=============================================================================
