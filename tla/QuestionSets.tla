---------------------------- MODULE QuestionSets ----------------------------
(***************************************************************************)
(* The question sets of one application: drafts of HR, generation by the   *)
(* AI with its retries, edits, approval, clones, removal, and the          *)
(* interviews made from them.                                              *)
(*                                                                         *)
(* Generation claims the set in one transaction, calls the model and       *)
(* stores the result in another, both under the lock of the set.  Retry    *)
(* and approval read the application, its CV and the job without a lock,   *)
(* but write nothing that those who change these ever read, and are one    *)
(* action at the time of the read.  So is the removal: the rest of what it *)
(* writes is in a row that is deleted.                                     *)
(*                                                                         *)
(* What a set is made from, the approved profile of a CV and a version of  *)
(* the job, is a number; sets with equal numbers have equal snapshots.     *)
(***************************************************************************)
EXTENDS Integers, Sequences, FiniteSets

CONSTANTS
  MaxSets,        \* bound on the question sets
  MaxRuns,        \* bound on the AI runs
  MaxEdits,       \* bound on the edits of HR
  MaxSources,     \* bound on the combinations of CV profile and job version
  MaxInterviews,  \* bound on the interviews
  MaxTime,        \* bound of the clock
  StaleAfter,     \* cvExtraction.processingStaleMs
  MayDie          \* processes may die and result transactions fail

ASSUME ConstantsAssumption ==
  /\ \A bound \in {MaxSets, MaxRuns, MaxEdits, MaxSources, MaxInterviews, MaxTime, StaleAfter} : bound \in Nat
  /\ MaxSources # 0
  /\ MayDie \in BOOLEAN

VARIABLES
  now,          \* the clock
  shortlisted,  \* application.status is SHORTLISTED
  source,       \* the current CV profile and job version, 0 while none is approved
  sets,         \* the rows of question_sets with their items
  runs,         \* the rows of ai_runs, each with the worker it belongs to
  seen,         \* what HR last read of each set
  interviews,   \* the questions each interview took over, and from which set
  edits,        \* history: the edits of HR so far
  sanctioned    \* history: the items HR had read when it approved each set

application == <<shortlisted, source>>
history == <<edits, sanctioned>>
vars == <<now, application, sets, runs, seen, interviews, history>>

\* The questions of a set: whose they are and which; mark is the AI run or the
\* number of the edit.
Items == [by : {"NOBODY", "AI", "HR"}, mark : Nat]
NoItems == [by |-> "NOBODY", mark |-> 0]

QuestionSet ==
  [mode : {"MANUAL", "AI"}, status : {"DRAFT", "GENERATING", "APPROVED", "FAILED"},
   version : Nat, generationVersion : Nat, aiRun : Nat, source : Nat,
   items : Items, updatedAt : Nat, deleted : BOOLEAN]

\* A run, and what its worker answers to HR: LOST is an error that could not be
\* stored, or no answer at all.
Run == [set : Nat, generationVersion : Nat, startedAt : Nat,
        status : {"PROCESSING", "SUCCEEDED", "FAILED", "SUPERSEDED"},
        answer : {"NONE", "DRAFT", "FAILED", "SUPERSEDED", "STALE", "NOT_FOUND", "LOST"}]

TypeInvariant ==
  /\ now \in 0 .. MaxTime
  /\ shortlisted \in BOOLEAN
  /\ source \in 0 .. MaxSources
  /\ sets \in Seq(QuestionSet)
  /\ \A s \in DOMAIN sets : sets[s].aiRun \in 0 .. Len(runs)
  /\ runs \in Seq(Run)
  /\ \A r \in DOMAIN runs : runs[r].set \in DOMAIN sets
  /\ seen \in Seq([version : Nat, generationVersion : Nat, items : Items])
  /\ interviews \in Seq([set : DOMAIN sets, items : Items])
  /\ edits \in 0 .. MaxEdits
  /\ sanctioned \in Seq(Items) /\ Len(sanctioned) = Len(sets)

\* An application with the approved profile of a CV.
Init ==
  /\ now = 0
  /\ shortlisted = TRUE
  /\ source = 1
  /\ sets = <<>> /\ runs = <<>> /\ seen = <<>>
  /\ interviews = <<>>
  /\ edits = 0 /\ sanctioned = <<>>

-----------------------------------------------------------------------------
(* What the sets depend on.                                                *)

Tick ==
  /\ now < MaxTime
  /\ now' = now + 1
  /\ UNCHANGED <<application, sets, runs, seen, interviews, history>>

\* The application leaves the shortlist by a withdrawal and comes back when an
\* interview ends before its start.
ApplicationMoves ==
  /\ shortlisted' = ~shortlisted
  /\ UNCHANGED <<now, source, sets, runs, seen, interviews, history>>

\* A CV is uploaded, its profile approved, the job edited; or the current CV is
\* removed, and the one before is current again with the sets made from it.
SourceChanges ==
  /\ source' \in 0 .. MaxSources
  /\ UNCHANGED <<now, shortlisted, sets, runs, seen, interviews, history>>

HrReads ==
  /\ seen' = [s \in DOMAIN sets |->
                [version |-> sets[s].version, generationVersion |-> sets[s].generationVersion,
                 items |-> sets[s].items]]
  /\ UNCHANGED <<now, application, sets, runs, interviews, history>>

\* checkIfStale
IsStale(s) == source = 0 \/ sets[s].source # source

-----------------------------------------------------------------------------
(* Drafts of HR.                                                           *)

Create(row) ==
  /\ Len(sets) < MaxSets
  /\ sets' = Append(sets, row)
  /\ sanctioned' = Append(sanctioned, NoItems)
  /\ UNCHANGED edits

NewSet(mode, status, from) ==
  [mode |-> mode, status |-> status, version |-> 1, generationVersion |-> 1, aiRun |-> 0,
   source |-> from, items |-> NoItems, updatedAt |-> now, deleted |-> FALSE]

\* createManualDraft reads the CV and the job one after the other: when both
\* change meanwhile, the draft is made from what never was current, 0.
CreateManualDraft ==
  /\ shortlisted /\ source # 0
  /\ \E from \in {source, 0} : Create(NewSet("MANUAL", "DRAFT", from))
  /\ UNCHANGED <<now, application, runs, seen, interviews>>

-----------------------------------------------------------------------------
(* Generation.                                                             *)

\* Every save of the entity sets updatedAt.
Save(s, row) == sets' = [sets EXCEPT ![s] = [row EXCEPT !.updatedAt = now]]

StartRun(s, version) ==
  [set |-> s, generationVersion |-> version, startedAt |-> now,
   status |-> "PROCESSING", answer |-> "NONE"]

\* AiRunService.succeed, fail and supersede change only a run that is PROCESSING.
CloseRun(r, status) == IF r.status = "PROCESSING" THEN [r EXCEPT !.status = status] ELSE r

\* The first transaction of generateDraft, under the locks of application, CV and job.
GenerateDraft ==
  /\ shortlisted /\ source # 0
  /\ Len(runs) < MaxRuns
  /\ Create([NewSet("AI", "GENERATING", source) EXCEPT !.aiRun = Len(runs) + 1])
  /\ runs' = Append(runs, StartRun(Len(sets) + 1, 1))
  /\ UNCHANGED <<now, application, seen, interviews>>

Overdue(s) == sets[s].status = "GENERATING" /\ now - sets[s].updatedAt > StaleAfter

\* Faulty variant: the former run is not superseded.
FaultyRetryGeneration(s) ==
  /\ Len(runs) < MaxRuns
  /\ s \in DOMAIN seen
  /\ ~sets[s].deleted /\ sets[s].mode = "AI"
  /\ seen[s].generationVersion = sets[s].generationVersion
  /\ sets[s].status = "FAILED" \/ Overdue(s)
  /\ shortlisted /\ ~IsStale(s)
  /\ LET version == sets[s].generationVersion + 1 IN
     /\ Save(s, [sets[s] EXCEPT !.status = "GENERATING", !.generationVersion = version,
                                !.aiRun = Len(runs) + 1])
     /\ runs' = Append(runs, StartRun(s, version))
  /\ UNCHANGED <<now, application, seen, interviews, history>>

\* The first transaction of retryGeneration.
RetryGeneration(s) ==
  /\ Len(runs) < MaxRuns
  /\ s \in DOMAIN seen
  /\ ~sets[s].deleted /\ sets[s].mode = "AI"
  /\ seen[s].generationVersion = sets[s].generationVersion
  /\ sets[s].status = "FAILED" \/ Overdue(s)
  /\ shortlisted /\ ~IsStale(s)
  /\ LET version == sets[s].generationVersion + 1
         superseded == [r \in DOMAIN runs |->
           IF r = sets[s].aiRun THEN CloseRun(runs[r], "SUPERSEDED") ELSE runs[r]]
     IN /\ Save(s, [sets[s] EXCEPT !.status = "GENERATING", !.generationVersion = version,
                                   !.aiRun = Len(runs) + 1])
        /\ runs' = Append(superseded, StartRun(s, version))
  /\ UNCHANGED <<now, application, seen, interviews, history>>

\* Faulty variant: only the status is compared.
FaultyStillOwned(r) == sets[runs[r].set].status = "GENERATING"

\* The late result check: the set is still at the generation of this worker.
StillOwned(r) ==
  LET set == sets[runs[r].set] IN
  /\ set.status = "GENERATING"
  /\ set.generationVersion = runs[r].generationVersion
  /\ set.aiRun = r

Working(r) == runs[r].answer = "NONE"

Answer(r, answer) == runs' = [runs EXCEPT ![r].answer = answer]
RunsOnly == UNCHANGED <<now, application, sets, seen, interviews, history>>

\* Faulty variant: without the late result check.
FaultyStoreLateQuestions(r) ==
  LET s == runs[r].set IN
  /\ Working(r) /\ ~sets[s].deleted
  /\ ~IsStale(s)
  /\ Save(s, [sets[s] EXCEPT !.status = "DRAFT", !.items = [by |-> "AI", mark |-> r],
                             !.version = @ + 1])
  /\ runs' = [runs EXCEPT ![r] = [CloseRun(@, "SUCCEEDED") EXCEPT !.answer = "DRAFT"]]
  /\ UNCHANGED <<now, application, seen, interviews, history>>

\* The second transaction of executeAiAndApplyResult.
StoreQuestions(r) ==
  LET s == runs[r].set IN
  /\ Working(r) /\ ~sets[s].deleted
  /\ StillOwned(r) /\ ~IsStale(s)
  /\ Save(s, [sets[s] EXCEPT !.status = "DRAFT", !.items = [by |-> "AI", mark |-> r],
                             !.version = @ + 1])
  /\ runs' = [runs EXCEPT ![r] = [CloseRun(@, "SUCCEEDED") EXCEPT !.answer = "DRAFT"]]
  /\ UNCHANGED <<now, application, seen, interviews, history>>

\* The set is gone, no longer the worker's, or made from sources that have
\* changed.  Each is thrown inside the transaction: the supersession of the run,
\* or its failure and that of the set, are rolled back with it.
DropResult(r) ==
  LET s == runs[r].set IN
  /\ Working(r)
  /\ \/ sets[s].deleted /\ Answer(r, "NOT_FOUND")
     \/ ~sets[s].deleted /\ ~StillOwned(r) /\ Answer(r, "SUPERSEDED")
     \/ ~sets[s].deleted /\ StillOwned(r) /\ IsStale(s) /\ Answer(r, "STALE")
  /\ RunsOnly

\* Faulty variant: the run is left as it is.
FaultyMarkFailedOnlySet(r) ==
  LET s == runs[r].set IN
  /\ Working(r)
  /\ IF ~sets[s].deleted /\ StillOwned(r)
       THEN Save(s, [sets[s] EXCEPT !.status = "FAILED"])
       ELSE UNCHANGED sets
  /\ Answer(r, "FAILED")
  /\ UNCHANGED <<now, application, seen, interviews, history>>

\* The model gives an error, or questions that do not validate: markGenerationFailed.
MarkGenerationFailed(r) ==
  LET s == runs[r].set IN
  /\ Working(r)
  /\ IF ~sets[s].deleted /\ StillOwned(r)
       THEN Save(s, [sets[s] EXCEPT !.status = "FAILED"])
       ELSE UNCHANGED sets
  /\ runs' = [runs EXCEPT ![r] = [CloseRun(@, "FAILED") EXCEPT !.answer = "FAILED"]]
  /\ UNCHANGED <<now, application, seen, interviews, history>>

\* The process dies, or the transaction with the result or the failure fails.
ResultIsLost(r) ==
  /\ MayDie
  /\ Working(r)
  /\ Answer(r, "LOST")
  /\ RunsOnly

-----------------------------------------------------------------------------
(* Edits, approval, clones, removal.                                       *)

SetsOnly == UNCHANGED <<now, application, runs, seen, interviews>>

\* Faulty variant: the version HR sends is not compared.
FaultyMayChange(s) ==
  /\ s \in DOMAIN seen
  /\ ~sets[s].deleted /\ sets[s].status = "DRAFT"

\* The guards updateItems and approve share.
MayChange(s) ==
  /\ s \in DOMAIN seen
  /\ ~sets[s].deleted /\ sets[s].status = "DRAFT"
  /\ seen[s].version = sets[s].version

UpdateItems(s) ==
  /\ MayChange(s)
  /\ edits < MaxEdits
  /\ edits' = edits + 1
  /\ Save(s, [sets[s] EXCEPT !.items = [by |-> "HR", mark |-> edits + 1], !.version = @ + 1])
  /\ UNCHANGED sanctioned /\ SetsOnly

Approve(s) ==
  /\ MayChange(s)
  /\ shortlisted /\ ~IsStale(s)
  /\ sets[s].items # NoItems
  /\ Save(s, [sets[s] EXCEPT !.status = "APPROVED", !.version = @ + 1])
  /\ sanctioned' = [sanctioned EXCEPT ![s] = seen[s].items]
  /\ UNCHANGED edits /\ SetsOnly

\* Whatever the status of the source, the clone is a draft without a run.
Clone(s) ==
  /\ ~sets[s].deleted
  /\ Create([sets[s] EXCEPT !.status = "DRAFT", !.version = 1, !.aiRun = 0,
                            !.updatedAt = now])
  /\ SetsOnly

Remove(s) ==
  /\ ~sets[s].deleted
  /\ Save(s, [sets[s] EXCEPT !.deleted = TRUE])
  /\ UNCHANGED history /\ SetsOnly

\* What executeCreateInterview asks of the set, under the lock of the application.
CreateInterview(s) ==
  /\ Len(interviews) < MaxInterviews
  /\ shortlisted
  /\ ~sets[s].deleted /\ sets[s].status = "APPROVED" /\ ~IsStale(s)
  /\ interviews' = Append(interviews, [set |-> s, items |-> sets[s].items])
  /\ shortlisted' = FALSE
  /\ UNCHANGED <<now, source, sets, runs, seen, history>>

-----------------------------------------------------------------------------
Worker(r) ==
  StoreQuestions(r) \/ DropResult(r) \/ MarkGenerationFailed(r)

Next ==
  \/ Tick \/ ApplicationMoves \/ SourceChanges \/ HrReads
  \/ CreateManualDraft \/ GenerateDraft
  \/ \E s \in DOMAIN sets :
       RetryGeneration(s) \/ UpdateItems(s) \/ Approve(s) \/ Clone(s) \/ Remove(s)
         \/ CreateInterview(s)
  \/ \E r \in DOMAIN runs : Worker(r) \/ ResultIsLost(r)

Spec == Init /\ [][Next]_vars

\* A worker that lives gets the lock of the set, and an answer of the model,
\* which has a timeout.
Fairness == \A r \in 1 .. MaxRuns : WF_vars(r \in DOMAIN runs /\ Worker(r))

FairSpec == Spec /\ Fairness

-----------------------------------------------------------------------------
(* Properties.                                                             *)

\* A run that is PROCESSING owns its set: the set is being generated, by this
\* run and no other.  Dead workers, failures that are lost, results that are
\* rolled back and retries do not change that (retryGeneration supersedes).
ProcessingRunOwnsSet ==
  \A r \in DOMAIN runs : runs[r].status = "PROCESSING" /\ ~sets[runs[r].set].deleted =>
    StillOwned(r)

\* Only a run that was overdue is superseded: two workers are paid for one set
\* only when the first is longer at it than the code waits.
SupersededWasOverdue ==
  \A r \in DOMAIN runs : runs[r].status = "SUPERSEDED" =>
    \E q \in DOMAIN runs :
      runs[q].set = runs[r].set /\ runs[q].startedAt - runs[r].startedAt > StaleAfter

\* Questions of the AI are those of the newest generation of their set, however
\* late the answers to older ones come in (executeAiAndApplyResult).
QuestionsAreOfNewestRun ==
  \A s \in DOMAIN sets : sets[s].aiRun # 0 /\ sets[s].items.by = "AI" =>
    sets[s].items.mark = sets[s].aiRun /\ runs[sets[s].aiRun].status = "SUCCEEDED"

\* The version HR sends names the questions HR has read, although a retry does
\* not count it up.
VersionNamesQuestions ==
  \A s \in DOMAIN seen : seen[s].version = sets[s].version => seen[s].items = sets[s].items

\* Rows have their types; a run in processing owns its set; only overdue runs
\* are superseded; the questions of the AI are the newest run's; and a version
\* names the questions HR has read, although generation, retry and storing of
\* the answer are three transactions.
SetsConsistent ==
  /\ TypeInvariant
  /\ ProcessingRunOwnsSet
  /\ SupersededWasOverdue
  /\ QuestionsAreOfNewestRun
  /\ VersionNamesQuestions

\* What HR has written is only ever replaced by HR.
EditsAreKept ==
  [][\A s \in DOMAIN sets : sets[s].items.by = "HR" =>
       sets'[s].items.by = "HR" /\ sets'[s].items.mark >= sets[s].items.mark]_vars

\* An approved set never changes, whatever workers still do with it
\* (nestjs-auth/README.md:192, immutable after the approval).
ApprovedIsFrozen ==
  [][\A s \in DOMAIN sets : sets[s].status = "APPROVED" =>
       [sets'[s] EXCEPT !.deleted = FALSE, !.updatedAt = 0]
         = [sets[s] EXCEPT !.deleted = FALSE, !.updatedAt = 0]]_vars

\* No worker, however late, takes back what HR has said of a set: neither an
\* edit nor an approval.
HrsWordStands ==
  /\ EditsAreKept
  /\ ApprovedIsFrozen

\* An interview asks the questions HR had before its eyes when it approved the
\* set, never others that came into it by an edit or a generation meanwhile.
InterviewAsksWhatHrApproved ==
  \A i \in DOMAIN interviews : interviews[i].items = sanctioned[interviews[i].set]

\* The run of a worker that can store its result comes to an end.
WorkerIsAtIt(r) ==
  r \in DOMAIN runs /\ runs[r].status = "PROCESSING"
    /\ runs[r].answer \in {"NONE", "DRAFT", "FAILED", "SUPERSEDED"}

\* Every run whose worker lives, and whose set is neither removed nor outdated
\* when the result comes, is settled, by its worker or by a retry.
RunsSettle == \A r \in 1 .. MaxRuns : WorkerIsAtIt(r) ~> ~WorkerIsAtIt(r)

\* The runs follow AiJobs: each settles once, and only the newest of a set puts
\* its questions there.
Jobs == INSTANCE AiJobs WITH
  jobs <- [r \in DOMAIN runs |-> [of |-> runs[r].set, status |-> runs[r].status]],
  result <- [s \in DOMAIN sets |-> IF sets[s].items.by = "AI" THEN sets[s].items.mark ELSE 0]

FollowsAiJobs == Jobs!Ledger
=============================================================================
