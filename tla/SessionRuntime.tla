--------------------------- MODULE SessionRuntime ---------------------------
(***************************************************************************)
(* The interview session of one candidate: the turns the candidate is      *)
(* asked, the answers, the AI follow-up workflow that runs between two     *)
(* transactions, the deadline, and the HR transactions that cancel the     *)
(* interview meanwhile.                                                    *)
(*                                                                         *)
(* Grain of atomicity.  A transaction that locks the session row is one    *)
(* action.  What the code does without that lock is a step of its own:     *)
(* the AI call between the two transactions of a submission, and the HR    *)
(* transactions, which lock application and interview but read the         *)
(* session without a lock and write it back later.                         *)
(***************************************************************************)
EXTENDS Integers, Sequences, FiniteSets

CONSTANTS
  NumQuestions,       \* main questions of the interview, at positions 1..NumQuestions
  MaxFollowUps,       \* per position; 0 where the question forbids follow-ups
  MaxFollowUpsTotal,  \* interview.maxFollowUpsTotal
  Duration,           \* interview.durationMinutes, in units of the model clock
  MinRemaining,       \* ai.followUpMinRemainingMs
  AiWindow,           \* ai.followUpTimeoutMs + ai.followUpRecoveryGraceMs
  ReadGrace,          \* the 30 minutes of reading after the deadline
  CredentialExpiry,   \* expiresAt of credential and invitation at the beginning
  MaxLockWait,        \* how long a transaction may wait for its lock
  MaxTime,            \* bound of the clock
  HrTransactions      \* the HR transactions that may occur

Positions == 1 .. NumQuestions

ASSUME ConstantsAssumption ==
  /\ NumQuestions \in Nat \ {0}
  /\ MaxFollowUps \in [Positions -> Nat]
  /\ MaxFollowUpsTotal \in Nat
  /\ Duration \in Nat \ {0}
  /\ MinRemaining \in Nat
  /\ AiWindow \in Nat \ {0}
  /\ ReadGrace \in Nat
  /\ CredentialExpiry \in Nat
  /\ MaxLockWait \in Nat
  /\ MaxTime \in Nat
  /\ HrTransactions \subseteq {"revoke", "withdraw"}

VARIABLES
  now,          \* the clock, of the database and of the server
  session,      \* the row of interview_sessions, and NoSession before it exists
  turns,        \* the rows of interview_turns in the order of their insertion
  runs,         \* the rows of ai_runs, each with the workflow that owns it
  interview,    \* interview.status
  application,  \* application.status
  accessUntil,  \* expiresAt of the newest credential
  hr,           \* the HR transaction holding the application and interview locks
  reply         \* the refusal the step just taken sent to the candidate, if any

vars == <<now, session, turns, runs, interview, application, accessUntil, hr, reply>>

SessionStatus == {"NONE", "IN_PROGRESS", "COMPLETED", "EXPIRED", "CANCELLED"}
RuntimeState == {"NONE", "AWAITING_ANSWER", "ADVANCING", "READY_TO_FINISH", "CLOSED"}
EndReason == {"NONE", "ALL_QUESTIONS_ANSWERED", "SUBMITTED_EARLY",
              "DEADLINE_REACHED", "HR_CANCELLED"}
TurnKind == {"MAIN", "FOLLOW_UP"}
TurnStatus == {"OPEN", "ANSWERED", "SKIPPED", "CLOSED_UNANSWERED"}
RunStatus == {"PROCESSING", "SUCCEEDED", "FAILED", "SUPERSEDED"}
InterviewStatus == {"INVITED", "IN_PROGRESS", "COMPLETED", "EXPIRED", "CANCELLED"}
ApplicationStatus == {"INTERVIEWING", "SHORTLISTED", "UNDER_REVIEW", "WITHDRAWN"}

\* Null values: a turn id and a run id are the positions of the row in turns
\* and in runs, so 0 is none of them, and no deadline is at 0.
NoTurn == 0
NoRun == 0
NoDeadline == 0

SessionRow ==
  [status : SessionStatus, runtimeState : RuntimeState, currentTurn : Nat,
   followUpsUsed : Nat, version : Nat, deadline : Nat, advanceDeadline : Nat,
   endReason : EndReason]

NoSession ==
  [status |-> "NONE", runtimeState |-> "NONE", currentTurn |-> NoTurn,
   followUpsUsed |-> 0, version |-> 0, deadline |-> 0,
   advanceDeadline |-> NoDeadline, endReason |-> "NONE"]

Turn ==
  [root : Positions, seq : Nat, kind : TurnKind, followUpIndex : Nat,
   parent : Nat, run : Nat, status : TurnStatus]

\* What the workflow that called the AI for a run does next: it waits for the
\* answer, it applies a valid proposal (ask or continue), it falls back after
\* an error or an invalid proposal, or it is over.
Phase == {"calling", "ask", "continue", "error", "done", "dead"}

Run == [status : RunStatus, phase : Phase, expectedVersion : Nat, parent : Nat]

HrIdle == [kind |-> "none", seen |-> NoSession]

Init ==
  /\ now = 0
  /\ session = NoSession
  /\ turns = <<>>
  /\ runs = <<>>
  /\ interview = "INVITED"
  /\ application = "INTERVIEWING"
  /\ accessUntil = CredentialExpiry
  /\ hr = HrIdle
  /\ reply = "NONE"

-----------------------------------------------------------------------------
(* Access and time.                                                        *)

\* The credential has not expired, and the invitation is neither revoked nor
\* replaced: revoke and withdraw do both when they cancel the interview.
HasAccess == now <= accessUntil /\ interview # "CANCELLED"

\* A transaction reads the clock before it waits for the row lock, so that the
\* time it decides with may be in the past when it goes on.
RequestTimes == {t \in 0 .. now : now - t <= MaxLockWait}

InProgress == session.status = "IN_PROGRESS"

Advancing == InProgress /\ session.runtimeState = "ADVANCING"

DeadlinePassed(t) == t >= session.deadline

\* Closing a session writes the interview and the application as well, which
\* waits for the HR transaction that holds their locks.
FaultyInterviewUnlocked == TRUE  \* variant: the lock is not waited for

InterviewUnlocked == hr = HrIdle

-----------------------------------------------------------------------------
(* Turns.                                                                  *)

MainTurn(q, s) ==
  [root |-> q, seq |-> s, kind |-> "MAIN", followUpIndex |-> 0,
   parent |-> NoTurn, run |-> NoRun, status |-> "OPEN"]

FollowUpTurns == {i \in 1 .. Len(turns) : turns[i].kind = "FOLLOW_UP"}

FollowUpsOf(q) == Cardinality({i \in FollowUpTurns : turns[i].root = q})

\* Variant: the status of the turn is not checked.
FaultyCloseTurn(i, status) ==
  [j \in 1 .. Len(turns) |->
     IF j = i THEN [turns[j] EXCEPT !.status = status] ELSE turns[j]]

CloseTurn(i, status) ==
  [j \in 1 .. Len(turns) |->
     IF j = i /\ turns[j].status = "OPEN" THEN [turns[j] EXCEPT !.status = status]
                                          ELSE turns[j]]

\* The next main question after position q becomes the current turn, or no
\* question is left.  The three places of the code that advance do the same.
OpenNextMainQuestion(rows, q, lastSeq) ==
  LET more == q < NumQuestions
  IN  /\ turns' = IF more THEN Append(rows, MainTurn(q + 1, lastSeq + 1)) ELSE rows
      /\ session' = [session EXCEPT
           !.currentTurn = IF more THEN Len(rows) + 1 ELSE NoTurn,
           !.runtimeState = IF more THEN "AWAITING_ANSWER" ELSE "READY_TO_FINISH",
           !.advanceDeadline = NoDeadline,
           !.version = @ + 1]

-----------------------------------------------------------------------------
(* Starting, answering and finishing.                                      *)

StartInterview(t) ==
  /\ HasAccess /\ InterviewUnlocked
  /\ session.status = "NONE"
  /\ interview = "INVITED"
  /\ t <= CredentialExpiry
  /\ session' = [status |-> "IN_PROGRESS", runtimeState |-> "AWAITING_ANSWER",
                 currentTurn |-> 1, followUpsUsed |-> 0, version |-> 1,
                 deadline |-> t + Duration, advanceDeadline |-> NoDeadline,
                 endReason |-> "NONE"]
  /\ turns' = Append(turns, MainTurn(1, 1))
  /\ interview' = "IN_PROGRESS"
  /\ accessUntil' = IF accessUntil < t + Duration + ReadGrace
                      THEN t + Duration + ReadGrace ELSE accessUntil
  /\ reply' = "NONE"
  /\ UNCHANGED <<now, runs, application, hr>>

\* Whether the answer just given is followed up by the AI.
Eligible(q, isSkipped, t) ==
  /\ ~isSkipped
  /\ FollowUpsOf(q) < MaxFollowUps[q]
  /\ session.followUpsUsed < MaxFollowUpsTotal
  /\ session.deadline - t >= MinRemaining

AdvanceDeadline(t) ==
  IF t + AiWindow > session.deadline THEN session.deadline ELSE t + AiWindow

\* The first transaction of a submission ends with a run in processing; the
\* AI is called after it.
PrepareAdvancingRun(parent, t) ==
  /\ session' = [session EXCEPT !.currentTurn = NoTurn,
                                !.runtimeState = "ADVANCING",
                                !.advanceDeadline = AdvanceDeadline(t),
                                !.version = @ + 1]
  /\ runs' = Append(runs, [status |-> "PROCESSING", phase |-> "calling",
                           expectedVersion |-> session.version + 1,
                           parent |-> parent])

\* A submission of an answer, or of a skip, for the turn id.
SubmitAnswer(id, isSkipped, t) ==
  /\ HasAccess
  /\ InProgress
  /\ ~DeadlinePassed(t)
  /\ session.currentTurn = id
  /\ turns[id].status = "OPEN"
  /\ LET q == turns[id].root
         closed == CloseTurn(id, IF isSkipped THEN "SKIPPED" ELSE "ANSWERED")
     IN  IF Eligible(q, isSkipped, t)
           THEN turns' = closed /\ PrepareAdvancingRun(id, t)
           ELSE OpenNextMainQuestion(closed, q, turns[id].seq) /\ UNCHANGED runs
  /\ reply' = "NONE"
  /\ UNCHANGED <<now, interview, application, accessUntil, hr>>

ClosedStatus(endReason) ==
  CASE endReason = "DEADLINE_REACHED" -> "EXPIRED"
    [] endReason = "HR_CANCELLED"     -> "CANCELLED"
    [] OTHER                          -> "COMPLETED"

\* The run and the workflow of a session that is closed while advancing are
\* left alone, and so is the advance deadline.
CloseSession(endReason) ==
  /\ InterviewUnlocked
  /\ turns' = CloseTurn(session.currentTurn, "CLOSED_UNANSWERED")
  /\ session' = [session EXCEPT !.status = ClosedStatus(endReason),
                                !.runtimeState = "CLOSED",
                                !.endReason = endReason,
                                !.currentTurn = NoTurn,
                                !.version = @ + 1]
  /\ interview' = ClosedStatus(endReason)
  /\ application' = "UNDER_REVIEW"
  /\ UNCHANGED <<now, runs, accessUntil, hr>>

\* Variant: no current turn is taken for no question left.
FaultyFinishSession(confirmEarlyFinish, t) ==
  /\ HasAccess
  /\ InProgress
  /\ ~DeadlinePassed(t)
  /\ session.currentTurn = NoTurn \/ confirmEarlyFinish
  /\ CloseSession(IF session.currentTurn = NoTurn
                    THEN "ALL_QUESTIONS_ANSWERED" ELSE "SUBMITTED_EARLY")
  /\ reply' = "NONE"

FinishSession(confirmEarlyFinish, t) ==
  /\ HasAccess
  /\ InProgress
  /\ ~DeadlinePassed(t)
  /\ session.runtimeState = "READY_TO_FINISH" \/ confirmEarlyFinish
  /\ CloseSession(IF session.runtimeState = "READY_TO_FINISH"
                    THEN "ALL_QUESTIONS_ANSWERED" ELSE "SUBMITTED_EARLY")
  /\ reply' = "NONE"

\* A submission or a finish after the deadline: the handler closes the session
\* and then throws 410 SESSION_EXPIRED inside the transaction, which rolls the
\* closing back.
RefuseExpired(t) ==
  /\ HasAccess /\ InterviewUnlocked
  /\ InProgress
  /\ DeadlinePassed(t)
  /\ reply' = "SESSION_EXPIRED"
  /\ UNCHANGED <<now, session, turns, runs, interview, application, accessUntil, hr>>

-----------------------------------------------------------------------------
(* Reading the session, which reconciles it with the clock.                *)

CloseAtDeadline(t) ==
  /\ HasAccess
  /\ InProgress
  /\ DeadlinePassed(t)
  /\ CloseSession("DEADLINE_REACHED")
  /\ reply' = "NONE"

\* Variant: only a session with a run in processing is recovered.
FaultyRecoverStaleAdvancing(t) ==
  /\ HasAccess
  /\ Advancing
  /\ ~DeadlinePassed(t)
  /\ t >= session.advanceDeadline
  /\ \E i \in 1 .. Len(runs) : runs[i].status = "PROCESSING"
  /\ runs' = [i \in 1 .. Len(runs) |->
                IF runs[i].status = "PROCESSING" THEN [runs[i] EXCEPT !.status = "FAILED"]
                                                 ELSE runs[i]]
  /\ LET last == turns[Len(turns)]
     IN  OpenNextMainQuestion(turns, last.root, last.seq)
  /\ reply' = "NONE"
  /\ UNCHANGED <<now, interview, application, accessUntil, hr>>

RecoverStaleAdvancing(t) ==
  /\ HasAccess
  /\ Advancing
  /\ ~DeadlinePassed(t)
  /\ t >= session.advanceDeadline
  /\ runs' = [i \in 1 .. Len(runs) |->
                IF runs[i].status = "PROCESSING" THEN [runs[i] EXCEPT !.status = "FAILED"]
                                                 ELSE runs[i]]
  /\ LET last == turns[Len(turns)]
     IN  OpenNextMainQuestion(turns, last.root, last.seq)
  /\ reply' = "NONE"
  /\ UNCHANGED <<now, interview, application, accessUntil, hr>>

GetSession(t) == CloseAtDeadline(t) \/ RecoverStaleAdvancing(t)

-----------------------------------------------------------------------------
(* The follow-up workflow of a run, outside and inside its transaction.    *)

AiReturns(i, outcome) ==
  /\ runs[i].phase = "calling"
  /\ runs' = [runs EXCEPT ![i].phase = outcome]
  /\ reply' = "NONE"
  /\ UNCHANGED <<now, session, turns, interview, application, accessUntil, hr>>

\* succeed, fail and supersede: only a run still in processing changes.
SettleRun(i, status) ==
  runs' = [runs EXCEPT ![i].phase = "done",
                       ![i].status = IF @ = "PROCESSING" THEN status ELSE @]

\* Variant: the version of the session is not compared.
FaultyLateResult(i) == ~Advancing

LateResult(i) == ~Advancing \/ session.version # runs[i].expectedVersion

\* Variant: the late result is dropped and its run is left in processing.
FaultySupersede(i) ==
  /\ runs' = [runs EXCEPT ![i].phase = "done"]
  /\ UNCHANGED <<session, turns>>

Supersede(i) ==
  /\ SettleRun(i, "SUPERSEDED")
  /\ UNCHANGED <<session, turns>>

BudgetsAllow(q) ==
  /\ FollowUpsOf(q) < MaxFollowUps[q]
  /\ session.followUpsUsed < MaxFollowUpsTotal

FollowUpTurn(i) ==
  LET parent == turns[runs[i].parent]
  IN  [root |-> parent.root, seq |-> parent.seq + 1, kind |-> "FOLLOW_UP",
       followUpIndex |-> FollowUpsOf(parent.root) + 1,
       parent |-> runs[i].parent, run |-> i, status |-> "OPEN"]

AskFollowUp(i) ==
  /\ turns' = Append(turns, FollowUpTurn(i))
  /\ session' = [session EXCEPT !.currentTurn = Len(turns) + 1,
                                !.runtimeState = "AWAITING_ANSWER",
                                !.advanceDeadline = NoDeadline,
                                !.followUpsUsed = @ + 1,
                                !.version = @ + 1]
  /\ SettleRun(i, "SUCCEEDED")

ContinueWithNextMain(i, status) ==
  LET parent == turns[runs[i].parent]
  IN  /\ OpenNextMainQuestion(turns, parent.root, parent.seq)
      /\ SettleRun(i, status)

\* The second transaction of a submission, for a valid proposal.  Past the
\* advance deadline the run is superseded and the session stays advancing.
ApplyAiResult(i) ==
  /\ runs[i].phase \in {"ask", "continue"}
  /\ IF LateResult(i) \/ now >= session.advanceDeadline
       THEN Supersede(i)
       ELSE IF runs[i].phase = "ask" /\ BudgetsAllow(turns[runs[i].parent].root)
              THEN AskFollowUp(i)
              ELSE ContinueWithNextMain(i, "SUCCEEDED")
  /\ reply' = "NONE"
  /\ UNCHANGED <<now, interview, application, accessUntil, hr>>

\* The second transaction after an AI error or an invalid proposal; it does
\* not look at the advance deadline.
ApplyFallback(i) ==
  /\ runs[i].phase = "error"
  /\ IF LateResult(i) THEN Supersede(i) ELSE ContinueWithNextMain(i, "FAILED")
  /\ reply' = "NONE"
  /\ UNCHANGED <<now, interview, application, accessUntil, hr>>

\* The process dies during the AI call, or the second transaction fails and
\* its error is reported or swallowed: nothing settles the run any more.
WorkflowDies(i) ==
  /\ runs[i].phase \notin {"done", "dead"}
  /\ runs' = [runs EXCEPT ![i].phase = "dead"]
  /\ reply' = "NONE"
  /\ UNCHANGED <<now, session, turns, interview, application, accessUntil, hr>>

-----------------------------------------------------------------------------
(* HR transactions: revoke of the interview, withdrawal of the application. *)

InterviewOpen == interview \in {"INVITED", "IN_PROGRESS"}

\* Locks application and interview, and reads the session without a lock.
HrReads(kind) ==
  /\ hr = HrIdle
  /\ \/ kind = "revoke" /\ InterviewOpen
     \/ kind = "withdraw" /\ application # "WITHDRAWN"
  /\ hr' = [kind |-> kind, seen |-> session]
  /\ reply' = "NONE"
  /\ UNCHANGED <<now, session, turns, runs, interview, application, accessUntil>>

\* Writes a running session back as it was read: the turn that was current
\* then is closed if it is still open, and the version is one more than then.
CancelSession ==
  IF InterviewOpen /\ hr.seen.status = "IN_PROGRESS"
    THEN /\ turns' = CloseTurn(hr.seen.currentTurn, "CLOSED_UNANSWERED")
         /\ session' = [session EXCEPT !.status = "CANCELLED",
                                       !.runtimeState = "CLOSED",
                                       !.endReason = "HR_CANCELLED",
                                       !.currentTurn = NoTurn,
                                       !.version = hr.seen.version + 1]
    ELSE UNCHANGED <<session, turns>>

ApplicationAfterHr ==
  IF hr.kind = "withdraw" THEN "WITHDRAWN"
  ELSE IF application # "INTERVIEWING" THEN application
  ELSE IF interview = "INVITED" THEN "SHORTLISTED"
  ELSE "UNDER_REVIEW"

HrCommits ==
  /\ hr # HrIdle
  /\ CancelSession
  /\ interview' = IF InterviewOpen THEN "CANCELLED" ELSE interview
  /\ application' = ApplicationAfterHr
  /\ hr' = HrIdle
  /\ reply' = "NONE"
  /\ UNCHANGED <<now, runs, accessUntil>>

\* The transaction is rolled back: an error, or the victim of a deadlock with
\* a candidate's transaction that locked the session and wants the interview.
HrAborts ==
  /\ hr # HrIdle
  /\ hr' = HrIdle
  /\ reply' = "NONE"
  /\ UNCHANGED <<now, session, turns, runs, interview, application, accessUntil>>

Tick ==
  /\ now < MaxTime
  /\ now' = now + 1
  /\ reply' = "NONE"
  /\ UNCHANGED <<session, turns, runs, interview, application, accessUntil, hr>>

-----------------------------------------------------------------------------

CandidateRequest(t) ==
  \/ StartInterview(t)
  \/ \E isSkipped \in BOOLEAN, id \in 1 .. Len(turns) : SubmitAnswer(id, isSkipped, t)
  \/ \E confirmEarlyFinish \in BOOLEAN : FinishSession(confirmEarlyFinish, t)
  \/ RefuseExpired(t)
  \/ GetSession(t)

WorkflowStep(i) ==
  \/ \E outcome \in {"ask", "continue", "error"} : AiReturns(i, outcome)
  \/ ApplyAiResult(i)
  \/ ApplyFallback(i)

HrStep == (\E kind \in HrTransactions : HrReads(kind)) \/ HrCommits \/ HrAborts

Next ==
  \/ \E t \in RequestTimes : CandidateRequest(t)
  \/ \E i \in 1 .. Len(runs) : WorkflowStep(i) \/ WorkflowDies(i)
  \/ HrStep
  \/ Tick

Spec == Init /\ [][Next]_vars
-----------------------------------------------------------------------------
(* Invariants.                                                             *)

\* The rows hold values of their columns' types, the current turn and the
\* turn of a run exist, and an HR transaction remembers a session row.
TypeOK ==
  /\ now \in Nat
  /\ session \in SessionRow
  /\ turns \in Seq(Turn)
  /\ runs \in Seq(Run)
  /\ interview \in InterviewStatus
  /\ application \in ApplicationStatus
  /\ accessUntil \in Nat
  /\ hr \in [kind : {"none", "revoke", "withdraw"}, seen : SessionRow]
  /\ reply \in {"NONE", "SESSION_EXPIRED"}
  /\ session.currentTurn \in 0 .. Len(turns)
  /\ \A i \in 1 .. Len(runs) : runs[i].parent \in 1 .. Len(turns)

\* While a session is in progress exactly its current turn is open, and it has
\* one exactly when it awaits an answer; a session that was finished or that
\* expired leaves no turn open, even when the AI's transaction and the
\* candidate's requests come in any order (the partial unique index on open
\* turns, and what getSession shows as the current question).
OneOpenTurn ==
  /\ InProgress =>
       /\ \A i \in 1 .. Len(turns) : turns[i].status = "OPEN" <=> i = session.currentTurn
       /\ session.currentTurn # NoTurn <=> session.runtimeState = "AWAITING_ANSWER"
  /\ session.status \in {"COMPLETED", "EXPIRED"} =>
       \A i \in 1 .. Len(turns) : turns[i].status # "OPEN"

\* The sequence numbers are 1, 2, 3, ... although the AI's transaction takes
\* the last one from before its call; the main questions are asked in the order
\* of their positions, each once, and the follow-ups of a question come right
\* after it, numbered 1, 2, ...  The unique indexes (session, sequence_no) and
\* (session, root, follow_up_index) therefore never reject an insert.
TurnsInOrder ==
  \A i \in 1 .. Len(turns) :
    LET turn == turns[i]
        previous == turns[i - 1]
    IN  /\ turn.seq = i
        /\ IF i = 1 THEN turn.kind = "MAIN" /\ turn.root = 1
           ELSE IF turn.kind = "MAIN" THEN turn.root = previous.root + 1
           ELSE /\ turn.root = previous.root
                /\ turn.parent = i - 1
                /\ turn.followUpIndex = previous.followUpIndex + 1

\* No interleaving of late, repeated and recovered AI results exceeds the
\* follow-up budget of a question or of the interview, and followUpsUsed is the
\* number of follow-ups that exist.
FollowUpBudget ==
  /\ session.followUpsUsed = Cardinality(FollowUpTurns)
  /\ session.followUpsUsed <= MaxFollowUpsTotal
  /\ \A q \in Positions : FollowUpsOf(q) <= MaxFollowUps[q]

\* A follow-up was created by a run that succeeded, for the answered turn the
\* run was started for, and no run created two.
FollowUpFromItsRun ==
  \A i \in 1 .. Len(turns) : turns[i].kind = "FOLLOW_UP" =>
    LET run == turns[i].run
    IN  /\ run \in 1 .. Len(runs)
        /\ runs[run].status = "SUCCEEDED"
        /\ runs[run].parent = turns[i].parent
        /\ turns[turns[i].parent].status = "ANSWERED"
        /\ \A j \in 1 .. Len(turns) : turns[j].run = run => j = i

\* A session that is advancing belongs to the newest run, started for its last
\* turn, which is answered; until the advance deadline that run is still in
\* processing.  No other run can match the version of a session in progress.
AdvancingOwnedByNewestRun ==
  InProgress =>
    /\ \A i \in 1 .. Len(runs) : ~LateResult(i) => i = Len(runs)
    /\ Advancing =>
         /\ runs # <<>>
         /\ LET run == runs[Len(runs)]
            IN  /\ run.expectedVersion = session.version
                /\ run.parent = Len(turns)
                /\ run.status = "PROCESSING" \/ now >= session.advanceDeadline
         /\ turns[Len(turns)].status = "ANSWERED"

\* A session ready to finish, or finished with every question answered, has
\* put every main question to the candidate, and each of its turns was answered
\* or skipped, whatever the AI, the recovery and the fallback did on the way.
NoQuestionLost ==
  (InProgress /\ session.runtimeState = "READY_TO_FINISH")
      \/ session.endReason = "ALL_QUESTIONS_ANSWERED" =>
    /\ \A q \in Positions : \E i \in 1 .. Len(turns) : turns[i].kind = "MAIN" /\ turns[i].root = q
    /\ \A i \in 1 .. Len(turns) : turns[i].status \in {"ANSWERED", "SKIPPED"}

\* Session, interview and application tell the same story although three
\* transactions write them under different locks.
StatusesAgree ==
  /\ session.status = "NONE" => interview \in {"INVITED", "CANCELLED"}
  /\ InProgress => interview = "IN_PROGRESS" /\ application = "INTERVIEWING"
  /\ session.status \in {"COMPLETED", "EXPIRED", "CANCELLED"} =>
       interview = session.status /\ application \in {"UNDER_REVIEW", "WITHDRAWN"}
  /\ interview = "INVITED" => application = "INTERVIEWING"

\* A candidate is told that the time is over only when it is, although the
\* handler decides with a clock it read before it waited for the row; the
\* session is still in progress then, since the refusal rolls its closing back.
RefusedOnlyWhenExpired ==
  reply = "SESSION_EXPIRED" => InProgress /\ now >= session.deadline

\* After every transaction the rows of a session are consistent: each has its
\* type; exactly the current turn of a session in progress is open; the counted
\* follow-ups are those that exist and within both budgets; only the newest run
\* can still match the version of the session; session, interview and
\* application agree; and a refusal is justified (resolveTurn,
\* applyAiResultTransaction, recoverStaleAdvancing, closeSession and the
\* transactions of HR together).
SessionConsistent ==
  /\ TypeOK
  /\ OneOpenTurn
  /\ FollowUpBudget
  /\ AdvancingOwnedByNewestRun
  /\ StatusesAgree
  /\ RefusedOnlyWhenExpired

-----------------------------------------------------------------------------
(* Properties of steps.                                                    *)

\* Turns are only added; what was asked never changes, and a turn that was
\* answered, skipped or closed stays so: answers are immutable.
HistoryIsImmutable ==
  [][/\ Len(turns) <= Len(turns')
     /\ \A i \in 1 .. Len(turns) :
          \/ turns'[i] = turns[i]
          \/ /\ turns[i].status = "OPEN"
             /\ turns'[i] = [turns[i] EXCEPT !.status = turns'[i].status]]_vars

\* A closed session and its turns never change again, neither by a late AI
\* result nor by a second closing: the first reason stands.
ClosedForGood ==
  [][session.status \in {"COMPLETED", "EXPIRED", "CANCELLED"} =>
       UNCHANGED <<session, turns, interview>>]_vars

\* A run settles once: a result that comes after the recovery failed the run,
\* or a recovery after the result, changes nothing.
RunSettlesOnce ==
  [][\A i \in 1 .. Len(runs) :
       runs[i].status # "PROCESSING" => runs'[i].status = runs[i].status]_vars

\* No step takes back what the candidate or HR was told: a settled turn, a
\* settled run and a closed session stay what they are, whichever late result,
\* recovery or second closing comes after (closeSession, AiRunService).
NothingIsUndone ==
  /\ HistoryIsImmutable
  /\ RunSettlesOnce
  /\ ClosedForGood

-----------------------------------------------------------------------------
(* Liveness.  Row locks are granted in the order of the requests, so that a *)
(* candidate's request is not passed over for ever: strong fairness.  The  *)
(* client polls a session that is open (pollAfterMs while it advances).    *)
(* The clock may stop at any time: what follows does not wait for it, and  *)
(* the closing at the deadline cannot stand in for the recovery.           *)

Fairness ==
  /\ SF_vars(\E t \in RequestTimes : GetSession(t))
  /\ WF_vars(HrCommits \/ HrAborts)
  /\ WF_vars(\E i \in 1 .. Len(runs) : WorkflowStep(i))

FairSpec == Spec /\ Fairness

\* A session past its deadline is closed as long as the candidate can read it.
DeadlineReconciled ==
  (InProgress /\ now >= session.deadline) ~> (~InProgress \/ ~HasAccess)

\* A session does not advance for ever, though the workflow may die and a late
\* result leaves it advancing: reading it recovers it.
AdvancingReconciled ==
  (Advancing /\ now >= session.advanceDeadline) ~> (~Advancing \/ ~HasAccess)

\* Reading a session ends what the clock has overtaken, though no job does: the
\* session past its deadline, and the wait for an answer of the AI that died.
SessionReconciled ==
  /\ DeadlineReconciled
  /\ AdvancingReconciled

\* At most one run is started for a turn.
RunIds == 1 .. (NumQuestions + MaxFollowUpsTotal)

Processing(i) ==
  i <= Len(runs) /\ runs[i].status = "PROCESSING" /\ runs[i].phase # "dead"

\* No run whose workflow lives stays in processing: neither that of a session
\* that was closed or cancelled meanwhile, nor one whose result is late.
RunsSettle == \A i \in RunIds : Processing(i) ~> ~Processing(i)

-----------------------------------------------------------------------------
(* The dialogue this implements.                                           *)

DialoguePhase ==
  IF session.status = "NONE" THEN "idle"
  ELSE IF ~InProgress THEN "ended"
  ELSE IF session.runtimeState = "AWAITING_ANSWER" THEN "asking"
  ELSE IF session.runtimeState = "ADVANCING" THEN "considering"
  ELSE "exhausted"

Dialogue == INSTANCE SessionDialogue WITH
  asked <- [i \in 1 .. Len(turns) |-> turns[i].root],
  used <- [q \in Positions |-> FollowUpsOf(q)],
  usedTotal <- session.followUpsUsed,
  phase <- DialoguePhase

\* Under all the interleavings of this module the candidate sees nothing but
\* the dialogue: no question is repeated, passed over or asked after the end.
ImplementsDialogue == Dialogue!Spec
=============================================================================
