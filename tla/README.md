# A verification of talent_screen_service

The repository (`src/nestjs-auth`) is the NestJS backend of a talent screening
product: HR files applications, uploads CVs, generates question sets, invites
candidates to interviews run with an AI, reviews them and decides.  This directory holds
TLA+ models of its protocols, their TLC configurations and TLAPS proofs.

Source paths below are relative to `src/nestjs-auth/src/` (services are named
without their directory where that is plain); `README.md:n` is the
repository's own `src/nestjs-auth/README.md`.

## 1. Inventory

The service is one process per replica, a PostgreSQL database at READ COMMITTED,
and no background jobs: everything happens in HTTP requests.  What makes it hard
is that requests interleave at transactions, and that

* some rows are locked (`pessimistic_write`) and others are read without a lock
  and *saved* later.  TypeORM's `repository.save` selects the row again and writes
  every column in which the entity in memory differs, so that a save of a stale
  entity takes back what other transactions wrote in between;
* AI calls and mails happen between two short transactions, with the result
  applied by the second, if at all;
* an exception inside a transaction callback rolls back everything the callback
  wrote, also the state change that the exception reports.

| component | state | operations | talks to | hard | must hold |
|---|---|---|---|---|---|
| interview-runtime (`interview-session`, `interview-turn`, `follow-up-ai`, `runtime-transition`) | `interview_sessions`, `interview_turns`, `answers`, its `ai_runs` | start, read, answer, skip, finish; AI workflow; recovery; closing | interviews and applications (statuses), AI provider, credentials | late AI results, dead workflows, deadline, HR cancelling meanwhile | one open turn; order of questions; budgets; closed is closed; everything is reconciled |
| interviews (`interviews`, `interview-lifecycle`, `candidate-access`) | `interviews`, `invitations`, `interview_access_credentials` | create, resend, revoke, lazy expiry, exchange of a link, lobby | applications, notifications, runtime | unlocked reads saved whole, several locks, expiry on read | an application has one open interview; dead links stay dead; cancelled is shut |
| applications | `applications` | create, notes, withdraw, remove, list | interviews, sessions (withdrawal), documents | version, many writers | statuses follow the lifecycle; versions name rows |
| documents (`cv-versions`, `cv-extraction-state`, `cv-profile-ai`) | `cv_versions`, `ai_runs`, files, `applications.current_cv_version_id` | upload, extract, retry, edit, approve, remove | storage, AI provider, applications | claims, stale claims, late results, edits meanwhile | a run owns its CV; approved is frozen; no edit is lost |
| notifications | `notifications` | create pending, dispatch, retry | mail provider | timeouts, stale claims, late answers, dead processes | sent again only unacknowledged; accepted is final |
| question-sets (`question-sets`, `question-generation`) | `question_sets`, items, `ai_runs` | manual draft, generate, retry, edit, approve, clone, remove | AI provider, CVs, jobs, interviews | claims and late results; failures stored in transactions that throw; sources that change | questions are the newest run's or HR's; approved is frozen; an interview asks what HR approved; runs settle |
| reviews (`interview-summary`, `hr-review`) | `evaluations`, `ai_runs` | regenerate summary, create HR review | AI provider, runtime (transcript) | revision numbers; checks outside of the transaction | revisions are 1, 2, ...; no summary after a decision, no review begun after it |
| decisions | `application_decisions` | decide | reviews, applications, notifications | cites the latest review read without its lock | one decision per application, on the latest review |
| idempotency | `idempotency_keys` | execute | uploads, interviews, generations, summaries, reviews, decisions | crash, expiry, errors after the commit; no lock and no transaction of its own | a second effect of a key only when the first answer was an error; true answers |
| auth (`auth`, `refresh-token`, `login-attempt`) | `users`, `refresh_tokens`, `action_tokens`, `login_attempts` | login, refresh, logout, forgot and reset password, change password, activate | users, email | rotations at once, a new password during a rotation, an unlocked counter | one live token per family; none from before a new password; links are used once |
| admin, users, roles | `users`, role assignments, `action_tokens` | invite, resend, assign and remove roles, disable | auth, email | two administrators against each other; locks in opposite orders | at least one active administrator; one open link |
| jobs, candidates | `jobs`, `candidates` | create, edit, open, close, remove | applications, interviews | checks without a lock before the write; whole rows saved | nothing twice; no application without its candidate; nothing undone |
| ai (`ai-run`, `ai`, providers) | `ai_runs` | start, succeed, fail, supersede | every owner of a run | | a run settles once |
| storage | files | put, delete | uploads | not a part of any transaction | files and rows agree |
| audit, email, rate-limit, external-providers, time, config, migrations | - | - | - | - | plumbing and I/O |

`platform/jobs` declares ports for background jobs and an outbox that nothing
implements.  The hazards of each component, at their lines and with the
properties that cover them, are in `PROJECT.json`.

## 2. Modules

| module | what it is |
|---|---|
| `SessionDialogue` | abstract: what a session promises its candidate |
| `SessionRuntime` | one session with its AI workflow, its deadline and the HR transactions; implements `SessionDialogue` |
| `SessionRuntime_proofs` | theorems about it, for all constants |
| `ApplicationLifecycle` | abstract: the stages of an application and its interviews |
| `InterviewAccess` | one application, its interviews, links and cookies: composes applications, interviews, lobby and start, the closing of sessions, decisions and the removal of CVs; its action property `FollowsLifecycle` maps it to `ApplicationLifecycle` |
| `CvExtraction` | the CVs of one application, the AI runs over them, edits and approval |
| `NotificationDispatch` | one notification and the calls that send it |
| `AiJobs` | abstract: what an AI run promises to what it is for; `CvExtraction` and `QuestionSets` implement it (`FollowsAiJobs`) |
| `QuestionSets` | the question sets of one application, the AI runs over them, edits, approval, and the interviews made from them |
| `ReviewDecision` | what follows an interview: summaries, HR reviews, the decision |
| `IdempotencyKeys` | the key table and the requests that pass through `execute`, whatever their action is |
| `CvUpload` | the upload of a CV: `IdempotencyKeys` composed with the document storage and the rows of `cv_versions` |
| `Intake` | a job, candidates, applications and the creation of interviews, with their unlocked checks |
| `Accounts` | the accounts of the administration, statement by statement with their row locks |
| `LoginSessions` | one account as its owner uses it: login and its counter, refresh tokens, reset links, new passwords |
| `IntakeAndUpload_proofs` | theorems about `Intake`, and about `CvUpload` with its `IdempotencyKeys` |
| `AccountsAndLogin_proofs` | theorems about `Accounts` and about `LoginSessions`, whose definitions are named apart where both are extended (`LoginInit`, `LoginSpec`) |
| `InterviewAccess_proofs`, `ReviewDecision_proofs`, `NotificationDispatch_proofs`, `CvExtraction_proofs`, `QuestionSets_proofs` | theorems about each, for all constants |
| `*_MC` | instances for TLC |

Conventions.  A transaction that takes its locks before it reads is one action,
guards and commit together.  Where the code reads without a lock and writes
later there are two actions, `Begin...` and `End...`, with a variable that
holds what was read; `End...` then writes the whole row as it was read, as `save`
does.  HR sends the version it has seen: `seen` is what it read last, at any
earlier time.  Rows are numbered by insertion, so `0` is null.  Definitions named
`Faulty...` are not part of any specification: they are plausible bugs, and each
property is known to fail when one replaces its original.

### SessionRuntime

`session`, `turns`, `runs` are the rows of `interview_sessions`,
`interview_turns` and `ai_runs`; a run carries the `phase` of the workflow that owns it.
`StartInterview`, `SubmitAnswer` (answer or skip), `FinishSession` and `GetSession` are the
candidate's requests, each with a time `t` read *before* the row lock was
waited for (`RequestTimes`).  `GetSession` closes at the deadline
(`CloseAtDeadline`) or recovers a stale advancing session
(`RecoverStaleAdvancing`).  `RefuseExpired` is the 410 of `submitAnswer` and
`finishSession`, whose closing is rolled back by its own exception.  An answer either opens the next main question or
prepares a run (`PrepareAdvancingRun`); the workflow then waits for the AI
(`AiReturns`), and `ApplyAiResult` or `ApplyFallback` is its second transaction.  Each
begins with `LateResult`: status, state and version of the session, in the
code's order.  `WorkflowDies` leaves the run in processing for ever.
`HrReads`/`HrCommits` are `revoke` and `withdraw`, which hold the locks of application
and interview but read the session without its lock.  A closing session needs those
two locks last, hence `InterviewUnlocked`; when each side waits for the other PostgreSQL
aborts one: either `HrAborts`, or the candidate's request, which changes nothing.

Two reads of a session by HR in one transaction, the open interview and its session, are one step
(`HrReads`), as both rows can only be changed by that transaction or the session's own.

### InterviewAccess

`application`, `interviews`, `invitations`, `credentials` are rows; the other
variables hold a request or transaction under way.  `CreateInterview` checks
version and open interviews under the application's lock; the readiness of
job, CV and question set is an input that is always given, as it only restricts creation.
`BeginExchange`, `StoreCredential`, `StampInvitation` are the three unlocked steps of
`exchangeToken`; `BeginLobby`/`StampCredential` are `getLobby`;
`BeginStart`/`EndStart` are `startInterview`, which checks the cookie before it locks;
`BeginExpire`/`EndExpire` are the lazy expiry.  `EndClose` saves the application
`closeSession` read; the query does not find a deleted application, but one deleted since is
restored.  A soft delete holds its row lock to the end, which the guards on `removing` stand for.
A withdrawal and a closing session lock application and session in opposite
orders: `BeginClose` waits for the withdrawal, and when both are under way one ends in
`WithdrawAborts` or `CloseAborts`.  `RequestDies` is a process that ends between two steps
of a candidate.

### CvExtraction

`cvs` are rows of `cv_versions`, `runs` of `ai_runs`, each with its worker.
`ClaimInitial` and `ClaimRetry` are the claims, `Complete`, `CompleteLate`,
`Fail`, `FailLate` the transactions that apply a result, `FailIsLost` a failure
transaction that fails, `WorkerDies` the end of the process.  What lies between
(storage, PDF parser, model, validators) either gives a profile or fails
(`WorkFails`).  `CompleteLate` throws inside the `try` block that also catches all errors.
`BeginRemove`/`EndRemove` are the removal, one at a time; the read of the
application and of the CV that becomes current are one step.  `ApplicationMoves` stands for
whatever moves the application in or out of the shortlist.

### NotificationDispatch

`row` is the notification, `calls` the dispatches under way, `log` a history of the
attempts and their answers.  `Retry` is HR's request, which checks the row without a lock;
`Claim`, `NotClaimed`, `PayloadUnavailable` are the outcomes of the first
transaction, `Send` the mail server, `FinalizeDispatchResult` the last transaction.
Only the answer ACCEPTED tells what became of the mail: a timeout may hide an accepted one, and so may an
error, as the provider reports every other rejection as one, a connection lost before the reply included.
Every attempt therefore counts as a mail that may have arrived.
`finalizeFailed` reads and saves without a lock and is two steps.  `content` says, once and for all,
whether the payload decrypts and renders, both being pure functions of it.

### QuestionSets

`sets` are the rows of `question_sets` with their items, `runs` those of `ai_runs`, each with what its
worker answers.  `GenerateDraft` and `RetryGeneration` are the first
transactions; `StoreQuestions`, `DropResult` and `MarkGenerationFailed` the ends of
`executeAiAndApplyResult`.  `DropResult` is a set that is gone, no longer the worker's, or
outdated: each is thrown inside the transaction, so that nothing it saved stays.
`ResultIsLost` is a dead process or a transaction that fails.  Questions are known by who
made them (which run, which edit of HR); what a set is made from, an approved CV profile and
a version of the job, is one number, `source`, and a set is stale when its number is not the
current one.  A number may come back: removing the current CV makes the one before current
again.  A manual draft whose CV and job were read while both changed has a mixture, `0`.
`retryGeneration`, `approve` and `clone` lock the set and read application, CV and job
without a lock: they are one action, taken at the time of that read.  This loses nothing,
because nobody who changes application, CV or job reads a set, and whoever
writes or reads the set under its lock waits.  `CreateInterview` is what the creation of an
interview asks of the set, `sanctioned` a history of what HR had read when it approved.

### ReviewDecision

`regenerateSummary` is `BeginSummary` (checks and the transaction that starts the run),
`AiAnswers` or `Fail`, then `LockInterview`, `Recheck` and `StoreSummary` of its second
transaction.  `BeginReview` are the checks of `createHrReview`, `EndReview` its transaction,
which does not repeat them.  `BeginDecide` takes the application's lock and makes all checks,
`EndDecide` inserts and commits.  The two sides lock different rows, but the foreign key
`basis_interview_id` makes the insert of a decision wait for whoever has the interview
`FOR UPDATE`, and an insert not yet committed makes those wait; so `EndDecide` asks for
`InterviewUnlocked`.  That this suffices to keep summaries out of decided
applications is `NoSummaryAfterDecision`; for reviews it does not (section 4).
Removals of CVs, which may save an older application over a decision, are left to
`access_cv_removed`.

### IdempotencyKeys and CvUpload

`keys` are the rows of `idempotency_keys`, `requests` the calls of `execute` with what they
have read, `effects` the rows the business transactions inserted.  Each statement
is a step: `Receive` reads the row of the key and answers from it, `DeleteExpired` and `Insert`
take over, `Commits` is the transaction of the caller, `Complete` saves the answer, `Fails` is the
`catch` block, which cannot tell an error before the commit from one after it.
`save` of a row that somebody deleted inserts it again, which `Complete` does.
A hash keeps the fields of the top level only (`ComputeHash`).  `CvUpload` EXTENDS the
module and says what the action does: `StoreFile` before the transaction,
`InsertCv`, `RollBack` with its clean-up that may fail, and `CommitUnanswered`, a commit whose
answer is lost and after which the code deletes the file of a row that exists.
Application statuses come and go (`ApplicationChanges`).

### Intake

`job`, `candidates`, `applications` are rows, `pending` the requests that have made their
unlocked checks and not yet written.  `BeginX` is everything up to the last check, `EndX` the
transaction: `EndEdit` saves the candidate as `BeginEdit` read it, a removal included;
`EndCreate`, `EndEdit` and `EndApply` meet the unique indexes, which cover rows not removed.
The job is always locked and versioned, so its operations are one action each.
`raced` is a history: candidates that two requests at odds were about at the same time.

### Accounts

A transaction is a sequence of statements (`step`) with the rows it has locked
(`locks`): accounts, the open links of an account, the admin role.  A statement that needs a locked row waits
(`Free`); a transaction in a circle of waits is rolled back (`DatabaseAborts`), any
may fail (`Fails`).  `CountAdmins` is `getActiveAdminIds`, which locks account,
assignment and role of every active administrator and looks at them again after a wait;
the role's row stands for all assignments, as no two counts can hold it.  Activation locks link, then account, a
resend account, then links.  An actor may begin anything while active: the guard looks the permission up before the transaction.

### LoginSessions

`attempts` is the row of the failure counter, read by `ReadAttempts` and saved by `SaveAttempt`
under the id it was read with; `tokens` the refresh tokens with the family and with the `epoch` of the
account, which counts new passwords and disablings.  `RotateLocks`/`RotateWrites` are `rotate`, whose
insert shares the account's row through its foreign key and so waits for a
new password under way (`AccountLocked`); that wait is what keeps old tokens out.
`FindTokens`/`RevokeAllForUser` is a single UPDATE, which sees the tokens of its snapshot
and waits for locked ones.  `BeginForgotPassword`/`EndForgotPassword` is the same for links.
`LockUser`, `ResetLocksLink`, `ResetLocksUser` and `RevokeAndCommit` are new passwords and
disablings.  `RequestFails` includes the abort of a rotation and a new password that wait for each other.

## 3. Runs

| run | expects | what it asks | bounds | states |
|---|---|---|---|---|
| `session` | pass | `SessionConsistent`, `TurnsInOrder`, `FollowUpFromItsRun`, `NoQuestionLost`, `NothingIsUndone`, `ImplementsDialogue`, `SessionReconciled`, `RunsSettle` | 2 questions with budgets 2 and 1, a total of 2, so that each budget can be the one that binds; deadline at 4, AI window 2, clock to 6 with reading to 5; one lock wait; both HR transactions | 222,658 |
| `access` | pass | `AccessConsistent`, `InterviewingMeansOneOpen`, `LinksAdmitWhomTheyShould`, `FollowsLifecycle` | 2 rounds, 1 resend, 1 cookie, 1 note, clock to 2 with lifetimes of 1 | 1.94 million |
| `cv` | pass | `CvConsistent`, `HrsWordStands`, `FollowsAiJobs`, `RunsSettle` | 1 CV, 3 runs (two retries), 1 edit, clock to 3 with runs stale after 1 | 240,950 |
| `upload` | pass | `FilesAndRowsAgree`, `AnswersAreTrue`, `SecondEffectOnlyInDoubt` | 3 requests with one key and 3 bodies, two of which hash alike; clock to 1 with a lifetime of 1 | 1.23 million |
| `notification` | pass | `MailConsistent`, `AcceptedIsFinal`, `SentAgainOnlyUnacknowledged`, `SendingEnds` | creator and 2 retries, 3 attempts, clock to 4, payload to 3, stale after 1 | 202,836 |
| `question_sets` | pass | `SetsConsistent`, `InterviewAsksWhatHrApproved`, `HrsWordStands`, `FollowsAiJobs`, `RunsSettle` | 2 sets, 2 runs (a retry, or two generations), 1 edit, 1 interview, one combination of sources that comes and goes, clock to 2 with runs stale after 1 | 779,236 |
| `review` | pass | `FilesConsistent`, `FilesClosedByDecision`, `RequestsEnd` | 2 summaries, 2 reviews, 1 decision, two edits | 119,386 |
| `intake` | pass | `IntakeConsistent`, `NothingIsUndone` | 2 addresses, 2 candidates, 2 applications, 1 edit, 2 requests at once, job version to 3 | 3.96 million |
| `accounts` | pass | `LastAdminRemains`, `AccountsConsistent`, `OnlyTheNewestLinkActivates`, `TransactionsEnd` | 3 accounts, 2 of them administrators, 2 transactions at once, 2 links | 57,600 |
| `login` | pass | `TokensConsistent`, `LockIsEarned`, `EachResetUsesALink` | 2 requests at once, a lock after 2 failures for 1 tick, 5 pieces of work, clock to 2 | 1.02 million |
| `access_cv_removed`, `review_not_latest` | violation | section 4 | | |

The `...Consistent` invariants are conjunctions of named parts, each stated on its own above
the conjunction: the type invariant and what must hold between the rows of the component after every
transaction.  The other conjunctions are of the same kind: `NothingIsUndone` of three action
properties of the session, `SessionReconciled` of `DeadlineReconciled` and `AdvancingReconciled`,
`LinksAdmitWhomTheyShould` of `InvitedHasALink`, `ReplacedLinksStayDead` and `RevokedIsShut`,
`HrsWordStands` of what protects an approval and what protects an edit, `FilesClosedByDecision` of
what a decision ends for summaries and for reviews, `RequestsEnd` of the two liveness properties of `review`.

Why the bounds are enough.  Session: two questions have a next and a last one; a
budget of two lets a second follow-up come from a first; three runs let a late
run meet a recovered and a newer one; the clock passes the advance deadline, the
session's deadline and the end of reading.  The proofs lift all these bounds for
safety.  Access: a second round needs the first to be over, which is where
statuses could disagree; the hazards are races of two requests, and every request
of the candidate can be under way with each of HR's.  CV: different CVs meet only in
the application's pointer, so one CV is enough; three runs are a dead one, a stale one and the newest.  Notification: three calls let
a late answer meet a reclaimed and a finished attempt.  Question sets: two sets for clones and for two workers
side by side; a slow worker, its retry and an approval are the longest race the late result check
has to win.  Review: two of everything that is numbered, and one decision, as a second one finds the first.
Upload: three requests are one in doubt, one that takes over and one that finds the answer; a
second key would only repeat the first, as keys share nothing but the application.  Intake: requests at odds
meet in pairs, and each pair can be under way at once; two candidates compete for an address.  Accounts: with two
administrators each can be the other's target, and two transactions suffice for a circle of waits; the
proofs lift the bounds for safety.  Login: a family and its rotations, a login and a new password compete in pairs.

Options.  `Operations`, `HrTransactions` and `MayDie` switch operations off.
`access` has all operations but those overlaps that lose an update for certain: without `"overlap"` a
removal of the current CV keeps other writers of the application out, and a closing session those of
its notes (`Alone`); with it, `access_cv_removed` shows what is lost (section 4).
`CHECK_DEADLOCK FALSE`: clocks and numbers of requests are bounded, and an application that
is decided or withdrawn, a session that is closed, a notification that is accepted or a
question set that is approved has nothing left to do.  `accounts` checks deadlock too: something can always
be begun.  Symmetry is used for requests and addresses in `intake` and `login`, whose properties are invariants
and properties of steps; elsewhere rows are ordered, or liveness forbids it.

Fairness.

* `SessionRuntime`: strong fairness of `GetSession`, because the client polls an
  open session (`pollAfterMs`) and PostgreSQL queues row locks, so that a request
  is not passed over for ever; weak fairness of a live workflow's steps, as AI calls have a
  timeout; weak fairness of the end of an HR transaction.  The clock
  may stop, so a closing at the deadline cannot stand in for a recovery.
* `CvExtraction`: weak fairness of each living worker (its calls time out, it gets its locks) and of
  the commit of a removal.
* `QuestionSets`, `ReviewDecision`: weak fairness of each living worker, and of the end of a decision, for the same reasons.
* `NotificationDispatch`: weak fairness of each living call and of the clock, and HR
  retries what `retry` lets it.

* `Accounts`: strong fairness of a transaction's next statement, because PostgreSQL serves those that
  wait for a row in turn; weak fairness of `DatabaseAborts`, the deadlock detection.

Reconciling is only promised while the candidate has access (`HasAccess`): the service has no
job for it, and a session that nobody reads again stays in progress.

## 4. Where the code departs from its documents

Two runs show a difference with a shortest trace (`findings` in `PROJECT.json` quotes both sides):

* `access_cv_removed`: removing the current CV puts the application back to
  shortlisted while its new interview is open.
* `review_not_latest`: a review stored while a decision is under way, or begun before it, is
  newer than the one the decision had to cite as the latest.

Others are visible in the actions named and have no run of their own:

* a 410 SESSION_EXPIRED does not close the session, as the comment at `interview-session.service.ts:486`
  says, because the exception rolls the closing back (:545, :676); the next GET closes it (`RefuseExpired`,
  `SessionReconciled`);
* a withdrawal writes an invitation version read before a resend (`applications.service.ts:495`); with an
  exchange under way a cookie of the withdrawn interview is admitted, although README.md:216 says
  all are revoked, and beside two resends it is the cookie of a link already replaced.  This is why
  `RevokedIsShut` and `ReplacedLinksStayDead` leave out a withdrawn application;
* `computeHash` keeps the fields of the top level, so bodies that differ in a nested field hash alike.  The requests
  whose payload has the DTO nested (`hr-review.service.ts:61`, `decisions.service.ts:79`) are answered with
  the stored answer when the same key comes with another DTO, where `idempotency.service.ts:84` speaks of a conflict
  (`ComputeHash`, which is why `AnswersAreTrue` compares the top level);
* a reused refresh token does not end its family, as the comment at `refresh-token.service.ts:51` says: the revocation
  is rolled back with the refusal (:69, `RotateLocks`);
* `logoutAll` leaves the token of a rotation in flight (`RevokeAllForUser`), and two requests for a reset link at
  once leave two open links (`EndForgotPassword`);
* an edit of a candidate that overlaps its removal restores it, and one may be removed while an application is
  being created, against README.md:155 (`EndEdit`, `EndRemove`; `raced` marks exactly these);
* an error after the commit deletes the key, and the retry has its effect again, where README.md:228 promises none
  (`Fails`); an upload whose commit is unanswered loses its file (`CommitUnanswered`);
* a lazy expiry decides on a row read before a resend and expires the prolonged
  invitation (`interview-lifecycle.service.ts:66`, `EndExpire`);
* removing the current CV while another is uploaded takes the pointer from the new one
  (`cv-versions.service.ts:783`, `EndRemove`);
* an error that is no timeout is stored as FAILED (`nodemailer-email.provider.ts:86`, `notification-dispatch.service.ts:302`),
  also when the connection was lost after the server had taken the mail: HR's retry then sends it a second time.
  Only the timeout is marked as unknown, so the status does not tell HR of the doubt (`Outcome`, `StatusAfter`);
* two failed logins recorded at once count as one, so that the lock comes later than its message
  says (`login-attempt.service.ts:48`, `SaveAttempt`);
* a notification left in SENDING by a dead process is not sent again: `retry` refuses it before
  `dispatch` could reclaim it as stale (`notifications.service.ts:163`, `Retry`);
* a generation that finds its sources changed saves the failure of set and run and then throws, so the set stays in
  GENERATING and its run in processing (`question-generation.service.ts:686`, `DropResult`);
* a summary refused because the application was decided leaves its run in processing for
  ever (`interview-summary.service.ts:285`, `Recheck`), and the recheck does not see a decided application that
  was removed;
* `getLobby` saves the credential it read and can shorten an access that a start has
  extended (`candidate-access.service.ts:220`, `StampCredential`);
* `closeSession` saves the application it read and can lose notes written
  meanwhile, under the same version (`runtime-transition.service.ts:93`, `EndClose`);
* a cancellation by HR that read the session before the next question was opened leaves that
  turn open (`interviews.service.ts:697`, `CancelSession`); the comment at
  `runtime-transition.service.ts:23` says closing always closes it;
* revoking a *running* interview sends the application to review, while README.md:215
  says it returns to the shortlist (`LeaveInterviewing`);
* the 409 of a superseded extraction is caught and answered as a failure that may be
  retried (`cv-profile-ai.service.ts:253`, `CompleteLate`).

## 5. Proofs

`SessionRuntime_proofs` proves, from `ConstantsAssumption` alone, for every
number of questions, every budget, window, clock bound and set of HR transactions:
`TypeOK`, `OneOpenTurn`, `TurnsInOrder`, `FollowUpBudget`, `FollowUpFromItsRun`,
`AdvancingOwnedByNewestRun`, `NoQuestionLost`, `StatusesAgree`, `RefusedOnlyWhenExpired` as invariants and
`HistoryIsImmutable`, `RunSettlesOnce`, `ClosedForGood` as action properties, and from
them the conjunctions the runs check, `SessionConsistent` (`SessionAlwaysConsistent`) and
`NothingIsUndone` (`NothingIsEverUndone`).
It also proves the refinement, `Spec => ImplementsDialogue`.

The argument.  None of the properties is inductive alone.  That a late AI result
cannot hurt rests on *versions*: a session in progress is advancing only for its newest run, whose
`expectedVersion` is the session's, and every other transaction that leaves it
in progress counts the version up (`RunsInv`).  That the sequence number taken before
the AI call still is the next one rests on the last turn: while the session advances it
is the run's parent and answered (`LastTurnInv`).  That no question is lost needs every
position up to the last main turn asked, and that only the end of the session leaves turns unanswered (`QuestionsInv`); that follow-ups come from
their runs needs that each comes from a succeeded run whose parent is the turn before, answered, while main questions have no
run (`ProvenanceInv`); that HR's unlocked read is harmless needs that while an HR transaction is under way the session keeps
the status it saw, as nobody closes it without the lock of the interview (`HrInv`).  The
inductive invariant `Inv` is the conjunction

    TypeInv /\ OneOpenTurn /\ TurnsInOrder /\ FollowUpBudget /\ SessionInv /\ RunsInv
      /\ LastTurnInv /\ QuestionsInv /\ ProvenanceInv /\ HrInv /\ StatusesAgree

`KindsOfSteps` reduces the many actions to six kinds by their effect on session and turns
(begin, next main question, consider, follow up, end, idle), so that each
conjunct needs six cases, not twenty; the same kinds are the steps of the
dialogue, which gives the refinement.

`AccountsAndLogin_proofs` proves, in its first part, from `AccountsAssumption` alone, for any set of accounts, administrators and
concurrent transactions, that `LastAdminRemains`, `AccountsConsistent` and `OnlyTheNewestLinkActivates`
hold.  The argument is about locks.  `Reliant(s)` says what a transaction has read and still relies
on and that it holds the row that keeps it so: the role's row and another active administrator before a
write that takes one away, the account while it is pending, the link while it is open.  `LocksExclude` says nobody
else holds it, so no other write can falsify it (`HoldersDiffer`, `OnlyOneRemoves`), and `LinksFit` ties
the links of an account to its status.  `Inv` is the conjunction of these with the types and the property itself.

Its second part proves, from `LoginAssumption` alone, for any number of requests at once, any limit and any
lock time, `TokensConsistent`, `LockIsEarned` and `EachResetUsesALink`.  The argument for tokens and links is ownership:
a rotation has its token for itself and the token is live, because whoever else revokes tokens waits for it
(`TokensInv`); a reset has its open link for itself, and one request at a time has the account (`LinksInv`), so when a new password
commits no rotation is left that could insert a token of the old epoch.  The counter has no owner.  What is true of it, of the
saved row and of every row read and not yet saved (`AttemptsInv`), is that it counts no more than the failures since the last
start and locks only at the limit; a row whose lock is over is excepted, as `RecordFailure` starts it again, and
a row read before a start is what `history.met` excepts.

`IntakeAndUpload_proofs` proves, in its first part, `IntakeConsistent` and `NothingIsUndone` from `BoundsAssumption` alone.  Checks and writes are apart and
nothing is locked between, so the invariant says what of a check is left at the write: `Relies(s)` says that it still
holds or its candidate is raced, and `RacesSeen` that two requests at odds about one candidate have made it
raced when the later of them began.  The unique indexes need neither, and hold in any interleaving (`RowsInv`).

`ReviewDecision_proofs` proves `FilesConsistent` and `FilesClosedByDecision`, for any numbers of runs and reviews.  One
worker at a time has the interview and the revision it counted is still the next (`RunsInv`), so that
revisions are 1, 2, ... although the AI answers in any order.  What a decision has checked under the application's
lock stays so until it commits (`DecidingInv`), and because its insert waits for the interview, no worker is past its recheck
when it commits (`ClosedInv`).  Nothing of the kind holds for reviews, which is why only their beginning is excluded.

`NotificationDispatch_proofs` proves `MailConsistent`, `AcceptedIsFinal` and `SentAgainOnlyUnacknowledged`, for any number of
calls and attempts and any times.  An attempt has one call, and once the row tells of its newest attempt no
call works on it (`CallsInv`), so late answers belong to older attempts and are dropped.  `RowInv` says what each status
means for the newest attempt, and `LogInv` that each attempt but the last had timed out, failed or was stale when the next
began.  A claim adds the newest one (`ClaimIsInDoubt`): its answer is out if the row tells of one, a FAILED row
with a valid payload included, and it is stale if the row is still in SENDING.

The second part of `IntakeAndUpload_proofs` proves `FilesAndRowsAgree`, `AnswersAreTrue` and `SecondEffectOnlyInDoubt` from `KeysAssumption`
alone, for any keys, bodies, number of requests and time to live.  A request *owns* the row of its key from its insert until it
fails, unless it has outlived the row (`RequestInv`); a row has one owner, so whoever has an effect under a key that
had one before meets an answered error or an expiry.  This part (`KeysInv`) and its lemmas speak of `IdempotencyKeys`
only and hold for every caller.  `FileInv` says for each step of an upload where its file is.

`CvExtraction_proofs` proves `CvConsistent`, `HrsWordStands` and that the extraction implements `AiJobs` (`FollowsAiJobs`), for any
numbers of CVs, runs and edits, any wait and any of the optional operations.  `processingVersion` is what makes late
answers harmless: runs of one CV have growing versions (`RunsAreOrdered`), none is ahead of its CV, the one in processing is at it, and
a worker whose run was closed under it is behind (`RunFits`).  So the worker whose claim still stands has the newest run, which is what `AiJobs` asks
of a result.  For HR's edits the invariant remembers what the retry knew (`CvFits`): a run in processing over an edited profile is newer
than the edit, or was overdue at the time of it; that is the exception `HrsWordStands` states.

`QuestionSets_proofs` proves `SetsConsistent`, `InterviewAsksWhatHrApproved`, `HrsWordStands` and `FollowsAiJobs`, for any numbers of
sets, runs, edits, sources and interviews and any wait.  Here the pointer `aiRun` of the set decides: it names a run of
the set, no run of the set is newer, and a run in processing is that one (`RunFits`, `SetFits`).  A worker that still
finds its claim therefore has a run in processing, the newest, and closes set and run together; every other answer leaves both alone.
A set has no questions while it is generated or failed, which is why a worker cannot overwrite an edit: HR edits drafts only.
That an interview asks what HR approved needs two more facts, that a version names the questions HR has read (`SeenFits`) and that nothing
but the removal touches an approved set (`KindsOfSave`).  In both modules the refinement goes action by action (`ClaimFollows`, `StoreFollows`, ...) over
`LedgerSteps`, which spells out the steps of `AiJobs`.

`InterviewAccess_proofs` proves `InterviewingMeansOneOpen`, `AccessConsistent`, `LinksAdmitWhomTheyShould` and
`FollowsLifecycle`, which says that `InterviewAccess` implements `ApplicationLifecycle`, for any number of interviews, resends,
cookies and edits, any lifetimes, and any of the optional operations except `"overlap"`.  That hypothesis
(`NoOverlap`) is the one the run `access_cv_removed` is about: with the two lost updates a stale save of the application
puts its status back and the theorems are false.  The inductive invariant
says of each transaction under way that the rows it has read are still as it left them: a withdrawal finds
its interview open, whoever resends or starts meanwhile (`WithdrawalHolds`); a resend and a closing session have the lock of
the interview (`ResendHolds`, `ClosingHolds`), the latter with an application that only an administrator
may have removed since.  `OpenIsLatest` and `StatusesAgree` are the lifecycle: without the first, a lazy expiry could end
an interview that is not the latest and take the application out of INTERVIEWING.  `SeenIsOld` is what makes versions
names of rows: HR has read none that is yet to come.  `LinksAreOrdered` and `LinksFit` say that a later link of an interview has a higher version
and that no link is ahead of its interview, and strictly behind it once it is cancelled; so a replaced link or one
of a revoked interview is never current again, although `StampInvitation` takes revocations back.  The
exception is a withdrawn application (section 4).  The refinement goes transaction by transaction (`RevokeFollows`,
`EndWithdrawFollows`, ...) over `StageSaved`: whoever saves the latest interview ends its round, or leaves the rounds as they are.

Only model-checked: liveness under fairness, which the prover does not do (`SessionReconciled`, `RunsSettle`, `SendingEnds`,
`RequestsEnd`, `TransactionsEnd`); and what the instances with `"overlap"` show.

## 6. Not modelled

Left out for good: listing and searching, permission
checks and the permissions of roles (the admin role keeps the required ones by a guard on a constant set,
`roles.service.ts:136`), prompts and schemas and their validators (pure functions), PDF parsing, how a storage keeps bytes,
templates, encryption, the hashing of passwords and tokens, audit rows, rate limits, configuration.  The expiry of
refresh tokens and links is left out of `Accounts` and `LoginSessions`: it refuses and changes nothing.
Reasons are in `components` of `PROJECT.json`.

Abstractions worth knowing: texts, profiles and snapshots are who wrote them and when; times are small
integers; a version is a natural number; the database and the process share one clock; a
transaction commits or does not, and nobody is in doubt which.

## 7. Plan

Done: the session family with its proofs, access, CVs and their upload with the idempotency keys, notifications,
question sets, reviews and decisions, jobs and candidates, accounts, login and tokens; the safety of each is proved.

1. Proofs: `ReplacedLinksStayDead` of a withdrawn application without a resend beside the withdrawal.
2. `IdempotencyKeys` under a second of its callers, the decision, whose answer does not name a file.
3. Larger instances of `access` (two cookies) and `question_sets` (three runs), which exceed what a short run can visit.
