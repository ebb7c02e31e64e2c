-------------------------- MODULE InterviewAccess ---------------------------
(***************************************************************************)
(* One application, the interviews held for it, the invitations sent for   *)
(* each interview and the access credentials (cookies) that candidates get *)
(* in exchange for an invitation.                                          *)
(*                                                                         *)
(* Grain of atomicity.  A transaction is one action when the locks it      *)
(* takes first cover every row it reads.  It is split where the code reads *)
(* a row without a lock and writes, later, the row as it was read: the     *)
(* candidate's exchange and lobby requests, the start of an interview, the *)
(* lazy expiry, the withdrawal of the application, the removal of its      *)
(* current CV and the closing of a session.  repository.save writes every  *)
(* column of the entity, also those another transaction has changed since. *)
(* A resend is split too: its clock is read when it gets the lock, not     *)
(* when it commits.                                                        *)
(***************************************************************************)
EXTENDS Integers, Sequences, FiniteSets

CONSTANTS
  MaxRounds,      \* bound on the interviews of the application
  MaxResends,     \* bound on the invitations resent, over all interviews
  MaxCredentials, \* bound on the credentials issued
  MaxNotes,       \* bound on the edits of the notes
  MaxVersion,     \* bound on the version of an application that loses its CV
  MaxTime,        \* bound of the clock
  Lifetimes,      \* how long an invitation may be valid: 1 to 14 days
  ResumeGrace,    \* the 24 hours a cookie lasts when the interview is running
  SessionSpan,    \* durationMinutes and the 30 minutes of reading
  Operations      \* the optional operations that may occur

ASSUME ConstantsAssumption ==
  /\ MaxRounds \in Nat /\ MaxResends \in Nat /\ MaxCredentials \in Nat
  /\ MaxNotes \in Nat /\ MaxVersion \in Nat /\ MaxTime \in Nat
  /\ Lifetimes \subseteq Nat \ {0}
  /\ ResumeGrace \in Nat /\ SessionSpan \in Nat
  /\ Operations \subseteq {"resend", "revoke", "withdraw", "update", "remove",
                     "decide", "remove_cv", "overlap"}

VARIABLES
  now,          \* the clock
  application,  \* the row of applications
  interviews,   \* the rows of interviews, by round_no
  invitations,  \* the rows of invitations
  credentials,  \* the rows of interview_access_credentials
  seen,         \* what HR last read: the application and the latest interview
  resending,    \* the resendInvitation under way: the new expiry
  withdrawal,   \* the withdraw transaction under way: the open interview as it was read
  removing,     \* the removal of the current CV under way: the application as it was read
  closing,      \* the closeSession under way: the application as it was read
  expiring,     \* the interview an expireInterview has read as overdue
  exchange,     \* the exchangeToken request under way
  lobby,        \* the getLobby request under way: the credential as it was read
  starting      \* the startInterview request under way: the credential as it was read

vars == <<now, application, interviews, invitations, credentials, seen,
          resending, withdrawal, removing, closing, expiring, exchange, lobby,
          starting>>

\* The transactions of HR and of the session that span two steps.
transactions == <<resending, withdrawal, removing, closing>>

\* The requests of the candidate, and the lazy expiry any reader triggers.
requests == <<expiring, exchange, lobby, starting>>

ApplicationStatus == {"SHORTLISTED", "INTERVIEWING", "UNDER_REVIEW",
                      "APPROVED", "REJECTED", "WITHDRAWN"}
InterviewStatus == {"INVITED", "IN_PROGRESS", "COMPLETED", "EXPIRED", "CANCELLED"}
Open == {"INVITED", "IN_PROGRESS"}
TERMINAL_APPLICATION_STATUSES == {"APPROVED", "REJECTED", "WITHDRAWN"}

ApplicationRow == [status : ApplicationStatus, version : Nat, notes : Nat,
                   deleted : BOOLEAN]
InterviewRow == [status : InterviewStatus, version : Nat,
                 invitationVersion : Nat, expiresAt : Nat]
InvitationRow == [interview : Nat, invitationVersion : Nat, expiresAt : Nat,
                  revoked : BOOLEAN]
CredentialRow == [invitation : Nat, expiresAt : Nat, revoked : BOOLEAN]

None == [none |-> TRUE]

Round == Len(interviews)
Latest == interviews[Round]

TypeInvariant ==
  /\ now \in 0 .. MaxTime
  /\ application \in ApplicationRow
  /\ interviews \in Seq(InterviewRow)
  /\ invitations \in Seq(InvitationRow)
  /\ \A i \in DOMAIN invitations : invitations[i].interview \in DOMAIN interviews
  /\ credentials \in Seq(CredentialRow)
  /\ \A c \in DOMAIN credentials : credentials[c].invitation \in DOMAIN invitations
  /\ seen \in [application : ApplicationRow, interviews : Seq(InterviewRow)]
  /\ resending \in {None} \cup [expiry : Nat]
  /\ withdrawal \in {None} \cup [round : {0} \cup DOMAIN interviews, row : {None} \cup InterviewRow]
  /\ removing \in {None} \cup ApplicationRow
  /\ closing \in {None} \cup ApplicationRow
  /\ expiring \in {0} \cup DOMAIN interviews
  /\ exchange \in {None} \cup
       [invitation : DOMAIN invitations, expiresAt : Nat, stored : BOOLEAN]
  /\ lobby \in {None} \cup [credential : DOMAIN credentials, row : CredentialRow]
  /\ starting \in {None} \cup [credential : DOMAIN credentials, expiresAt : Nat, since : 0 .. now]

Init ==
  /\ now = 0
  /\ application = [status |-> "SHORTLISTED", version |-> 1, notes |-> 0, deleted |-> FALSE]
  /\ interviews = <<>>
  /\ invitations = <<>>
  /\ credentials = <<>>
  /\ seen = [application |-> application, interviews |-> interviews]
  /\ resending = None
  /\ withdrawal = None
  /\ removing = None
  /\ closing = None
  /\ expiring = 0
  /\ exchange = None
  /\ lobby = None
  /\ starting = None

-----------------------------------------------------------------------------
(* Locks and guards.                                                       *)

\* Faulty variant: the row of the application is not locked.
FaultyApplicationUnlocked == TRUE

\* Nobody holds the row lock of the application.  A closing session takes it
\* with its last statement only.
ApplicationUnlocked == withdrawal = None

\* Nobody holds the row lock of an open interview.
InterviewUnlocked == closing = None /\ resending = None

\* An instance without "overlap" leaves out two known lost updates: an edit of
\* the notes, or a removal of the CV, between the read of a closing session and
\* its save, and a change of the application within the removal.
Alone == closing = None \/ "overlap" \in Operations

\* Rows the queries of HR find: the application and its latest interview.
Present == ~application.deleted
HasOpenInterview == \E k \in DOMAIN interviews : interviews[k].status \in Open

\* Optimistic concurrency control: the client sends the version it has seen.
ApplicationVersionMatches == seen.application.version = application.version
InterviewVersionMatches ==
  /\ Len(seen.interviews) = Round
  /\ seen.interviews[Round].version = Latest.version

Tick ==
  /\ now < MaxTime
  /\ now' = now + 1
  /\ UNCHANGED <<application, interviews, invitations, credentials, seen,
                 transactions, requests>>

HrReads ==
  /\ Present
  /\ seen' = [application |-> application, interviews |-> interviews]
  /\ UNCHANGED <<now, application, interviews, invitations, credentials,
                 transactions, requests>>

-----------------------------------------------------------------------------
(* Invitations and credentials.                                            *)

\* The loop of revoke, resendInvitation, withdraw and expireInterview: it
\* skips an invitation that is revoked already, and its credentials with it.
RevokedInvitations(k) ==
  [i \in DOMAIN invitations |->
     IF invitations[i].interview = k
       THEN [invitations[i] EXCEPT !.revoked = TRUE] ELSE invitations[i]]
RevokedCredentials(k) ==
  [c \in DOMAIN credentials |->
     LET invitation == invitations[credentials[c].invitation] IN
     IF invitation.interview = k /\ ~invitation.revoked
       THEN [credentials[c] EXCEPT !.revoked = TRUE] ELSE credentials[c]]

RevokeAccess(k) ==
  /\ invitations' = RevokedInvitations(k)
  /\ credentials' = RevokedCredentials(k)

\* The rows a request of the candidate reads with its credential.
InterviewOf(i) == interviews[invitations[i].interview]

\* invitation.invitationVersion === interview.invitationVersion
IsCurrent(i) == invitations[i].invitationVersion = InterviewOf(i).invitationVersion

\* resolveCandidateAccess accepts the cookie.
Admits(c) ==
  /\ ~credentials[c].revoked
  /\ credentials[c].expiresAt >= now
  /\ ~invitations[credentials[c].invitation].revoked
  /\ IsCurrent(credentials[c].invitation)

-----------------------------------------------------------------------------
(* What HR does.                                                           *)

\* executeCreateInterview.  The readiness of job, CV profile and question set
\* is decided elsewhere: the action may or may not be taken.
CreateInterview(lifetime) ==
  /\ ApplicationUnlocked /\ Present
  /\ application.status = "SHORTLISTED"
  /\ ApplicationVersionMatches
  /\ ~HasOpenInterview
  /\ Round < MaxRounds
  /\ interviews' = Append(interviews,
       [status |-> "INVITED", version |-> 1, invitationVersion |-> 1,
        expiresAt |-> now + lifetime])
  /\ invitations' = Append(invitations,
       [interview |-> Round + 1, invitationVersion |-> 1,
        expiresAt |-> now + lifetime, revoked |-> FALSE])
  /\ application' = [application EXCEPT !.status = "INTERVIEWING", !.version = @ + 1]
  /\ UNCHANGED <<now, credentials, seen, transactions, requests>>

\* resendInvitation locks the interview only, so it runs beside a withdrawal.
BeginResend(expiry) ==
  /\ "resend" \in Operations
  /\ Len(invitations) < Round + MaxResends
  /\ Round > 0 /\ InterviewUnlocked
  /\ Latest.status = "INVITED"
  /\ Latest.expiresAt >= now
  /\ InterviewVersionMatches
  /\ resending' = [expiry |-> expiry]
  /\ UNCHANGED <<now, application, interviews, invitations, credentials, seen,
                 withdrawal, removing, closing, requests>>

\* Without an application there is no address, and the transaction rolls back.
EndResend ==
  /\ resending # None
  /\ resending' = None
  /\ LET version == Latest.invitationVersion + 1 IN
     IF Present
       THEN /\ interviews' = [interviews EXCEPT ![Round].version = @ + 1,
                                                ![Round].invitationVersion = version,
                                                ![Round].expiresAt = resending.expiry]
            /\ invitations' = Append(RevokedInvitations(Round),
                 [interview |-> Round, invitationVersion |-> version,
                  expiresAt |-> resending.expiry, revoked |-> FALSE])
            /\ credentials' = RevokedCredentials(Round)
       ELSE UNCHANGED <<interviews, invitations, credentials>>
  /\ UNCHANGED <<now, application, seen, withdrawal, removing, closing, requests>>

\* Faulty variant: the version stays.
FaultyLeaveInterviewing(next) ==
  application' = IF application.status = "INTERVIEWING"
                   THEN [application EXCEPT !.status = next] ELSE application

\* The application when its open interview ends before or after the start.
LeaveInterviewing(next) ==
  application' = IF application.status = "INTERVIEWING"
                   THEN [application EXCEPT !.status = next, !.version = @ + 1]
                   ELSE application

\* Faulty variant: invitationVersion stays.
FaultyCancelled(row) == [row EXCEPT !.status = "CANCELLED", !.version = @ + 1]

Cancelled(row) == [row EXCEPT !.status = "CANCELLED", !.version = @ + 1,
                              !.invitationVersion = @ + 1]

Revoke ==
  /\ "revoke" \in Operations
  /\ Round > 0 /\ ApplicationUnlocked /\ InterviewUnlocked /\ Present
  /\ Latest.status \in Open
  /\ InterviewVersionMatches
  /\ interviews' = [interviews EXCEPT ![Round] = Cancelled(@)]
  /\ RevokeAccess(Round)
  /\ LeaveInterviewing(IF Latest.status = "INVITED" THEN "SHORTLISTED" ELSE "UNDER_REVIEW")
  /\ UNCHANGED <<now, seen, transactions, requests>>

\* withdraw locks the application and finds the open interview without a lock.
BeginWithdraw ==
  /\ "withdraw" \in Operations
  /\ ApplicationUnlocked /\ Present
  /\ closing = None           \* otherwise a deadlock: one of the two aborts
  /\ ApplicationVersionMatches
  /\ application.status \notin TERMINAL_APPLICATION_STATUSES
  /\ withdrawal' = IF HasOpenInterview THEN [round |-> Round, row |-> Latest]
                                       ELSE [round |-> 0, row |-> None]
  /\ UNCHANGED <<now, application, interviews, invitations, credentials, seen,
                 resending, removing, closing, requests>>

EndWithdraw ==
  /\ withdrawal # None
  /\ InterviewUnlocked
  /\ IF withdrawal.round = 0
       THEN UNCHANGED <<interviews, invitations, credentials>>
       ELSE /\ interviews' = [interviews EXCEPT ![withdrawal.round] = Cancelled(withdrawal.row)]
            /\ RevokeAccess(withdrawal.round)
  /\ application' = [application EXCEPT !.status = "WITHDRAWN", !.version = @ + 1]
  /\ withdrawal' = None
  /\ UNCHANGED <<now, seen, resending, removing, closing, requests>>

\* The database picks the withdrawal as the victim of a deadlock with a closing
\* session, which holds the interview and waits for the application.
WithdrawAborts ==
  /\ withdrawal # None /\ withdrawal.round # 0
  /\ interviews[withdrawal.round].status = "IN_PROGRESS"
  /\ withdrawal' = None
  /\ UNCHANGED <<now, application, interviews, invitations, credentials, seen,
                 resending, removing, closing, requests>>

UpdateNotes ==
  /\ "update" \in Operations /\ Alone
  /\ application.notes < MaxNotes
  /\ ApplicationUnlocked /\ Present
  /\ application.status \notin TERMINAL_APPLICATION_STATUSES
  /\ ApplicationVersionMatches
  /\ application' = [application EXCEPT !.notes = @ + 1, !.version = @ + 1]
  /\ UNCHANGED <<now, interviews, invitations, credentials, seen, transactions,
                 requests>>

\* createDecision, given that the review it is based on is the latest one.
Decide(outcome) ==
  /\ "decide" \in Operations
  /\ ApplicationUnlocked /\ Present
  /\ ApplicationVersionMatches
  /\ application.status = "UNDER_REVIEW"
  /\ ~HasOpenInterview
  /\ application' = [application EXCEPT !.status = outcome, !.version = @ + 1]
  /\ UNCHANGED <<now, interviews, invitations, credentials, seen, transactions,
                 requests>>

\* The soft delete of an administrator: no version check, no look at interviews.
Remove ==
  /\ "remove" \in Operations
  /\ ApplicationUnlocked /\ Present
  /\ application' = [application EXCEPT !.deleted = TRUE]
  /\ UNCHANGED <<now, interviews, invitations, credentials, seen, transactions,
                 requests>>

\* CvVersionsService.remove reads the application of the current CV without a
\* lock ...
BeginRemoveCv ==
  /\ "remove_cv" \in Operations
  /\ application.version < MaxVersion
  /\ removing = None /\ Present
  /\ removing' = application
  /\ UNCHANGED <<now, application, interviews, invitations, credentials, seen,
                 resending, withdrawal, closing, requests>>

\* ... and saves it as it was read, with another current CV.
EndRemoveCv ==
  /\ removing # None
  /\ "overlap" \in Operations \/ (removing = application /\ closing = None)
  /\ ApplicationUnlocked
  /\ application' = [removing EXCEPT !.version = @ + 1]
  /\ removing' = None
  /\ UNCHANGED <<now, interviews, invitations, credentials, seen, resending,
                 withdrawal, closing, requests>>

-----------------------------------------------------------------------------
(* The lazy expiry.                                                        *)

\* expireInterview reads the interview before it waits for the locks ...
BeginExpire(k) ==
  /\ expiring = 0
  /\ interviews[k].status = "INVITED"
  /\ interviews[k].expiresAt < now
  /\ expiring' = k
  /\ UNCHANGED <<now, application, interviews, invitations, credentials, seen,
                 transactions, exchange, lobby, starting>>

\* Faulty variant: nothing is rechecked under the locks.
FaultyEndExpire ==
  /\ expiring # 0
  /\ ApplicationUnlocked /\ InterviewUnlocked
  /\ expiring' = 0
  /\ IF Present
       THEN /\ interviews' = [interviews EXCEPT ![expiring].status = "EXPIRED",
                                                ![expiring].version = @ + 1]
            /\ RevokeAccess(expiring)
            /\ LeaveInterviewing("SHORTLISTED")
       ELSE UNCHANGED <<application, interviews, invitations, credentials>>
  /\ UNCHANGED <<now, seen, transactions, exchange, lobby, starting>>

\* ... and rechecks the status, not the expiry, once it holds them.
EndExpire ==
  /\ expiring # 0
  /\ ApplicationUnlocked /\ InterviewUnlocked
  /\ expiring' = 0
  /\ IF Present /\ interviews[expiring].status = "INVITED"
       THEN /\ interviews' = [interviews EXCEPT ![expiring].status = "EXPIRED",
                                                ![expiring].version = @ + 1]
            /\ RevokeAccess(expiring)
            /\ LeaveInterviewing("SHORTLISTED")
       ELSE UNCHANGED <<application, interviews, invitations, credentials>>
  /\ UNCHANGED <<now, seen, transactions, exchange, lobby, starting>>
-----------------------------------------------------------------------------
(* What the candidate does.                                                *)

\* exchangeToken reads invitation and interview and checks them ...
BeginExchange(i) ==
  /\ exchange = None
  /\ Len(credentials) < MaxCredentials
  /\ ~invitations[i].revoked
  /\ invitations[i].expiresAt >= now
  /\ IsCurrent(i)
  /\ InterviewOf(i).status \in Open
  /\ LET resumed == InterviewOf(i).status = "IN_PROGRESS"
                    /\ invitations[i].expiresAt < now + ResumeGrace IN
     exchange' = [invitation |-> i, stored |-> FALSE,
                  expiresAt |-> IF resumed THEN now + ResumeGrace
                                           ELSE invitations[i].expiresAt]
  /\ UNCHANGED <<now, application, interviews, invitations, credentials, seen,
                 transactions, expiring, lobby, starting>>

\* ... stores the credential ...
StoreCredential ==
  /\ exchange # None /\ ~exchange.stored
  /\ credentials' = Append(credentials,
       [invitation |-> exchange.invitation, expiresAt |-> exchange.expiresAt,
        revoked |-> FALSE])
  /\ exchange' = [exchange EXCEPT !.stored = TRUE]
  /\ UNCHANGED <<now, application, interviews, invitations, seen, transactions,
                 expiring, lobby, starting>>

\* ... and saves the invitation as it was read, not revoked.
StampInvitation ==
  /\ exchange # None /\ exchange.stored
  /\ invitations' = [invitations EXCEPT ![exchange.invitation].revoked = FALSE]
  /\ exchange' = None
  /\ UNCHANGED <<now, application, interviews, credentials, seen, transactions,
                 expiring, lobby, starting>>

\* getLobby reads the credential and everything behind it ...
BeginLobby(c) ==
  /\ lobby = None
  /\ Admits(c)
  /\ invitations[credentials[c].invitation].expiresAt >= now
  /\ InterviewOf(credentials[c].invitation).status \in Open
  /\ lobby' = [credential |-> c, row |-> credentials[c]]
  /\ UNCHANGED <<now, application, interviews, invitations, credentials, seen,
                 transactions, expiring, exchange, starting>>

\* ... and saves the credential as it was read: not revoked, not extended.
StampCredential ==
  /\ lobby # None
  /\ credentials' = [credentials EXCEPT ![lobby.credential] = lobby.row]
  /\ lobby' = None
  /\ UNCHANGED <<now, application, interviews, invitations, seen, transactions,
                 expiring, exchange, starting>>

\* A request of the candidate dies between its writes, which share no transaction.
RequestDies ==
  /\ \/ exchange # None /\ exchange' = None /\ UNCHANGED lobby
     \/ lobby # None /\ lobby' = None /\ UNCHANGED exchange
  /\ UNCHANGED <<now, application, interviews, invitations, credentials, seen,
                 transactions, expiring, starting>>

\* startInterview resolves the cookie without a lock ...
BeginStart(c) ==
  /\ starting = None
  /\ Admits(c)
  /\ starting' = [credential |-> c, expiresAt |-> credentials[c].expiresAt, since |-> now]
  /\ UNCHANGED <<now, application, interviews, invitations, credentials, seen,
                 transactions, expiring, exchange, lobby>>

\* ... reads the clock, waits for the lock of the interview and checks the
\* interview, not the cookie.  An overdue interview is marked EXPIRED, but the
\* exception that reports it rolls the mark back: nothing changes.
EndStart(dbNow) ==
  /\ InterviewUnlocked
  /\ starting' = None
  /\ LET c == starting.credential
         k == invitations[credentials[c].invitation].interview
     IN IF interviews[k].status = "INVITED" /\ dbNow <= interviews[k].expiresAt
          THEN /\ interviews' = [interviews EXCEPT ![k].status = "IN_PROGRESS",
                                                   ![k].version = @ + 1]
               /\ credentials' = IF starting.expiresAt < dbNow + SessionSpan
                    THEN [credentials EXCEPT ![c].expiresAt = dbNow + SessionSpan]
                    ELSE credentials
          ELSE UNCHANGED <<interviews, credentials>>
  /\ UNCHANGED <<now, application, invitations, seen, transactions,
                 expiring, exchange, lobby>>

-----------------------------------------------------------------------------
(* The end of the session.                                                 *)

\* closeSession writes the interview, reads the application without a lock ...
BeginClose ==
  /\ Round > 0 /\ closing = None
  /\ withdrawal = None        \* otherwise a deadlock: one of the two aborts
  /\ Latest.status = "IN_PROGRESS"
  /\ closing' = application
  /\ UNCHANGED <<now, application, interviews, invitations, credentials, seen,
                 resending, withdrawal, removing, requests>>

\* ... and saves the application as it was read, under review.  The query does
\* not find an application already deleted; one deleted since is restored.
EndClose(status) ==
  /\ closing # None
  /\ interviews' = [interviews EXCEPT ![Round].status = status, ![Round].version = @ + 1]
  /\ application' = IF closing.deleted THEN application
       ELSE [closing EXCEPT !.status = "UNDER_REVIEW", !.version = @ + 1]
  /\ closing' = None
  /\ UNCHANGED <<now, invitations, credentials, seen, resending, withdrawal, removing, requests>>

\* The closing session is the victim of the deadlock, or the process dies.
CloseAborts ==
  /\ closing # None
  /\ closing' = None
  /\ UNCHANGED <<now, application, interviews, invitations, credentials, seen,
                 resending, withdrawal, removing, requests>>

-----------------------------------------------------------------------------
HrStep ==
  \/ \E lifetime \in Lifetimes : CreateInterview(lifetime)
  \/ \E lifetime \in Lifetimes : BeginResend(now + lifetime)
  \/ Round > 0 /\ BeginResend(Latest.expiresAt)
  \/ EndResend
  \/ Revoke
  \/ BeginWithdraw \/ EndWithdraw \/ WithdrawAborts
  \/ UpdateNotes
  \/ \E outcome \in {"APPROVED", "REJECTED"} : Decide(outcome)
  \/ Remove
  \/ BeginRemoveCv \/ EndRemoveCv

CandidateStep ==
  \/ \E i \in DOMAIN invitations : BeginExchange(i)
  \/ StoreCredential \/ StampInvitation
  \/ \E c \in DOMAIN credentials : BeginLobby(c) \/ BeginStart(c)
  \/ StampCredential \/ RequestDies
  \/ starting # None /\ \E dbNow \in starting.since .. now : EndStart(dbNow)

SystemStep ==
  \/ \E k \in DOMAIN interviews : BeginExpire(k)
  \/ EndExpire
  \/ BeginClose \/ CloseAborts
  \/ \E status \in {"COMPLETED", "EXPIRED"} : EndClose(status)

Next == Tick \/ HrReads \/ HrStep \/ CandidateStep \/ SystemStep

Spec == Init /\ [][Next]_vars

-----------------------------------------------------------------------------
(* Properties.                                                             *)

\* An application is INTERVIEWING exactly while one interview of it is open,
\* whatever the order in which HR, the candidate and the lazy expiry get their
\* locks (interviews.service.ts, applications.service.ts, closeSession).
InterviewingMeansOneOpen ==
  application.deleted \/
  /\ HasOpenInterview <=> application.status = "INTERVIEWING"
  /\ \A j, k \in DOMAIN interviews :
       interviews[j].status \in Open /\ interviews[k].status \in Open => j = k

\* A link replaced by resendInvitation never admits anybody again, although an
\* exchange under way gives it a new credential and takes its revocation back.
\* A withdrawal beside two resends gives the interview the version of the first
\* of their links (applications.service.ts:495), and a cookie of it may be admitted.
ReplacedLinksStayDead ==
  application.status # "WITHDRAWN" =>
    \A c \in DOMAIN credentials : Admits(c) =>
      \A i \in DOMAIN invitations :
        invitations[i].interview = invitations[credentials[c].invitation].interview
          => i <= credentials[c].invitation

\* As long as the interview waits for its candidate, the newest link works.
InvitedHasALink ==
  \A k \in DOMAIN interviews : interviews[k].status = "INVITED" =>
    \E i \in DOMAIN invitations :
      /\ invitations[i].interview = k /\ IsCurrent(i)
      /\ ~invitations[i].revoked
      /\ invitations[i].expiresAt = interviews[k].expiresAt

\* The candidate of a cancelled interview is out: no cookie admits him
\* (nestjs-auth/README.md:216).  A withdrawal computes the version it gives the
\* invitation from a row it read before its lock, and may fail to shut him out.
RevokedIsShut ==
  application.status # "WITHDRAWN" =>
    \A c \in DOMAIN credentials :
      InterviewOf(credentials[c].invitation).status = "CANCELLED" => ~Admits(c)

\* Exactly the right candidate gets in, although exchanges save invitations as
\* they read them: whoever is invited has a link that works, and neither a link
\* that was replaced nor the link of a revoked interview admits anybody
\* (exchangeInvitation, resendInvitation, revokeInterview).
LinksAdmitWhomTheyShould ==
  /\ InvitedHasALink
  /\ ReplacedLinksStayDead
  /\ RevokedIsShut

\* Optimistic concurrency control is sound: when the version HR has seen is the
\* version of the row, HR has seen the row, so no edit is lost.
ApplicationVersionNamesTheRow ==
  ApplicationVersionMatches =>
    [seen.application EXCEPT !.deleted = application.deleted] = application
InterviewVersionNamesTheRow ==
  Round > 0 /\ Latest.status \in Open /\ InterviewVersionMatches
    => seen.interviews[Round] = Latest

\* Rows have their types, and a version HR sends along with a change names the
\* row HR has seen, for the application and for the open interview: neither a
\* resend nor a withdrawal, a revocation, a decision or the end of a session
\* reuses a version for another row.
AccessConsistent ==
  /\ TypeInvariant
  /\ ApplicationVersionNamesTheRow
  /\ InterviewVersionNamesTheRow

\* Application and interviews move together through the stages of
\* ApplicationLifecycle, and a decided or withdrawn application stays as it is.
\* A removed application drops out: its interview may still come to its end.
Stages == INSTANCE ApplicationLifecycle WITH
  status <- application.status,
  rounds <- [k \in DOMAIN interviews |-> interviews[k].status]
FollowsLifecycle == Stages!Init /\ [][Stages!Next \/ application.deleted]_(Stages!stages)

=============================================================================
