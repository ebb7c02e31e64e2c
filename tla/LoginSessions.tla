---------------------------- MODULE LoginSessions ---------------------------
(***************************************************************************)
(* One account as its owner uses it: login and the counter of failed       *)
(* logins, the refresh tokens and their rotation, the password and the     *)
(* links that reset it.                                                    *)
(*                                                                         *)
(* The counter is read and saved without a lock.  Rotation locks the token *)
(* and then, by the insert of the next one, shares the row of the account; *)
(* a new password and the disabling of the account lock that row and then  *)
(* the tokens that are live.                                               *)
(***************************************************************************)
EXTENDS Naturals, Sequences, FiniteSets

CONSTANTS
  Clients,      \* the requests that may be under way at once
  MaxFailures,  \* MAX_FAILED_ATTEMPTS
  LockTime,     \* LOCKOUT_MINUTES
  MaxWork,      \* bound on wrong passwords, tokens, reset links, new passwords
                \* and disabling, together
  MaxTime       \* bound on the clock

ASSUME LoginAssumption ==
  /\ MaxFailures \in Nat \ {0} /\ LockTime \in Nat
  /\ MaxWork \in Nat /\ MaxTime \in Nat \ {0}

VARIABLES
  account,     \* its status, and how often all tokens had to be revoked for good
  attempts,    \* the row of login_attempts, Nil without one
  tokens,      \* the rows of refresh_tokens, in the order of their creation
  resetLinks,  \* the reset links
  requests,    \* the requests under way
  now,         \* the clock
  history      \* failures since the counter last had reason to start again,
               \* all wrong passwords, and whether a failure was being recorded then

loginVars == <<account, attempts, tokens, resetLinks, requests, now, history>>

Nil == [none |-> TRUE]
NoLock == 0

\* epoch: of the account when the password was checked; late: it was checked
\* before the last new password and the token issued after it.
Token == [family : Nat, revoked : BOOLEAN, epoch : Nat, late : BOOLEAN]
Attempt == [id : Nat, count : Nat, until : Nat]

Request ==
  [op : {"login"}, wrong : Nat, active : BOOLEAN, epoch : Nat,
   step : {"compare", "issue"}] \cup
  [op : {"record"}, row : Attempt] \cup
  [op : {"rotate"}, token : DOMAIN tokens] \cup
  [op : {"logoutAll"}, found : SUBSET DOMAIN tokens] \cup
  [op : {"forgot"}, found : SUBSET DOMAIN resetLinks] \cup
  [op : {"reset"}, link : DOMAIN resetLinks, step : {"user", "revoke"}] \cup
  [op : {"change", "disable"}, step : {"revoke"}]

LoginTypeInvariant ==
  /\ account \in [active : BOOLEAN, epoch : Nat]
  /\ attempts \in {Nil} \cup Attempt
  /\ tokens \in Seq(Token)
  /\ resetLinks \in Seq({"open", "used"})
  /\ requests \in [Clients -> {Nil} \cup Request]
  /\ now \in 1 .. MaxTime
  /\ history \in [failures : Nat, wrong : Nat, met : BOOLEAN]

LoginInit ==
  /\ account = [active |-> TRUE, epoch |-> 0]
  /\ attempts = Nil
  /\ tokens = <<>>
  /\ resetLinks = <<>>
  /\ requests = [s \in Clients |-> Nil]
  /\ now = 1
  /\ history = [failures |-> 0, wrong |-> 0, met |-> FALSE]

MoreWork == history.wrong + Len(tokens) + Len(resetLinks) + account.epoch < MaxWork

Doing(s, op) == requests[s] # Nil /\ requests[s].op = op
AtStep(s, op, step) == Doing(s, op) /\ requests[s].step = step
Starts(s, request) == requests[s] = Nil /\ requests' = [requests EXCEPT ![s] = request]
Continues(s, request) == requests' = [requests EXCEPT ![s] = request]
RequestEnds(s) == requests' = [requests EXCEPT ![s] = Nil]

TokenLocked(t) == \E s \in Clients : Doing(s, "rotate") /\ requests[s].token = t
LinkLocked(n) == \E s \in Clients : Doing(s, "reset") /\ requests[s].link = n
AccountLocked ==
  \E s \in Clients : \E op \in {"change", "reset", "disable"} : AtStep(s, op, "revoke")

Live(t) == ~tokens[t].revoked
LiveTokens == {t \in DOMAIN tokens : Live(t)}
OpenLinks == {n \in DOMAIN resetLinks : resetLinks[n] = "open"}

-----------------------------------------------------------------------------
(* Login and the counter of failed logins.                                 *)

Locked == attempts # Nil /\ attempts.until > now

\* validateUser: the lock is looked at, then the account is read with its hash.
\* wrong is 0 for the right password, else the number of the wrong one.
BeginLogin(s, wrong) ==
  /\ ~Locked
  /\ wrong # 0 => MoreWork
  /\ Starts(s, [op |-> "login", wrong |-> wrong, active |-> account.active,
                epoch |-> account.epoch, step |-> "compare"])
  /\ history' = [history EXCEPT !.wrong = IF wrong = 0 THEN @ ELSE wrong]
  /\ UNCHANGED <<account, attempts, tokens, resetLinks, now>>

\* Faulty variant: a lock that has ended still counts.
FaultyRecordFailure(row) ==
  LET count == row.count + 1 IN
  [row EXCEPT !.count = count,
              !.until = IF count >= MaxFailures THEN now + LockTime ELSE @]

\* The row as recordFailure will save it: after a lock the count starts again.
RecordFailure(row) ==
  LET over == row.until # NoLock /\ row.until <= now
      count == IF over THEN 1 ELSE row.count + 1
  IN [row EXCEPT !.count = count,
                 !.until = IF count >= MaxFailures THEN now + LockTime
                           ELSE IF over THEN NoLock ELSE @]

\* The row is read, or a new one made, under an id of its own ...
ReadAttempts(s) ==
  /\ AtStep(s, "login", "compare") /\ requests[s].wrong # 0
  /\ Continues(s, [op |-> "record", row |->
       IF attempts = Nil THEN [id |-> requests[s].wrong, count |-> 1, until |-> NoLock]
       ELSE RecordFailure(attempts)])
  /\ UNCHANGED <<account, attempts, tokens, resetLinks, now, history>>

\* ... and saved: inserted again when it was cleared meanwhile, refused by the
\* unique index when there is another one by now.
SaveAttempt(s) ==
  /\ Doing(s, "record")
  /\ attempts' = IF attempts # Nil /\ attempts.id # requests[s].row.id
                   THEN attempts ELSE requests[s].row
  /\ history' = [history EXCEPT !.failures = @ + 1]
  /\ RequestEnds(s)
  /\ UNCHANGED <<account, tokens, resetLinks, now>>

\* The counter has reason to start again.
Recording == \E s \in Clients : Doing(s, "record")
StartsAgain == [history EXCEPT !.failures = 0, !.met = @ \/ Recording]

\* The right password: the row is deleted, and an inactive account refused.
ClearAttempts(s) ==
  /\ AtStep(s, "login", "compare") /\ requests[s].wrong = 0
  /\ attempts' = Nil
  /\ IF requests[s].active THEN Continues(s, [requests[s] EXCEPT !.step = "issue"])
     ELSE RequestEnds(s)
  /\ history' = StartsAgain
  /\ UNCHANGED <<account, tokens, resetLinks, now>>

\* login, with the account as it was read: the insert shares the account's row.
IssueToken(s) ==
  /\ AtStep(s, "login", "issue")
  /\ MoreWork
  /\ ~AccountLocked
  /\ tokens' = Append(tokens,
       [family |-> Len(tokens) + 1, revoked |-> FALSE, epoch |-> requests[s].epoch,
        late |-> requests[s].epoch # account.epoch])
  /\ RequestEnds(s)
  /\ UNCHANGED <<account, attempts, resetLinks, now, history>>

-----------------------------------------------------------------------------
(* Refresh tokens.                                                         *)

\* Faulty variant: the token is read without a lock.
FaultyRotateLocks(s, t) ==
  /\ Live(t)
  /\ account.active
  /\ Starts(s, [op |-> "rotate", token |-> t])
  /\ UNCHANGED <<account, attempts, tokens, resetLinks, now, history>>

\* rotate locks the token and reads the account.  A revoked token is refused, and
\* the revocation of its family goes with the transaction that is rolled back.
RotateLocks(s, t) ==
  /\ ~TokenLocked(t)
  /\ Live(t)
  /\ account.active
  /\ Starts(s, [op |-> "rotate", token |-> t])
  /\ UNCHANGED <<account, attempts, tokens, resetLinks, now, history>>

\* The token is revoked and the next of its family inserted.
RotateWrites(s) ==
  /\ Doing(s, "rotate")
  /\ MoreWork
  /\ ~AccountLocked
  /\ LET t == requests[s].token IN
     tokens' = Append([tokens EXCEPT ![t].revoked = TRUE], [tokens[t] EXCEPT !.revoked = FALSE])
  /\ RequestEnds(s)
  /\ UNCHANGED <<account, attempts, resetLinks, now, history>>

\* logout: one statement for one row.
RevokeToken(t) ==
  /\ Live(t)
  /\ ~TokenLocked(t)
  /\ tokens' = [tokens EXCEPT ![t].revoked = TRUE]
  /\ UNCHANGED <<account, attempts, resetLinks, requests, now, history>>

\* logoutAll: the statement finds the live tokens ...
FindTokens(s) ==
  /\ account.active
  /\ Starts(s, [op |-> "logoutAll", found |-> LiveTokens])
  /\ UNCHANGED <<account, attempts, tokens, resetLinks, now, history>>

Revoked(found) ==
  [t \in DOMAIN tokens |-> IF t \in found THEN [tokens[t] EXCEPT !.revoked = TRUE] ELSE tokens[t]]

\* ... and waits for those that are locked, not for what replaces them.
RevokeAllForUser(s) ==
  /\ Doing(s, "logoutAll")
  /\ \A t \in requests[s].found \cap LiveTokens : ~TokenLocked(t)
  /\ tokens' = Revoked(requests[s].found)
  /\ RequestEnds(s)
  /\ UNCHANGED <<account, attempts, resetLinks, now, history>>

-----------------------------------------------------------------------------
(* Reset links, new passwords and disabling.                               *)

\* forgotPassword: the statement finds the open links ...
BeginForgotPassword(s) ==
  /\ account.active
  /\ Starts(s, [op |-> "forgot", found |-> OpenLinks])
  /\ UNCHANGED <<account, attempts, tokens, resetLinks, now, history>>

\* ... marks them used and a new one is inserted.
EndForgotPassword(s) ==
  /\ Doing(s, "forgot")
  /\ MoreWork
  /\ \A n \in requests[s].found \cap OpenLinks : ~LinkLocked(n)
  /\ ~AccountLocked
  /\ resetLinks' = Append([n \in DOMAIN resetLinks |->
                             IF n \in requests[s].found THEN "used" ELSE resetLinks[n]], "open")
  /\ RequestEnds(s)
  /\ UNCHANGED <<account, attempts, tokens, now, history>>

\* Faulty variant: the link is read without a lock.
FaultyResetLocksLink(s, n) ==
  /\ resetLinks[n] = "open"
  /\ MoreWork
  /\ Starts(s, [op |-> "reset", link |-> n, step |-> "user"])
  /\ UNCHANGED <<account, attempts, tokens, resetLinks, now, history>>

\* resetPassword locks the link ...
ResetLocksLink(s, n) ==
  /\ resetLinks[n] = "open"
  /\ ~LinkLocked(n)
  /\ MoreWork
  /\ Starts(s, [op |-> "reset", link |-> n, step |-> "user"])
  /\ UNCHANGED <<account, attempts, tokens, resetLinks, now, history>>

\* ... and the account, whatever its status.
ResetLocksUser(s) ==
  /\ AtStep(s, "reset", "user")
  /\ ~AccountLocked
  /\ Continues(s, [requests[s] EXCEPT !.step = "revoke"])
  /\ UNCHANGED <<account, attempts, tokens, resetLinks, now, history>>

\* changePassword and disable lock the account first.
LockUser(s, op) ==
  /\ account.active
  /\ MoreWork
  /\ ~AccountLocked
  /\ Starts(s, [op |-> op, step |-> "revoke"])
  /\ UNCHANGED <<account, attempts, tokens, resetLinks, now, history>>

Revoking(s) == \E op \in {"change", "reset", "disable"} : AtStep(s, op, "revoke")

\* The rest of the three: the hash or the status, the link, and all live tokens,
\* once none of them is locked.
RevokeAndCommit(s) ==
  /\ Revoking(s)
  /\ MoreWork
  /\ \A t \in LiveTokens : ~TokenLocked(t)
  /\ account' = [active |-> account.active /\ requests[s].op # "disable",
                 epoch |-> account.epoch + 1]
  /\ tokens' = Revoked(LiveTokens)
  /\ resetLinks' = IF requests[s].op = "reset"
                     THEN [resetLinks EXCEPT ![requests[s].link] = "used"] ELSE resetLinks
  /\ RequestEnds(s)
  /\ UNCHANGED <<attempts, now, history>>

-----------------------------------------------------------------------------
\* A request dies, or is rolled back by the database when it waits for one that
\* waits for it: a rotation for the account, a new password for the token.
RequestFails(s) ==
  /\ requests[s] # Nil
  /\ RequestEnds(s)
  /\ UNCHANGED <<account, attempts, tokens, resetLinks, now, history>>

\* When a lock ends the counter starts again.
Tick ==
  /\ now < MaxTime
  /\ now' = now + 1
  /\ history' = IF attempts # Nil /\ attempts.until = now' THEN StartsAgain ELSE history
  /\ UNCHANGED <<account, attempts, tokens, resetLinks, requests>>

LoginStep(s) ==
  \/ BeginLogin(s, 0) \/ BeginLogin(s, history.wrong + 1)
  \/ ReadAttempts(s) \/ SaveAttempt(s) \/ ClearAttempts(s) \/ IssueToken(s)

TokenStep(s) ==
  \/ \E t \in DOMAIN tokens : RotateLocks(s, t)
  \/ RotateWrites(s) \/ FindTokens(s) \/ RevokeAllForUser(s)

PasswordStep(s) ==
  \/ BeginForgotPassword(s) \/ EndForgotPassword(s)
  \/ \E n \in DOMAIN resetLinks : ResetLocksLink(s, n)
  \/ ResetLocksUser(s)
  \/ \E op \in {"change", "disable"} : LockUser(s, op)
  \/ RevokeAndCommit(s)

LoginNext ==
  \/ \E s \in Clients : LoginStep(s) \/ TokenStep(s) \/ PasswordStep(s) \/ RequestFails(s)
  \/ \E t \in DOMAIN tokens : RevokeToken(t)
  \/ Tick

LoginSpec == LoginInit /\ [][LoginNext]_loginVars

-----------------------------------------------------------------------------
(* Properties.                                                             *)

\* A family of tokens has one live token, however many rotations start at once;
\* and after a new password or a disabling no token issued before is live, although
\* a rotation may be about to insert one: only a login that had checked the old
\* password and issued its token late leaves one.
TokensConsistent ==
  /\ LoginTypeInvariant
  /\ \A t, u \in LiveTokens : tokens[t].family = tokens[u].family => t = u
  /\ \A t \in LiveTokens : tokens[t].epoch = account.epoch \/ tokens[t].late

\* The account is locked only after as many failures as the message names, counted
\* since the last login or lock, although the counter is read and saved without a
\* lock; unless a failure was being recorded at that very login or end of a lock.
LockIsEarned ==
  Locked /\ ~history.met => history.failures >= MaxFailures

\* A reset uses up an open link of its own, also when two were sent and are used
\* at once.
EachResetUsesALink ==
  [][\A s \in Clients :
       AtStep(s, "reset", "revoke") /\ account' # account =>
            /\ resetLinks[requests[s].link] = "open"
            /\ resetLinks'[requests[s].link] = "used"
    ]_loginVars
=============================================================================
