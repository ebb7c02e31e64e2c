------------------------ MODULE NotificationDispatch ------------------------
(***************************************************************************)
(* One notification and the calls that send it: the call its creator makes *)
(* after the commit of the business transaction, and the retries of HR.    *)
(* A call claims the row in one transaction, sends the mail outside of any *)
(* and stores the result in another.                                       *)
(*                                                                         *)
(* Each transaction that locks the row is one action.  The check of retry  *)
(* and finalizeFailed read the row without a lock and are steps of their   *)
(* own.  The mail server is the environment: it may have taken a mail      *)
(* whose answer is a timeout or an error, so that every attempt counts as  *)
(* a mail.                                                                 *)
(***************************************************************************)
EXTENDS Integers, Sequences

CONSTANTS
  Calls,        \* the calls of dispatch that may be under way at the same time
  Creator,      \* the one that follows the commit; the others are retries
  MaxAttempts,  \* bound on the attempts
  MaxTime,      \* bound of the clock
  StaleAfter,   \* notifications.sendingStaleMs
  PayloadTtl,   \* payloadTtlMinutes; beyond MaxTime for a payload that never expires
  MayDie        \* the calls that may die

ASSUME ConstantsAssumption ==
  /\ Creator \in Calls
  /\ MaxAttempts \in Nat /\ MaxTime \in Nat /\ StaleAfter \in Nat
  /\ PayloadTtl \in Nat /\ MayDie \subseteq Calls

VARIABLES
  now,      \* the clock
  row,      \* the row of notifications
  content,  \* whether the payload of this notification decrypts and content
  calls,    \* each call of dispatch
  log       \* each attempt and its answer: a history, the code does not keep it

vars == <<now, row, content, calls, log>>

\* DELIVERED and SUPPRESSED are terminal as ACCEPTED is, and nothing sets them.
Status == {"PENDING", "SENDING", "ACCEPTED", "FAILED", "UNKNOWN"}

Row == [status : Status, attempts : Nat, lastAttemptAt : Nat, payload : BOOLEAN]

Content == {"fine", "undecryptable", "unrenderable"}

\* What the code is told of a mail: any rejection but a timeout is an error, a
\* connection lost after the server took the mail included.
Outcome == {"ACCEPTED", "TIMEOUT", "ERROR"}

Idle == [phase |-> "idle"]
Call ==
  [phase : {"idle", "called"}]
    \cup [phase : {"claimed", "unrendered", "dead"}, attempt : Nat]
    \cup [phase : {"answered"}, attempt : Nat, outcome : Outcome]
    \cup [phase : {"failing"}, attempt : Nat, seen : Row]

Attempt == [claimedAt : Nat, outcome : Outcome \cup {"NONE"}]

TypeInvariant ==
  /\ now \in 0 .. MaxTime
  /\ row \in Row
  /\ content \in Content
  /\ calls \in [Calls -> Call]
  /\ log \in Seq(Attempt) /\ (content = "fine" => Len(log) = row.attempts)

\* createPendingNotification has committed and its caller goes on to dispatch.
Init ==
  /\ now = 0
  /\ row = [status |-> "PENDING", attempts |-> 0, lastAttemptAt |-> 0, payload |-> TRUE]
  /\ content \in Content
  /\ calls = [d \in Calls |-> IF d = Creator THEN [phase |-> "called"] ELSE Idle]
  /\ log = <<>>

Tick == now < MaxTime /\ now' = now + 1 /\ UNCHANGED <<row, content, calls, log>>

To(d, call) == calls' = [calls EXCEPT ![d] = call]

HasValidPayload == row.payload /\ now <= PayloadTtl

\* retry checks what it reads without a lock.
Retry(d) ==
  /\ d # Creator
  /\ calls[d] = Idle
  /\ row.status \in {"PENDING", "FAILED", "UNKNOWN"}
  /\ HasValidPayload
  /\ To(d, [phase |-> "called"])
  /\ UNCHANGED <<now, row, content, log>>

IsStale == now - row.lastAttemptAt > StaleAfter
Claimable ==
  \/ row.status \in {"PENDING", "FAILED", "UNKNOWN"}
  \/ row.status = "SENDING" /\ IsStale

\* The first transaction of dispatch.
Claim(d) ==
  /\ calls[d].phase = "called"
  /\ Claimable /\ HasValidPayload /\ content # "undecryptable"
  /\ row.attempts < MaxAttempts
  /\ row' = [row EXCEPT !.status = "SENDING", !.attempts = @ + 1, !.lastAttemptAt = now]
  /\ IF content = "fine"
       THEN /\ log' = Append(log, [claimedAt |-> now, outcome |-> "NONE"])
            /\ To(d, [phase |-> "claimed", attempt |-> row.attempts + 1])
       ELSE /\ To(d, [phase |-> "unrendered", attempt |-> row.attempts + 1])
            /\ UNCHANGED log
  /\ UNCHANGED <<now, content>>

\* Terminal, or being sent by another call: the answer is the row as it is.
NotClaimed(d) ==
  /\ calls[d].phase = "called"
  /\ ~Claimable
  /\ To(d, Idle)
  /\ UNCHANGED <<now, row, content, log>>

\* The payload is gone or has expired (NOTIFICATION_SECRET_UNAVAILABLE), or it
\* cannot be decrypted (DECRYPTION_FAILED).
PayloadUnavailable(d) ==
  /\ calls[d].phase = "called"
  /\ Claimable /\ (~HasValidPayload \/ content = "undecryptable")
  /\ row' = [row EXCEPT !.status = "FAILED"]
  /\ To(d, Idle)
  /\ UNCHANGED <<now, content, log>>

\* The mail is handed to the server.  Only ACCEPTED tells whether it was taken.
Send(d, outcome) ==
  /\ calls[d].phase = "claimed"
  /\ log' = [log EXCEPT ![calls[d].attempt].outcome = outcome]
  /\ To(d, [phase |-> "answered", attempt |-> calls[d].attempt, outcome |-> outcome])
  /\ UNCHANGED <<now, row, content>>

StatusAfter(outcome) ==
  CASE outcome = "ACCEPTED" -> "ACCEPTED"
    [] outcome = "TIMEOUT" -> "UNKNOWN"
    [] OTHER -> "FAILED"

\* Faulty variant: a late result is stored too.
FaultyIsLate(attempt) == FALSE

IsLate(attempt) == row.attempts > attempt

\* Faulty variant: the payload is kept.
FaultyResult(outcome) == [row EXCEPT !.status = StatusAfter(outcome)]

Result(outcome) == [row EXCEPT !.status = StatusAfter(outcome),
                               !.payload = @ /\ outcome # "ACCEPTED"]

\* Faulty variant: a timeout leaves the row as it is.
FaultyFinalizeDispatchResult(d) ==
  /\ calls[d].phase = "answered"
  /\ row' = IF IsLate(calls[d].attempt) \/ calls[d].outcome = "TIMEOUT"
              THEN row ELSE Result(calls[d].outcome)
  /\ To(d, Idle)
  /\ UNCHANGED <<now, content, log>>

FinalizeDispatchResult(d) ==
  /\ calls[d].phase = "answered"
  /\ row' = IF IsLate(calls[d].attempt) THEN row ELSE Result(calls[d].outcome)
  /\ To(d, Idle)
  /\ UNCHANGED <<now, content, log>>

\* finalizeFailed reads the row without a lock ...
BeginFinalizeFailed(d) ==
  /\ calls[d].phase = "unrendered"
  /\ To(d, IF IsLate(calls[d].attempt) THEN Idle
           ELSE [phase |-> "failing", attempt |-> calls[d].attempt, seen |-> row])
  /\ UNCHANGED <<now, row, content, log>>

\* ... and saves it: the columns that differ from the row at the time of the
\* save are written, which takes back what another call did since the read.
EndFinalizeFailed(d) ==
  /\ calls[d].phase = "failing"
  /\ row' = [calls[d].seen EXCEPT !.status = "FAILED"]
  /\ To(d, Idle)
  /\ UNCHANGED <<now, content, log>>

AttemptOf(d) == IF calls[d].phase = "called" THEN 0 ELSE calls[d].attempt

\* The process of a call ends, at whatever attempt it was.
Dies(d) ==
  /\ d \in MayDie
  /\ calls[d].phase \notin {"idle", "dead"}
  /\ To(d, [phase |-> "dead", attempt |-> AttemptOf(d)])
  /\ UNCHANGED <<now, row, content, log>>

Dispatch(d) ==
  \/ Claim(d) \/ NotClaimed(d) \/ PayloadUnavailable(d)
  \/ \E outcome \in Outcome : Send(d, outcome)
  \/ FinalizeDispatchResult(d)
  \/ BeginFinalizeFailed(d) \/ EndFinalizeFailed(d)

Next == Tick \/ \E d \in Calls : Retry(d) \/ Dispatch(d) \/ Dies(d)

Spec == Init /\ [][Next]_vars

\* A call that lives goes on: the mail server answers or times out.  HR retries
\* for as long as retry lets it.
FairSpec ==
  /\ Spec
  /\ WF_vars(Tick)
  /\ \A d \in Calls : WF_vars(Dispatch(d)) /\ WF_vars(Retry(d))

-----------------------------------------------------------------------------
(* Properties.                                                             *)

\* An accepted notification stays accepted and keeps no secret: no late answer
\* of an earlier attempt, and no retry that read the row before, changes it
\* (notification-dispatch.service.ts:46-48).
AcceptedIsFinal == [][row.status = "ACCEPTED" => row' = row]_vars

\* The encrypted payload is erased exactly when the mail is accepted: before, a
\* retry needs it; after, nobody does (README.md:218).
PayloadUntilAccepted == row.payload <=> row.status # "ACCEPTED"

\* A row that says what became of its mail speaks of the newest attempt, however
\* late the answers of earlier attempts come (notification-dispatch.service.ts:277).
StatusIsOfNewestAttempt ==
  row.status \in {"ACCEPTED", "UNKNOWN"} =>
    /\ row.attempts \in DOMAIN log
    /\ StatusAfter(log[row.attempts].outcome) = row.status

\* Rows have their types, the payload is kept as long as it may be needed, and
\* no longer, and the status tells of the newest attempt, whichever of two calls
\* finalizes the row last.
MailConsistent ==
  /\ TypeInvariant
  /\ PayloadUntilAccepted
  /\ StatusIsOfNewestAttempt

\* A call may send the mail again only if, when it claims the row, no earlier
\* attempt is waiting for its answer or was accepted: each has failed, has timed
\* out or is stale.  Any number of calls may pass the unlocked check of retry
\* together, and an accepted answer may be on its way to the row
\* (notification-dispatch.service.ts:70-98).
SentAgainOnlyUnacknowledged ==
  [][Len(log') > Len(log) =>
       \A a \in DOMAIN log :
         \/ log[a].outcome \in {"ERROR", "TIMEOUT"}
         \/ now - log[a].claimedAt > StaleAfter]_vars

\* A notification stays in SENDING only if the call of its newest attempt died:
\* no dead call of an earlier attempt and no late answer keeps it there, and
\* what a living call sends gets its result (notification-dispatch.service.ts:241).
SenderDied == \E d \in Calls : calls[d].phase = "dead" /\ calls[d].attempt = row.attempts

SendingEnds == row.status = "SENDING" ~> (row.status # "SENDING" \/ SenderDied)
=============================================================================
