--------------------- MODULE NotificationDispatch_proofs ---------------------
(***************************************************************************)
(* Theorems about NotificationDispatch, for any calls, attempts and times. *)
(***************************************************************************)
EXTENDS NotificationDispatch, TLAPS

-----------------------------------------------------------------------------
(* The inductive invariant.                                                *)

\* The call of an attempt, between its claim and its result.
Works(d) == calls[d].phase \in {"claimed", "answered"}

\* An attempt has one call, whose result, once stored, is stored for good: no
\* call works on the newest attempt of a row that tells of it.
CallsInv ==
  /\ \A d \in Calls : Works(d) =>
       /\ content = "fine"
       /\ calls[d].attempt \in DOMAIN log
       /\ log[calls[d].attempt].outcome =
            IF calls[d].phase = "claimed" THEN "NONE" ELSE calls[d].outcome
  /\ \A d, e \in Calls : Works(d) /\ Works(e) /\ calls[d].attempt = calls[e].attempt => d = e
  /\ row.status \in {"ACCEPTED", "UNKNOWN"} =>
       \A d \in Calls : Works(d) => calls[d].attempt # row.attempts
  /\ \A d \in Calls : calls[d].phase \in {"unrendered", "failing"} => content = "unrenderable"
  /\ \A d \in Calls : calls[d].phase = "failing" => calls[d].seen.payload

\* What the status tells of the newest attempt.
RowInv ==
  /\ PayloadUntilAccepted
  /\ StatusIsOfNewestAttempt
  /\ row.status \in {"ACCEPTED", "UNKNOWN"} => content = "fine"
  /\ content = "fine" =>
       /\ row.status = "PENDING" => row.attempts = 0
       /\ row.status = "SENDING" =>
            row.attempts > 0 /\ row.lastAttemptAt = log[row.attempts].claimedAt
       /\ row.status = "FAILED" /\ now <= PayloadTtl =>
            row.attempts = 0 \/ log[row.attempts].outcome = "ERROR"

\* An attempt follows one that timed out, failed or was stale.
LogInv ==
  /\ \A a \in DOMAIN log : log[a].claimedAt <= now
  /\ \A a, b \in DOMAIN log : a < b =>
       /\ log[a].claimedAt <= log[b].claimedAt
       /\ \/ log[a].outcome \in {"TIMEOUT", "ERROR"}
          \/ log[b].claimedAt - log[a].claimedAt > StaleAfter

Inv == TypeInvariant /\ CallsInv /\ RowInv /\ LogInv

-----------------------------------------------------------------------------
(* The types, spelled out.                                                 *)

LEMMA Types ==
  ASSUME TypeInvariant
  PROVE  /\ now \in Nat /\ StaleAfter \in Nat /\ PayloadTtl \in Nat /\ MaxTime \in Nat
         /\ row.status \in Status /\ row.attempts \in Nat /\ row.lastAttemptAt \in Nat
         /\ row.payload \in BOOLEAN
         /\ DOMAIN log = 1 .. Len(log) /\ Len(log) \in Nat /\ log \in Seq(Attempt)
         /\ \A a \in DOMAIN log : /\ log[a] \in Attempt /\ log[a].claimedAt \in Nat
                                  /\ log[a].outcome \in Outcome \cup {"NONE"}
<1>1. log \in Seq(Attempt)
  BY DEF TypeInvariant
<1>2. \A a \in DOMAIN log : log[a] \in Attempt
  BY <1>1
<1>3. \A entry \in Attempt : /\ entry.claimedAt \in Nat /\ entry.outcome \in Outcome \cup {"NONE"}
  BY DEF Attempt
<1> QED BY <1>1, <1>2, <1>3, ConstantsAssumption DEF TypeInvariant, Row

\* What a call consists of.
LEMMA CallFields ==
  ASSUME NEW call \in Call
  PROVE  /\ call.phase \in {"idle", "called", "dead", "claimed", "unrendered", "answered", "failing"}
         /\ call.phase \in {"claimed", "unrendered", "answered", "failing", "dead"} => call.attempt \in Nat
         /\ call.phase = "answered" => call.outcome \in Outcome
         /\ call.phase = "failing" => call.seen \in Row
BY DEF Call

\* One call changes.
LEMMA ToChanges ==
  ASSUME TypeInvariant, NEW d \in Calls, NEW call \in Call, To(d, call)
  PROVE  /\ calls' \in [Calls -> Call] /\ calls'[d] = call
         /\ \A e \in Calls : e # d => calls'[e] = calls[e]
BY DEF To, TypeInvariant

\* A call that does not send ends, or has not begun; nothing else changes.
LEMMA CallRestsKeepsInv ==
  ASSUME Inv, NEW d \in Calls, NEW call \in Call, To(d, call),
         call.phase \in {"idle", "called", "dead"}, UNCHANGED <<now, row, content, log>>
  PROVE  Inv'
<1> USE DEF Inv
<1>1. /\ calls' \in [Calls -> Call] /\ calls'[d] = call
      /\ \A e \in Calls : e # d => calls'[e] = calls[e]
  BY ToChanges
<1>2. TypeInvariant'
  BY <1>1 DEF TypeInvariant, Row
<1>3. CallsInv'
  BY <1>1 DEF CallsInv, Works
<1>4. RowInv' /\ LogInv'
  BY DEF RowInv, LogInv, PayloadUntilAccepted, StatusIsOfNewestAttempt
<1> QED BY <1>2, <1>3, <1>4

LEMMA DiesKeepsInv ==
  ASSUME Inv, NEW d \in Calls, Dies(d)
  PROVE  Inv'
<1> DEFINE dead == [phase |-> "dead", attempt |-> AttemptOf(d)]
<1>1. calls[d] \in Call /\ calls[d].phase \notin {"idle", "dead"}
  BY DEF Inv, TypeInvariant, Dies
<1>2. AttemptOf(d) \in Nat
  BY <1>1, CallFields DEF AttemptOf
<1>3. dead \in Call /\ dead.phase = "dead"
  BY <1>2 DEF Call
<1>4. To(d, dead) /\ UNCHANGED <<now, row, content, log>>
  BY DEF Dies
<1> QED BY <1>3, <1>4, CallRestsKeepsInv

LEMMA TickKeepsInv ==
  ASSUME Inv, Tick
  PROVE  Inv'
<1> USE DEF Inv
<1>1. /\ now' = now + 1 /\ now < MaxTime /\ now \in Nat /\ PayloadTtl \in Nat /\ MaxTime \in Nat
      /\ UNCHANGED <<row, content, calls, log>>
  BY Types DEF Tick
<1>2. TypeInvariant'
  BY <1>1 DEF TypeInvariant, Row
<1>3. CallsInv'
  BY <1>1 DEF CallsInv, Works
<1>4. RowInv'
  BY <1>1 DEF RowInv, PayloadUntilAccepted, StatusIsOfNewestAttempt
<1>5. LogInv'
  BY <1>1, Types DEF LogInv
<1> QED BY <1>2, <1>3, <1>4, <1>5

-----------------------------------------------------------------------------
(* Claims.                                                                 *)

\* Of the attempts so far each timed out, failed or is stale.
LEMMA ClaimIsInDoubt ==
  ASSUME Inv, Claimable, HasValidPayload, content = "fine", NEW a \in DOMAIN log
  PROVE  /\ log[a].claimedAt <= now
         /\ log[a].outcome \in {"TIMEOUT", "ERROR"} \/ now - log[a].claimedAt > StaleAfter
<1> USE DEF Inv
<1> DEFINE n == row.attempts
<1>1. /\ n = Len(log) /\ a \in 1 .. n /\ n \in DOMAIN log
      /\ now \in Nat /\ StaleAfter \in Nat
      /\ log[a].claimedAt \in Nat /\ log[n].claimedAt \in Nat
  BY Types DEF TypeInvariant
<1>2. log[a].claimedAt <= log[n].claimedAt /\ log[n].claimedAt <= now
  BY <1>1 DEF LogInv
<1>3. log[n].outcome \in {"TIMEOUT", "ERROR"} \/ now - log[n].claimedAt > StaleAfter
  <2>1. row.status \notin {"PENDING", "ACCEPTED"}
    BY <1>1 DEF Claimable, RowInv
  <2>2. CASE row.status = "SENDING"
    BY <2>2 DEF Claimable, IsStale, RowInv
  <2>3. CASE row.status = "FAILED"
    BY <1>1, <2>3 DEF HasValidPayload, RowInv
  <2>4. CASE row.status = "UNKNOWN"
    <3>1. StatusAfter(log[n].outcome) = "UNKNOWN" /\ log[n].outcome \in Outcome \cup {"NONE"}
      BY <1>1, <2>4, Types DEF RowInv, StatusIsOfNewestAttempt
    <3> QED BY <3>1 DEF StatusAfter, Outcome
  <2> QED BY <2>1, <2>2, <2>3, <2>4, Types DEF Status
<1>4. CASE a = n
  BY <1>2, <1>3, <1>4
<1>5. CASE a < n
  <2>1. log[a].outcome \in {"TIMEOUT", "ERROR"} \/ log[n].claimedAt - log[a].claimedAt > StaleAfter
    BY <1>1, <1>5 DEF LogInv
  <2> QED BY <1>1, <1>2, <2>1
<1> QED BY <1>1, <1>4, <1>5

LEMMA ClaimKeepsInv ==
  ASSUME Inv, NEW d \in Calls, Claim(d)
  PROVE  Inv'
<1> USE DEF Inv
<1> DEFINE n == row.attempts + 1
           new == [claimedAt |-> now, outcome |-> "NONE"]
<1>1. /\ Claimable /\ HasValidPayload /\ content # "undecryptable" /\ n \in Nat /\ now \in Nat
      /\ row' = [row EXCEPT !.status = "SENDING", !.attempts = @ + 1, !.lastAttemptAt = now]
      /\ UNCHANGED <<now, content>>
  BY Types DEF Claim
<1>2. /\ row' \in Row /\ row'.status = "SENDING" /\ row'.attempts = n /\ row'.lastAttemptAt = now
      /\ row'.payload = row.payload
  BY <1>1 DEF TypeInvariant, Row, Status
<1>3. row'.payload
  BY <1>2 DEF HasValidPayload, Claim
<1>4. CASE content = "fine"
  <2> DEFINE call == [phase |-> "claimed", attempt |-> n]
  <2>1. log' = Append(log, new) /\ To(d, call)
    BY <1>4 DEF Claim
  <2>2. call \in Call /\ call.phase = "claimed" /\ call.attempt = n
    BY <1>1 DEF Call
  <2>3. new \in Attempt /\ new.claimedAt = now /\ new.outcome = "NONE"
    BY <1>1 DEF Attempt
  <2>4. Len(log) + 1 = n /\ DOMAIN log = 1 .. Len(log) /\ Len(log) \in Nat /\ log \in Seq(Attempt)
    BY <1>4, Types DEF TypeInvariant
  <2> HIDE DEF call, new
  <2>5. /\ calls' \in [Calls -> Call] /\ calls'[d] = call
        /\ \A e \in Calls : e # d => calls'[e] = calls[e]
    BY <2>1, <2>2, ToChanges
  <2>6. /\ log' \in Seq(Attempt) /\ Len(log') = n /\ DOMAIN log' = 1 .. n /\ log'[n] = new
        /\ \A a \in DOMAIN log : log'[a] = log[a]
    BY <2>1, <2>3, <2>4
  <2>7. TypeInvariant'
    BY <1>1, <1>2, <2>5, <2>6 DEF TypeInvariant
  <2>8. CallsInv'
    <3>1. \A e \in Calls : Works(e)' =>
            \/ e = d
            \/ /\ e # d /\ Works(e) /\ calls'[e] = calls[e] /\ calls[e].attempt \in DOMAIN log
               /\ calls[e].attempt # n
      BY <2>4, <2>5 DEF CallsInv, Works
    <3>2. \A e \in Calls : Works(e)' =>
            /\ calls'[e].attempt \in DOMAIN log'
            /\ log'[calls'[e].attempt].outcome =
                 IF calls'[e].phase = "claimed" THEN "NONE" ELSE calls'[e].outcome
      BY <1>1, <2>2, <2>3, <2>4, <2>5, <2>6, <3>1 DEF CallsInv
    <3>3. \A e, f \in Calls :
            Works(e)' /\ Works(f)' /\ calls'[e].attempt = calls'[f].attempt => e = f
      BY <2>2, <2>5, <3>1 DEF CallsInv
    <3> QED BY <1>1, <1>2, <1>4, <2>2, <2>5, <3>2, <3>3 DEF CallsInv
  <2>9. RowInv'
    <3>1. log'[n].claimedAt = now /\ n > 0
      BY <2>3, <2>4, <2>6
    <3> QED BY <1>1, <1>2, <1>3, <3>1 DEF RowInv, PayloadUntilAccepted, StatusIsOfNewestAttempt
  <2>10. LogInv'
    <3>1. \A a \in DOMAIN log' : a = n \/ a \in DOMAIN log
      BY <2>4, <2>6
    <3>2. \A a, b \in DOMAIN log' : a < b => a \in DOMAIN log
      BY <2>4, <2>6
    <3>3. \A a \in DOMAIN log :
            /\ log[a].claimedAt <= now
            /\ log[a].outcome \in {"TIMEOUT", "ERROR"} \/ now - log[a].claimedAt > StaleAfter
      BY <1>1, <1>4, ClaimIsInDoubt
    <3> QED BY <1>1, <2>3, <2>6, <3>1, <3>2, <3>3 DEF LogInv
  <2> QED BY <2>7, <2>8, <2>9, <2>10
<1>5. CASE content # "fine"
  <2> DEFINE call == [phase |-> "unrendered", attempt |-> n]
  <2>1. log' = log /\ To(d, call) /\ content = "unrenderable"
    BY <1>1, <1>5 DEF Claim, TypeInvariant, Content
  <2>2. call \in Call /\ call.phase = "unrendered"
    BY <1>1 DEF Call
  <2> HIDE DEF call
  <2>3. /\ calls' \in [Calls -> Call] /\ calls'[d] = call
        /\ \A e \in Calls : e # d => calls'[e] = calls[e]
    BY <2>1, <2>2, ToChanges
  <2>4. TypeInvariant'
    BY <1>1, <1>2, <1>5, <2>1, <2>3 DEF TypeInvariant
  <2>5. CallsInv'
    BY <1>1, <1>2, <2>1, <2>2, <2>3 DEF CallsInv, Works
  <2>6. RowInv' /\ LogInv'
    BY <1>1, <1>2, <1>3, <1>5, <2>1 DEF RowInv, PayloadUntilAccepted, StatusIsOfNewestAttempt, LogInv
  <2> QED BY <2>4, <2>5, <2>6
<1> QED BY <1>4, <1>5

\* A payload that is there and not valid has expired, and no claim comes after.
LEMMA PayloadUnavailableKeepsInv ==
  ASSUME Inv, NEW d \in Calls, PayloadUnavailable(d)
  PROVE  Inv'
<1> USE DEF Inv
<1>1. /\ row' = [row EXCEPT !.status = "FAILED"] /\ To(d, Idle) /\ UNCHANGED <<now, content, log>>
      /\ Claimable /\ (~HasValidPayload \/ content = "undecryptable")
  BY DEF PayloadUnavailable
<1>2. /\ row' \in Row /\ row'.status = "FAILED" /\ row'.attempts = row.attempts
      /\ row'.lastAttemptAt = row.lastAttemptAt /\ row'.payload = row.payload
  BY <1>1 DEF TypeInvariant, Row, Status
<1>3. row.payload
  BY <1>1 DEF Claimable, RowInv, PayloadUntilAccepted
<1>4. Idle \in Call /\ Idle.phase = "idle"
  BY DEF Idle, Call
<1>5. /\ calls' \in [Calls -> Call] /\ calls'[d] = Idle
      /\ \A e \in Calls : e # d => calls'[e] = calls[e]
  BY <1>1, <1>4, ToChanges
<1>6. TypeInvariant'
  BY <1>1, <1>2, <1>5 DEF TypeInvariant
<1>7. CallsInv'
  BY <1>1, <1>2, <1>4, <1>5 DEF CallsInv, Works
<1>8. content = "fine" => ~(now <= PayloadTtl)
  BY <1>1, <1>3 DEF HasValidPayload
<1>9. RowInv' /\ LogInv'
  BY <1>1, <1>2, <1>3, <1>8 DEF RowInv, LogInv, PayloadUntilAccepted, StatusIsOfNewestAttempt
<1> QED BY <1>6, <1>7, <1>9

-----------------------------------------------------------------------------
(* Mails and their results.                                                *)

\* The entry of an attempt changes only while its call works on it, and keeps its time.
LEMMA LogChanges ==
  ASSUME Inv, NEW d \in Calls, calls[d].phase = "claimed", NEW entry \in Attempt,
         log' = [log EXCEPT ![calls[d].attempt] = entry],
         entry.claimedAt = log[calls[d].attempt].claimedAt,
         UNCHANGED <<now, row, content>>
  PROVE  /\ log' \in Seq(Attempt) /\ Len(log') = Len(log) /\ DOMAIN log' = DOMAIN log
         /\ log'[calls[d].attempt] = entry
         /\ \A a \in DOMAIN log : a # calls[d].attempt => log'[a] = log[a]
         /\ RowInv' /\ LogInv'
<1> USE DEF Inv
<1> DEFINE n == calls[d].attempt
<1>1. n \in DOMAIN log /\ log[n].outcome = "NONE" /\ content = "fine"
  BY DEF CallsInv, Works
<1>2. /\ log' \in Seq(Attempt) /\ Len(log') = Len(log) /\ DOMAIN log' = DOMAIN log
      /\ log'[n] = entry /\ \A a \in DOMAIN log : a # n => log'[a] = log[a]
  BY <1>1, Types
<1>3. \A a \in DOMAIN log : /\ log'[a].claimedAt = log[a].claimedAt
                            /\ log[a].outcome \in {"TIMEOUT", "ERROR"} => log'[a] = log[a]
  BY <1>1, <1>2 DEF LogInv
<1>4. LogInv'
  BY <1>2, <1>3 DEF LogInv
<1>5. StatusIsOfNewestAttempt'
  <2>1. row.status \in {"ACCEPTED", "UNKNOWN"} => row.attempts # n
    BY DEF CallsInv, Works
  <2> QED BY <1>2, <2>1 DEF RowInv, StatusIsOfNewestAttempt
<1>6. RowInv'
  <2>1. row.attempts > 0 => row.attempts \in DOMAIN log
    BY <1>1, Types DEF TypeInvariant
  <2>2. row.attempts = 0 \/ row.attempts > 0
    BY Types
  <2> QED BY <1>1, <1>2, <1>3, <1>5, <2>1, <2>2 DEF RowInv, PayloadUntilAccepted
<1> QED BY <1>2, <1>4, <1>6

\* An answer adds no attempt.
LEMMA SendKeepsLength ==
  ASSUME Inv, NEW d \in Calls, NEW outcome \in Outcome, Send(d, outcome)
  PROVE  Len(log') = Len(log)
<1>1. log \in Seq(Attempt) /\ calls[d].attempt \in DOMAIN log
  BY DEF Send, Inv, TypeInvariant, CallsInv, Works
<1> QED BY <1>1 DEF Send

LEMMA SendKeepsInv ==
  ASSUME Inv, NEW d \in Calls, NEW outcome \in Outcome, Send(d, outcome)
  PROVE  Inv'
<1> USE DEF Inv
<1> DEFINE n == calls[d].attempt
<1>1. /\ calls[d].phase = "claimed" /\ UNCHANGED <<now, row, content>>
      /\ To(d, [phase |-> "answered", attempt |-> n, outcome |-> outcome])
  BY DEF Send
<1> DEFINE entry == [log[n] EXCEPT !.outcome = outcome]
           call == [phase |-> "answered", attempt |-> n, outcome |-> outcome]
<1>2. n \in DOMAIN log /\ content = "fine" /\ n \in Nat
  BY <1>1, Types DEF CallsInv, Works
<1>3. entry \in Attempt /\ entry.claimedAt = log[n].claimedAt /\ entry.outcome = outcome
  BY <1>2, Types DEF Attempt
<1>4. log' = [log EXCEPT ![n] = entry]
  BY DEF Send
<1>5. call \in Call /\ call.phase = "answered" /\ call.attempt = n /\ call.outcome = outcome
  BY <1>2 DEF Call
<1> HIDE DEF entry
<1>6. /\ log' \in Seq(Attempt) /\ Len(log') = Len(log) /\ DOMAIN log' = DOMAIN log
      /\ log'[n] = entry /\ \A a \in DOMAIN log : a # n => log'[a] = log[a]
      /\ RowInv' /\ LogInv'
  BY <1>1, <1>3, <1>4, LogChanges
<1>7. To(d, call)
  BY <1>1
<1> HIDE DEF call
<1>8. /\ calls' \in [Calls -> Call] /\ calls'[d] = call
      /\ \A e \in Calls : e # d => calls'[e] = calls[e]
  BY <1>5, <1>7, ToChanges
<1>9. TypeInvariant'
  BY <1>1, <1>6, <1>8 DEF TypeInvariant
<1>10. \A e \in Calls : e # d /\ Works(e)' => Works(e) /\ calls'[e] = calls[e] /\ calls[e].attempt # n
  BY <1>1, <1>8 DEF CallsInv, Works
<1>11. CallsInv'
  <2>1. \A e \in Calls : Works(e)' =>
          /\ calls'[e].attempt \in DOMAIN log'
          /\ log'[calls'[e].attempt].outcome =
               IF calls'[e].phase = "claimed" THEN "NONE" ELSE calls'[e].outcome
    BY <1>2, <1>3, <1>5, <1>6, <1>8, <1>10 DEF CallsInv
  <2>2. \A e, f \in Calls : Works(e)' /\ Works(f)' /\ calls'[e].attempt = calls'[f].attempt => e = f
    BY <1>5, <1>8, <1>10 DEF CallsInv
  <2>3. row.status \in {"ACCEPTED", "UNKNOWN"} => n # row.attempts
    BY <1>1 DEF CallsInv, Works
  <2> QED BY <1>1, <1>2, <1>5, <1>8, <1>10, <2>1, <2>2, <2>3 DEF CallsInv
<1> QED BY <1>6, <1>9, <1>11

\* A result that is not late is that of the newest attempt, and its call the only one.
LEMMA FinalizeDispatchResultKeepsInv ==
  ASSUME Inv, NEW d \in Calls, FinalizeDispatchResult(d)
  PROVE  Inv'
<1> USE DEF Inv
<1> DEFINE n == calls[d].attempt
           outcome == calls[d].outcome
<1>1. /\ calls[d].phase = "answered" /\ To(d, Idle) /\ UNCHANGED <<now, content, log>>
      /\ row' = IF IsLate(n) THEN row ELSE Result(outcome)
  BY DEF FinalizeDispatchResult
<1>2. Idle \in Call /\ Idle.phase = "idle"
  BY DEF Idle, Call
<1>3. CASE IsLate(n)
  BY <1>1, <1>2, <1>3, CallRestsKeepsInv
<1>4. CASE ~IsLate(n)
  <2>1. /\ n \in DOMAIN log /\ content = "fine" /\ log[n].outcome = outcome
        /\ outcome \in Outcome
    BY <1>1, CallFields DEF CallsInv, Works, TypeInvariant
  <2>2. n = row.attempts /\ n > 0
    BY <1>4, <2>1, Types DEF IsLate, TypeInvariant
  <2>3. row.status \notin {"ACCEPTED", "UNKNOWN"}
    BY <1>1, <2>2 DEF CallsInv, Works
  <2>4. row.payload
    BY <2>3 DEF RowInv, PayloadUntilAccepted
  <2>5. StatusAfter(outcome) \in Status \ {"PENDING", "SENDING"}
    BY <2>1 DEF StatusAfter, Outcome, Status
  <2>6. /\ row' \in Row /\ row'.status = StatusAfter(outcome) /\ row'.attempts = row.attempts
        /\ row'.lastAttemptAt = row.lastAttemptAt /\ row'.payload = (outcome # "ACCEPTED")
    <3>1. row' = [row EXCEPT !.status = StatusAfter(outcome), !.payload = row.payload /\ outcome # "ACCEPTED"]
      BY <1>1, <1>4 DEF Result
    <3>2. StatusAfter(outcome) \in Status
      BY <2>5
    <3> HIDE DEF outcome
    <3> QED BY <2>4, <3>1, <3>2 DEF TypeInvariant, Row
  <2>7. /\ outcome = "ACCEPTED" <=> StatusAfter(outcome) = "ACCEPTED"
        /\ outcome = "ERROR" <=> StatusAfter(outcome) = "FAILED"
    BY <2>1 DEF StatusAfter, Outcome
  <2>8. /\ calls' \in [Calls -> Call] /\ calls'[d] = Idle
        /\ \A e \in Calls : e # d => calls'[e] = calls[e]
    BY <1>1, <1>2, ToChanges
  <2>9. TypeInvariant'
    BY <1>1, <2>6, <2>8 DEF TypeInvariant
  <2>10. \A e \in Calls : Works(e)' =>
           e # d /\ Works(e) /\ calls'[e] = calls[e] /\ calls[e].attempt # n
    BY <1>1, <1>2, <2>8 DEF CallsInv, Works
  <2>11. CallsInv'
    BY <1>1, <1>2, <2>2, <2>6, <2>8, <2>10 DEF CallsInv, Works
  <2>12. StatusIsOfNewestAttempt'
    BY <1>1, <2>1, <2>2, <2>6 DEF StatusIsOfNewestAttempt
  <2>13. RowInv'
    BY <1>1, <2>1, <2>2, <2>5, <2>6, <2>7, <2>12 DEF RowInv, PayloadUntilAccepted
  <2>14. LogInv'
    BY <1>1 DEF LogInv
  <2> QED BY <2>9, <2>11, <2>13, <2>14
<1> QED BY <1>3, <1>4

-----------------------------------------------------------------------------
(* A mail that cannot be rendered, and the death of a call.                *)

LEMMA BeginFinalizeFailedKeepsInv ==
  ASSUME Inv, NEW d \in Calls, BeginFinalizeFailed(d)
  PROVE  Inv'
<1> USE DEF Inv
<1> DEFINE call == [phase |-> "failing", attempt |-> calls[d].attempt, seen |-> row]
<1>1. /\ calls[d].phase = "unrendered" /\ UNCHANGED <<now, row, content, log>>
      /\ To(d, IF IsLate(calls[d].attempt) THEN Idle ELSE call)
  BY DEF BeginFinalizeFailed
<1>2. Idle \in Call /\ Idle.phase = "idle"
  BY DEF Idle, Call
<1>3. CASE IsLate(calls[d].attempt)
  BY <1>1, <1>2, <1>3, CallRestsKeepsInv
<1>4. CASE ~IsLate(calls[d].attempt)
  <2>1. calls[d].attempt \in Nat /\ row \in Row /\ content = "unrenderable"
    BY <1>1, CallFields DEF TypeInvariant, CallsInv
  <2>2. call \in Call /\ call.phase = "failing" /\ call.seen = row
    BY <2>1 DEF Call
  <2>3. To(d, call)
    BY <1>1, <1>4
  <2>4. row.payload
    BY <2>1 DEF RowInv, PayloadUntilAccepted
  <2> HIDE DEF call
  <2>5. /\ calls' \in [Calls -> Call] /\ calls'[d] = call
        /\ \A e \in Calls : e # d => calls'[e] = calls[e]
    BY <2>2, <2>3, ToChanges
  <2>6. TypeInvariant'
    BY <1>1, <2>5 DEF TypeInvariant, Row
  <2>7. CallsInv'
    BY <1>1, <2>1, <2>2, <2>4, <2>5 DEF CallsInv, Works
  <2>8. RowInv' /\ LogInv'
    BY <1>1 DEF RowInv, LogInv, PayloadUntilAccepted, StatusIsOfNewestAttempt
  <2> QED BY <2>6, <2>7, <2>8
<1> QED BY <1>3, <1>4

\* The save takes the row back, but no mail of it was ever sent.
LEMMA EndFinalizeFailedKeepsInv ==
  ASSUME Inv, NEW d \in Calls, EndFinalizeFailed(d)
  PROVE  Inv'
<1> USE DEF Inv
<1>1. /\ calls[d].phase = "failing" /\ To(d, Idle) /\ UNCHANGED <<now, content, log>>
      /\ row' = [calls[d].seen EXCEPT !.status = "FAILED"]
  BY DEF EndFinalizeFailed
<1>2. calls[d].seen \in Row /\ calls[d].seen.payload /\ content = "unrenderable"
  BY <1>1, CallFields DEF TypeInvariant, CallsInv
<1>3. row' \in Row /\ row'.status = "FAILED" /\ row'.payload
  BY <1>1, <1>2 DEF Row, Status
<1>4. Idle \in Call /\ Idle.phase = "idle"
  BY DEF Idle, Call
<1>5. /\ calls' \in [Calls -> Call] /\ calls'[d] = Idle
      /\ \A e \in Calls : e # d => calls'[e] = calls[e]
  BY <1>1, <1>4, ToChanges
<1>6. TypeInvariant'
  BY <1>1, <1>2, <1>3, <1>5 DEF TypeInvariant
<1>7. CallsInv'
  BY <1>1, <1>2, <1>3, <1>4, <1>5 DEF CallsInv, Works
<1>8. RowInv' /\ LogInv'
  BY <1>1, <1>2, <1>3 DEF RowInv, LogInv, PayloadUntilAccepted, StatusIsOfNewestAttempt
<1> QED BY <1>6, <1>7, <1>8

-----------------------------------------------------------------------------
(* The theorems.                                                           *)

LEMMA InitInv == Init => Inv
<1> SUFFICES ASSUME Init PROVE Inv
  OBVIOUS
<1>1. \A d \in Calls : calls[d] \in {Idle, [phase |-> "called"]}
  BY DEF Init
<1>2. \A d \in Calls : calls[d].phase \in {"idle", "called"} /\ calls[d] \in Call
  <2>1. \A call \in {Idle, [phase |-> "called"]} : call.phase \in {"idle", "called"} /\ call \in Call
    BY DEF Idle, Call
  <2> QED BY <1>1, <2>1
<1>3. calls \in [Calls -> Call]
  BY <1>2 DEF Init
<1>4. TypeInvariant
  BY <1>3, ConstantsAssumption DEF Init, TypeInvariant, Row, Status
<1>5. CallsInv
  BY <1>2 DEF Init, CallsInv, Works
<1>6. RowInv /\ LogInv
  BY DEF Init, RowInv, LogInv, PayloadUntilAccepted, StatusIsOfNewestAttempt
<1> QED BY <1>4, <1>5, <1>6 DEF Inv

LEMMA NextKeepsInv == Inv /\ [Next]_vars => Inv'
<1> SUFFICES ASSUME Inv, [Next]_vars PROVE Inv'
  OBVIOUS
<1>1. ASSUME NEW d \in Calls, Retry(d) \/ NotClaimed(d) PROVE Inv'
  <2>1. Idle \in Call /\ [phase |-> "called"] \in Call
    BY DEF Idle, Call
  <2> QED BY <1>1, <2>1, CallRestsKeepsInv DEF Retry, NotClaimed, Idle
<1>2. CASE UNCHANGED vars
  <2>1. UNCHANGED <<now, row, content, calls, log>>
    BY <1>2 DEF vars
  <2>2. TypeInvariant' /\ CallsInv'
    BY <2>1 DEF Inv, TypeInvariant, Row, CallsInv, Works
  <2>3. RowInv' /\ LogInv'
    BY <2>1 DEF Inv, RowInv, LogInv, PayloadUntilAccepted, StatusIsOfNewestAttempt
  <2> QED BY <2>2, <2>3 DEF Inv
<1> QED BY <1>1, <1>2, TickKeepsInv, ClaimKeepsInv, PayloadUnavailableKeepsInv, SendKeepsInv,
           FinalizeDispatchResultKeepsInv, BeginFinalizeFailedKeepsInv,
           EndFinalizeFailedKeepsInv, DiesKeepsInv DEF Next, Dispatch

\* The invariant, for the fair specification too, which implies Spec.
THEOREM InvariantHolds == Spec => []Inv
BY InitInv, NextKeepsInv, PTL DEF Spec

\* The payload is there while it is needed, and the status tells of the newest attempt.
THEOREM MailAlwaysConsistent == Spec => []MailConsistent
<1>1. Inv => MailConsistent
  BY DEF Inv, RowInv, MailConsistent
<1> QED BY <1>1, InvariantHolds, PTL

\* A claim for another mail finds every earlier attempt failed, timed out or stale.
THEOREM AlwaysSentAgainUnacknowledged == Spec => SentAgainOnlyUnacknowledged
<1>1. ASSUME Inv, [Next]_vars, Len(log') > Len(log), NEW a \in DOMAIN log
      PROVE  \/ log[a].outcome \in {"ERROR", "TIMEOUT"}
             \/ now - log[a].claimedAt > StaleAfter
  <2>1. Len(log) \in Nat /\ log' # log
    BY <1>1, Types DEF Inv
  <2>2. \A d \in Calls, outcome \in Outcome : ~Send(d, outcome)
    <3>1. \A d \in Calls, outcome \in Outcome : Send(d, outcome) => Len(log') = Len(log)
      BY <1>1, SendKeepsLength
    <3> QED BY <1>1, <2>1, <3>1
  <2>3. PICK d \in Calls : Claim(d)
    BY <1>1, <2>1, <2>2 DEF Next, Dispatch, vars, Tick, Retry, NotClaimed, PayloadUnavailable,
       FinalizeDispatchResult, BeginFinalizeFailed, EndFinalizeFailed, Dies
  <2>4. Claimable /\ HasValidPayload /\ content = "fine"
    BY <2>1, <2>3 DEF Claim
  <2> QED BY <1>1, <2>4, ClaimIsInDoubt
<1>2. Inv /\ [Next]_vars =>
        [Len(log') > Len(log) =>
           \A a \in DOMAIN log :
             \/ log[a].outcome \in {"ERROR", "TIMEOUT"}
             \/ now - log[a].claimedAt > StaleAfter]_vars
  BY <1>1
<1> QED BY <1>2, InvariantHolds, PTL DEF Spec, SentAgainOnlyUnacknowledged

\* Nothing changes an accepted notification.
THEOREM AcceptedIsAlwaysFinal == Spec => AcceptedIsFinal
<1>1. ASSUME Inv, [Next]_vars, row.status = "ACCEPTED" PROVE row' = row
  <2>1. content = "fine" /\ ~Claimable
    BY <1>1 DEF Inv, RowInv, Claimable
  <2>2. \A d \in Calls : ~Claim(d) /\ ~PayloadUnavailable(d)
    BY <2>1 DEF Claim, PayloadUnavailable
  <2>3. \A d \in Calls : ~EndFinalizeFailed(d)
    BY <1>1, <2>1 DEF Inv, CallsInv, EndFinalizeFailed
  <2>4. ASSUME NEW d \in Calls, FinalizeDispatchResult(d) PROVE row' = row
    <3>1. /\ calls[d].phase = "answered" /\ calls[d].attempt # row.attempts
          /\ calls[d].attempt \in DOMAIN log
      BY <1>1, <2>4 DEF FinalizeDispatchResult, Inv, CallsInv, Works
    <3>2. IsLate(calls[d].attempt)
      BY <1>1, <2>1, <3>1, Types DEF Inv, TypeInvariant, IsLate
    <3> QED BY <2>4, <3>2 DEF FinalizeDispatchResult
  <2> QED BY <1>1, <2>2, <2>3, <2>4 DEF Next, Dispatch, vars, Tick, Retry, NotClaimed, Send,
       BeginFinalizeFailed, Dies
<1> QED BY <1>1, InvariantHolds, PTL DEF Spec, AcceptedIsFinal
==============================================================================
