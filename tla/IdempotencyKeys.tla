-------------------------- MODULE IdempotencyKeys ---------------------------
(***************************************************************************)
(* The rows of idempotency_keys and the requests that pass through         *)
(* IdempotencyService.execute, for one actor and one route.                *)
(*                                                                         *)
(* The service takes no lock and opens no transaction: each statement is a *)
(* step of its own, and only the unique index on (actorScope, route, key)  *)
(* keeps two requests from working at once.  The effects of the business   *)
(* transactions are the rows they insert, by the request that inserted     *)
(* them; the modules that use the service say what else an effect changes. *)
(***************************************************************************)
EXTENDS Naturals, Sequences

CONSTANTS
  Keys,         \* the keys the client may send
  Payloads,     \* the bodies: what lies at the top level and what is nested
  MaxRequests,  \* bound on the requests
  MaxTime,      \* bound of the clock
  Ttl           \* ttlSeconds, 24 hours for every caller

ASSUME KeysAssumption ==
  /\ MaxRequests \in Nat /\ MaxTime \in Nat /\ Ttl \in Nat \ {0}
  /\ \A p \in Payloads : p = [top |-> p.top, nested |-> p.nested]

VARIABLES
  now,       \* the clock
  keys,      \* the row of each key, NoRow if there is none
  requests,  \* the requests received, in order
  effects    \* the rows the requests have inserted: the number of the request

keyVars == <<now, keys, requests, effects>>

NoRow == [none |-> TRUE]

\* Faulty variant: the body does not enter the hash.
FaultyComputeHash(payload) == "any"

\* JSON.stringify with the keys of the top level as its replacer: a nested field
\* is kept only if a field of the top level has its name, which none has.
ComputeHash(payload) == payload.top

\* The id of a row is the number of the request that created it.
Row(ids, responses) ==
  [id : ids, requestHash : {ComputeHash(p) : p \in Payloads},
   state : {"processing", "completed"}, response : responses, expiresAt : 0 .. MaxTime + Ttl]

\* How far a request has come, "expired" when it has read an expired row.
Phase == {"expired", "insert", "acting", "acted", "ended"}
Answer == {"none", "created", "replayed", "key_reused", "in_progress", "error", "died"}

KeysTyped ==
  /\ now \in 0 .. MaxTime
  /\ effects \in Seq(DOMAIN requests)
  /\ keys \in [Keys -> {NoRow} \cup Row(DOMAIN requests, {0} \cup DOMAIN effects)]
  \* at: the hour it read; stale: the expired row it found.
  /\ requests \in Seq([key : Keys, payload : Payloads, at : 0 .. now, stale : Nat,
                       phase : Phase, answer : Answer, response : {0} \cup DOMAIN effects])

KeysInit ==
  /\ now = 0
  /\ keys = [k \in Keys |-> NoRow]
  /\ requests = <<>>
  /\ effects = <<>>

-----------------------------------------------------------------------------
At(r, phase) == r \in DOMAIN requests /\ requests[r].phase = phase
Goes(r, phase) == requests' = [requests EXCEPT ![r].phase = phase]
RequestEnds(r, answer) == requests' = [requests EXCEPT ![r].phase = "ended", ![r].answer = answer]
RowOf(r) == keys[requests[r].key]

\* A statement that updates or deletes a row finds it by its id.
Owns(r) == RowOf(r) # NoRow /\ RowOf(r).id = r
Delete(k, id) == keys' = IF keys[k] # NoRow /\ keys[k].id = id
                          THEN [keys EXCEPT ![k] = NoRow] ELSE keys

ClockTicks ==
  /\ now < MaxTime
  /\ now' = now + 1
  /\ UNCHANGED <<keys, requests, effects>>

\* The request reads the row of its key; the hour it reads is the one that
\* decides on expiry and on the expiry of its own row.
Receive(k, payload) ==
  LET row == keys[k]
      live == row # NoRow /\ row.expiresAt > now
      answer == CASE ~live -> "none"
                  [] live /\ row.requestHash # ComputeHash(payload) -> "key_reused"
                  [] live /\ row.requestHash = ComputeHash(payload) ->
                       IF row.state = "processing" THEN "in_progress" ELSE "replayed"
  IN
  /\ Len(requests) < MaxRequests
  /\ requests' = Append(requests,
       [key |-> k, payload |-> payload, at |-> now,
        stale |-> IF row = NoRow \/ live THEN 0 ELSE row.id,
        phase |-> IF live THEN "ended" ELSE IF row = NoRow THEN "insert" ELSE "expired",
        answer |-> answer, response |-> IF answer = "replayed" THEN row.response ELSE 0])
  /\ UNCHANGED <<now, keys, effects>>

\* The expired row is deleted by its id; another request may have done it.
DeleteExpired(r) ==
  /\ At(r, "expired")
  /\ Delete(requests[r].key, requests[r].stale)
  /\ requests' = [requests EXCEPT ![r].phase = "insert", ![r].stale = 0]
  /\ UNCHANGED <<now, effects>>

\* Faulty variant: the insert replaces a row that is there.
FaultyInsert(r) ==
  /\ At(r, "insert")
  /\ keys' = [keys EXCEPT ![requests[r].key] =
       [id |-> r, requestHash |-> ComputeHash(requests[r].payload), state |-> "processing",
        response |-> 0, expiresAt |-> requests[r].at + Ttl]]
  /\ Goes(r, "acting")
  /\ UNCHANGED <<now, effects>>

\* The insert is where two requests meet: the unique index lets one through.
Insert(r) ==
  /\ At(r, "insert")
  /\ IF RowOf(r) = NoRow
       THEN /\ keys' = [keys EXCEPT ![requests[r].key] =
                 [id |-> r, requestHash |-> ComputeHash(requests[r].payload),
                  state |-> "processing", response |-> 0,
                  expiresAt |-> requests[r].at + Ttl]]
            /\ Goes(r, "acting")
       ELSE RequestEnds(r, "in_progress") /\ UNCHANGED keys
  /\ UNCHANGED <<now, effects>>

\* The business transaction commits and the action returns ...
Commits(r) ==
  /\ At(r, "acting")
  /\ effects' = Append(effects, r)
  /\ requests' = [requests EXCEPT ![r].phase = "acted", ![r].response = Len(effects) + 1]
  /\ UNCHANGED <<now, keys>>

\* The catch block, after an error of the action or of the save that follows:
\* the row is deleted by its id, so that the client may try again.  An error of
\* the deletion is logged, and the row stays.
Fails(r) ==
  /\ \/ Delete(requests[r].key, r)
     \/ UNCHANGED keys
  /\ RequestEnds(r, "error")
  /\ UNCHANGED now

\* ... or it throws.
Throws(r) == At(r, "acting") /\ Fails(r) /\ UNCHANGED effects

\* Saving the result inserts the row again if somebody has deleted it ...
Complete(r) ==
  /\ At(r, "acted")
  /\ RowOf(r) = NoRow \/ Owns(r)
  /\ keys' = [keys EXCEPT ![requests[r].key] =
       [id |-> r, requestHash |-> ComputeHash(requests[r].payload),
        state |-> "completed", response |-> requests[r].response,
        expiresAt |-> requests[r].at + Ttl]]
  /\ RequestEnds(r, "created")
  /\ UNCHANGED <<now, effects>>

\* ... and fails if the key then has another row, or for any other reason: what
\* was committed stays.
CompleteFails(r) == At(r, "acted") /\ Fails(r) /\ UNCHANGED effects

\* The process of the request dies.  Before the insert that leaves no trace, and
\* after an error it is as if the deletion failed.
Dies(r) ==
  /\ At(r, "acting") \/ At(r, "acted")
  /\ RequestEnds(r, "died")
  /\ UNCHANGED <<now, keys, effects>>

\* The steps of the service around the action of its caller.
KeyStep(r) == DeleteExpired(r) \/ Insert(r) \/ Complete(r) \/ CompleteFails(r)

-----------------------------------------------------------------------------
(* Properties of the service, whatever the action of its caller does.      *)

\* Two requests with one key take effect both only if the first one answered an
\* error although it had committed, or if the row of one of them has expired
\* (README.md:228 promises no duplicate mutation).
SecondEffectOnlyInDoubt ==
  [][\A c \in DOMAIN effects : effects' # effects =>
       LET first == requests[effects[c]] second == requests[effects'[Len(effects')]] IN
       first.key = second.key =>
         \/ first.answer = "error"
         \/ now >= first.at + Ttl \/ now >= second.at + Ttl]_keyVars

\* What the client is told is so: a created or replayed answer is the effect of
\* a request with that key whose top level is the same, and the refusal of a
\* reused key means that another request with that key had another payload.
AnswersAreTrue ==
  \A r \in DOMAIN requests :
    LET req == requests[r] IN
    /\ req.answer = "created" => req.response # 0 /\ effects[req.response] = r
    /\ req.answer = "replayed" =>
         /\ req.response # 0
         /\ requests[effects[req.response]].key = req.key
         /\ requests[effects[req.response]].payload.top = req.payload.top
    /\ req.answer = "key_reused" =>
         \E q \in 1 .. r - 1 : requests[q].key = req.key /\ requests[q].payload # req.payload
=============================================================================
