----------------------- MODULE IntakeAndUpload_proofs -----------------------
(***************************************************************************)
(* Theorems about what brings an application and its CV: first Intake, for *)
(* any set of addresses, any number of requests at once and any bounds,    *)
(* then CvUpload and the IdempotencyKeys it is built on, for any keys and  *)
(* payloads, any number of requests and any time to live.                  *)
(***************************************************************************)
EXTENDS Intake, CvUpload, FiniteSetTheorems, TLAPS


-----------------------------------------------------------------------------
(* The inductive invariant.                                                *)

\* HR has seen the job as it is, or an earlier version of it.
JobInv ==
  seen # None =>
    /\ job # None /\ seen.version <= job.version
    /\ seen.version = job.version => job = seen \/ job.deleted

\* The unique indexes.
RowsInv ==
  /\ \A c, d \in DOMAIN candidates :
       Present(c) /\ Present(d) /\ candidates[c].email = candidates[d].email => c = d
  /\ \A a, b \in DOMAIN applications :
       Active(a) /\ Active(b) /\ applications[a].candidate = applications[b].candidate => a = b

\* What a request found when it checked still holds, or its candidate is raced.
Relies(s) ==
  /\ Doing(s, "edit") =>
       /\ ~pending[s].row.deleted
       /\ \/ pending[s].candidate \in raced
          \/ /\ Present(pending[s].candidate)
             /\ pending[s].row.edits = candidates[pending[s].candidate].edits + 1
  /\ Doing(s, "remove") =>
       pending[s].candidate \in raced \/ ApplicationsOf(pending[s].candidate) = {}
  /\ Doing(s, "apply") =>
       pending[s].candidate \in raced \/ Present(pending[s].candidate)

Concerns(s, c) ==
  (Doing(s, "edit") \/ Doing(s, "remove") \/ Doing(s, "apply")) /\ pending[s].candidate = c

\* Requests at odds have been seen when the later of them began.
RacesSeen ==
  \A s, t \in Slots : \A c \in DOMAIN candidates :
    /\ s # t /\ Concerns(s, c) /\ Concerns(t, c)
    /\ {pending[s].op, pending[t].op} \in AtOdds
    => c \in raced

Inv ==
  /\ TypeInvariant /\ JobInv /\ RowsInv /\ OrphansOnlyFromRaces
  /\ RacesSeen
  /\ \A s \in Slots : Relies(s)

-----------------------------------------------------------------------------
(* Requests.                                                               *)

\* What a request of each operation consists of.
LEMMA RequestFields ==
  ASSUME NEW q \in Request
  PROVE  /\ q # None
         /\ q.op \in {"create", "edit", "remove", "apply", "invite"}
         /\ q.op = "create" => q.email \in Emails
         /\ q.op = "edit" => q.candidate \in DOMAIN candidates /\ q.row \in Candidate
         /\ q.op \in {"remove", "apply"} => q.candidate \in DOMAIN candidates
         /\ q.op = "invite" => q.application \in DOMAIN applications /\ q.email \in Emails
         /\ q.op \in {"edit", "remove", "apply"} <=> "candidate" \in DOMAIN q
<1>1. CASE q \in [op : {"create"}, email : Emails]
  BY <1>1 DEF None
<1>2. CASE q \in [op : {"edit"}, candidate : DOMAIN candidates, row : Candidate]
  BY <1>2 DEF None
<1>3. CASE q \in [op : {"remove", "apply"}, candidate : DOMAIN candidates]
  BY <1>3 DEF None
<1>4. CASE q \in [op : {"invite"}, application : DOMAIN applications, email : Emails]
  BY <1>4 DEF None
<1> QED BY <1>1, <1>2, <1>3, <1>4 DEF Request

\* A request stays one when rows are added.
LEMMA RequestGrows ==
  ASSUME DOMAIN candidates \subseteq DOMAIN candidates',
         DOMAIN applications \subseteq DOMAIN applications'
  PROVE  Request \subseteq Request'
<1> SUFFICES ASSUME NEW q \in Request PROVE q \in Request'
  OBVIOUS
<1>1. CASE q \in [op : {"create"}, email : Emails]
  BY <1>1 DEF Request
<1>2. CASE q \in [op : {"edit"}, candidate : DOMAIN candidates, row : Candidate]
  BY <1>2 DEF Request, Candidate
<1>3. CASE q \in [op : {"remove", "apply"}, candidate : DOMAIN candidates]
  BY <1>3 DEF Request
<1>4. CASE q \in [op : {"invite"}, application : DOMAIN applications, email : Emails]
  BY <1>4 DEF Request
<1> QED BY <1>1, <1>2, <1>3, <1>4 DEF Request

\* What the rows consist of.
LEMMA Rows ==
  ASSUME TypeInvariant
  PROVE  /\ DOMAIN candidates = 1 .. Len(candidates) /\ Len(candidates) \in Nat
         /\ \A c \in DOMAIN candidates :
              /\ candidates[c] \in Candidate
              /\ candidates[c].email \in Emails /\ candidates[c].edits \in Nat
              /\ candidates[c].deleted \in BOOLEAN
         /\ DOMAIN applications = 1 .. Len(applications) /\ Len(applications) \in Nat
         /\ \A a \in DOMAIN applications :
              /\ applications[a] \in Application
              /\ applications[a].candidate \in DOMAIN candidates
              /\ applications[a].deleted \in BOOLEAN
<1>1. candidates \in Seq(Candidate) /\ applications \in Seq(Application)
  BY DEF TypeInvariant
<1>2. /\ \A c \in DOMAIN candidates : candidates[c] \in Candidate
      /\ \A a \in DOMAIN applications : applications[a] \in Application
  BY <1>1
<1>3. \A row \in Candidate : row.email \in Emails /\ row.edits \in Nat /\ row.deleted \in BOOLEAN
  BY DEF Candidate
<1>4. \A row \in Application : row.deleted \in BOOLEAN
  BY DEF Application
<1> QED BY <1>1, <1>2, <1>3, <1>4 DEF TypeInvariant

\* A request that ends makes no race.
LEMMA EndsKeepsRaces ==
  ASSUME TypeInvariant, RacesSeen, NEW s \in Slots, Ends(s),
         DOMAIN candidates' = 1 .. Len(candidates) \/ DOMAIN candidates' = 1 .. Len(candidates) + 1,
         DOMAIN applications \subseteq DOMAIN applications'
  PROVE  /\ pending' \in [Slots -> {None} \cup Request'] /\ pending'[s] = None
         /\ \A r \in Slots : r # s => pending'[r] = pending[r]
         /\ UNCHANGED <<job, seen, raced>> /\ raced' \subseteq DOMAIN candidates'
         /\ RacesSeen'
<1>1. DOMAIN candidates \subseteq DOMAIN candidates' /\ UNCHANGED <<job, seen, raced>>
  BY Rows DEF Ends
<1>2. /\ pending' \in [Slots -> {None} \cup Request'] /\ pending'[s] = None
      /\ \A r \in Slots : r # s => pending'[r] = pending[r]
  BY <1>1, RequestGrows DEF Ends, TypeInvariant
<1>3. \A r \in Slots, c \in DOMAIN candidates' :
        Concerns(r, c)' => Concerns(r, c) /\ pending'[r] = pending[r] /\ c \in DOMAIN candidates
  BY <1>2, RequestFields DEF Concerns, Doing, TypeInvariant
<1>4. RacesSeen'
  BY <1>1, <1>3 DEF RacesSeen
<1> QED BY <1>1, <1>2, <1>4 DEF TypeInvariant

-----------------------------------------------------------------------------
(* Steps on the job.                                                       *)

\* Neither rows nor requests change.
LEMMA JobStepKeepsInv ==
  ASSUME Inv, UNCHANGED <<candidates, applications, pending, raced>>,
         job' \in {None} \cup Job, seen' \in {None} \cup Job, JobInv'
  PROVE  Inv'
<1> USE DEF Inv
<1>1. Request' = Request
  BY DEF Request, Candidate
<1>2. TypeInvariant'
  BY <1>1 DEF TypeInvariant
<1>3. RowsInv' /\ OrphansOnlyFromRaces'
  BY DEF RowsInv, OrphansOnlyFromRaces, Present, Active
<1>4. RacesSeen'
  BY DEF RacesSeen, Concerns, Doing
<1>5. \A s \in Slots : Relies(s)'
  BY DEF Relies, Doing, Present, ApplicationsOf, Active
<1> QED BY <1>2, <1>3, <1>4, <1>5

\* What the versions of a job are.
LEMMA JobFields ==
  ASSUME NEW j \in Job
  PROVE  j # None /\ j.version \in Nat /\ j.version >= 1 /\ j.version <= MaxVersion
                  /\ j.deleted \in BOOLEAN /\ j.status \in {"draft", "open", "closed"}
BY BoundsAssumption DEF Job, None

\* HR reads the job as it is; every other step adds a version, but for the removal.
LEMMA JobStepsKeepInv ==
  ASSUME Inv, JobStep
  PROVE  Inv'
<1> USE DEF Inv
<1>1. CASE HrReadsJob
  <2>1. /\ job' = job /\ seen' = job /\ job # None
        /\ UNCHANGED <<candidates, applications, pending, raced>>
    BY <1>1 DEF HrReadsJob
  <2>2. JobInv' /\ job \in Job
    BY <2>1, JobFields DEF JobInv, TypeInvariant
  <2> QED BY <2>1, <2>2, JobStepKeepsInv
<1>2. ASSUME NEW to \in {"draft", "open"}, CreateJob(to) PROVE Inv'
  <2>1. /\ job = None /\ job' = [status |-> to, version |-> 1, deleted |-> FALSE]
        /\ UNCHANGED <<seen, candidates, applications, pending, raced>>
    BY <1>2 DEF CreateJob
  <2>2. seen = None
    BY <2>1 DEF JobInv
  <2>3. job' \in Job
    BY <2>1, BoundsAssumption DEF Job
  <2> QED BY <2>1, <2>2, <2>3, JobStepKeepsInv DEF JobInv
<1>3. ASSUME NEW to \in {"draft", "open", "closed"}, JobVersionMatches,
             job.version < MaxVersion, UNCHANGED <<seen, candidates, applications, pending, raced>>,
             job' = [job EXCEPT !.status = to, !.version = @ + 1]
      PROVE  Inv'
  <2>1. job \in Job /\ seen \in Job
    BY <1>3 DEF JobVersionMatches, TypeInvariant
  <2>2. job' \in Job /\ job'.version = job.version + 1
    <3>1. job.version + 1 \in 1 .. MaxVersion
      BY <1>3, <2>1, BoundsAssumption DEF Job
    <3> QED BY <1>3, <2>1, <3>1 DEF Job
  <2>3. JobInv'
    BY <1>3, <2>1, <2>2, JobFields DEF JobInv
  <2> QED BY <1>3, <2>1, <2>2, <2>3, JobStepKeepsInv
<1>4. CASE DeleteJob
  <2>1. /\ job # None /\ job' = [job EXCEPT !.deleted = TRUE] /\ job \in Job
        /\ UNCHANGED <<seen, candidates, applications, pending, raced>>
    BY <1>4 DEF DeleteJob, TypeInvariant
  <2>2. job' \in Job /\ job'.version = job.version /\ job'.deleted
    BY <2>1 DEF Job
  <2>3. JobInv'
    BY <2>1, <2>2, JobFields DEF JobInv
  <2> QED BY <2>1, <2>2, <2>3, JobStepKeepsInv DEF TypeInvariant
<1>5. ASSUME NEW to \in {"draft", "open"}, UpdateJob(to) PROVE Inv'
  BY <1>3, <1>5 DEF UpdateJob
<1>6. CASE CloseJob
  BY <1>3, <1>6 DEF CloseJob
<1> QED BY <1>1, <1>2, <1>4, <1>5, <1>6 DEF JobStep

-----------------------------------------------------------------------------
(* Requests that check.                                                    *)

LEMMA BeginsKeepsInv ==
  ASSUME Inv, NEW s \in Slots, NEW q \in Request, Begins(s, q), UNCHANGED raced,
         q.op \in {"create", "invite"}
  PROVE  Inv'
<1> USE DEF Inv
<1>1. UNCHANGED <<job, seen, candidates, applications, raced>>
  BY DEF Begins
<1>2. /\ pending' \in [Slots -> {None} \cup Request'] /\ pending'[s] = q
      /\ \A r \in Slots : r # s => pending'[r] = pending[r]
  BY <1>1, RequestGrows DEF Begins, TypeInvariant
<1>3. TypeInvariant'
  BY <1>1, <1>2 DEF TypeInvariant, Candidate
<1>4. JobInv' /\ RowsInv' /\ OrphansOnlyFromRaces'
  BY <1>1 DEF JobInv, RowsInv, OrphansOnlyFromRaces, Present, Active
<1>5. \A r \in Slots : (Doing(r, "edit") \/ Doing(r, "remove") \/ Doing(r, "apply"))' =>
        r # s /\ pending'[r] = pending[r]
  BY <1>2 DEF Doing
<1>6. RacesSeen'
  BY <1>1, <1>5 DEF RacesSeen, Concerns, Doing
<1>7. \A r \in Slots : Relies(r)'
  BY <1>1, <1>5 DEF Relies, Doing, Present, ApplicationsOf, Active
<1> QED BY <1>3, <1>4, <1>6, <1>7

\* A request about a candidate has checked it, and meets those at odds with it.
LEMMA BeginsAboutKeepsInv ==
  ASSUME Inv, NEW s \in Slots, NEW q \in Request, BeginsAbout(s, q),
         q.op \in {"edit", "remove", "apply"},
         q.op = "edit" => /\ ~q.row.deleted /\ Present(q.candidate)
                          /\ q.row.edits = candidates[q.candidate].edits + 1,
         q.op = "remove" => ApplicationsOf(q.candidate) = {},
         q.op = "apply" => Present(q.candidate)
  PROVE  Inv'
<1> USE DEF Inv
<1>1. UNCHANGED <<job, seen, candidates, applications>>
  BY DEF BeginsAbout, Begins
<1>2. /\ pending' \in [Slots -> {None} \cup Request'] /\ pending'[s] = q /\ pending[s] = None
      /\ \A r \in Slots : r # s => pending'[r] = pending[r]
  BY <1>1, RequestGrows DEF BeginsAbout, Begins, TypeInvariant
<1>3. q.candidate \in DOMAIN candidates
  BY RequestFields
<1>4. raced \subseteq raced' /\ raced' \subseteq raced \cup {q.candidate}
  BY DEF BeginsAbout
<1>5. TypeInvariant'
  BY <1>1, <1>2, <1>3, <1>4 DEF TypeInvariant, Candidate
<1>6. JobInv' /\ RowsInv' /\ OrphansOnlyFromRaces'
  BY <1>1, <1>4 DEF JobInv, RowsInv, OrphansOnlyFromRaces, Present, Active
<1>7. \A r \in Slots, c \in DOMAIN candidates : r # s =>
        (Concerns(r, c)' <=> Concerns(r, c)) /\ pending'[r] = pending[r]
  BY <1>2 DEF Concerns, Doing
<1>8. \A t \in Slots : t # s /\ Concerns(t, q.candidate) /\ {pending[t].op, q.op} \in AtOdds
        => q.candidate \in raced'
  <2> SUFFICES ASSUME NEW t \in Slots, t # s, Concerns(t, q.candidate),
                      {pending[t].op, q.op} \in AtOdds
               PROVE  q.candidate \in raced'
    OBVIOUS
  <2>1. pending[t] # None /\ "candidate" \in DOMAIN pending[t] /\ pending[t].candidate = q.candidate
    BY RequestFields DEF Concerns, Doing, TypeInvariant
  <2> QED BY <2>1 DEF BeginsAbout
<1>9. \A c \in DOMAIN candidates : Concerns(s, c)' => c = q.candidate
  BY <1>2 DEF Concerns
<1>10. RacesSeen'
  <2> SUFFICES ASSUME NEW r \in Slots, NEW t \in Slots, NEW c \in DOMAIN candidates,
                      r # t, Concerns(r, c)', Concerns(t, c)',
                      {pending'[r].op, pending'[t].op} \in AtOdds
               PROVE  c \in raced'
    BY <1>1 DEF RacesSeen, AtOdds
  <2>1. CASE r = s
    BY <1>2, <1>7, <1>8, <1>9, <2>1, {pending'[r].op, pending'[t].op} = {pending'[t].op, pending'[r].op}
  <2>2. CASE t = s
    BY <1>2, <1>7, <1>8, <1>9, <2>2
  <2>3. CASE r # s /\ t # s
    BY <1>4, <1>7, <2>3 DEF RacesSeen
  <2> QED BY <2>1, <2>2, <2>3
<1>11. \A r \in Slots : Relies(r)'
  <2>1. Relies(s)'
    BY <1>1, <1>2 DEF Relies, Doing, Present, ApplicationsOf, Active
  <2>2. ASSUME NEW r \in Slots, r # s PROVE Relies(r)'
    BY <1>1, <1>2, <1>4, <2>2 DEF Relies, Doing, Present, ApplicationsOf, Active
  <2> QED BY <2>1, <2>2
<1> QED BY <1>5, <1>6, <1>10, <1>11

-----------------------------------------------------------------------------
(* Requests that end.                                                      *)

\* Nothing is written.
LEMMA EndsKeepsInv ==
  ASSUME Inv, NEW s \in Slots, Ends(s), UNCHANGED <<candidates, applications>>
  PROVE  Inv'
<1> USE DEF Inv
<1>1. /\ pending' \in [Slots -> {None} \cup Request'] /\ pending'[s] = None
      /\ \A r \in Slots : r # s => pending'[r] = pending[r]
      /\ UNCHANGED <<job, seen, raced>> /\ RacesSeen'
  BY Rows, EndsKeepsRaces
<1>2. TypeInvariant'
  BY <1>1 DEF TypeInvariant
<1>3. JobInv' /\ RowsInv' /\ OrphansOnlyFromRaces'
  BY <1>1 DEF JobInv, RowsInv, OrphansOnlyFromRaces, Present, Active
<1>4. ASSUME NEW r \in Slots PROVE Relies(r)'
  <2>1. CASE r = s
    BY <1>1, <2>1 DEF Relies, Doing
  <2>2. CASE r # s
    BY <1>1, <2>2 DEF Relies, Doing, Present, ApplicationsOf, Active
  <2> QED BY <2>1, <2>2
<1> QED BY <1>1, <1>2, <1>3, <1>4

\* A candidate is added, with an address nobody has.
LEMMA EndCreateKeepsInv ==
  ASSUME Inv, NEW s \in Slots, EndCreate(s)
  PROVE  Inv'
<1> USE DEF Inv
<1> DEFINE email == pending[s].email
           new == [email |-> email, edits |-> 0, deleted |-> FALSE]
           n == Len(candidates) + 1
<1>1. CASE Others(0, email) # {}
  BY <1>1, EndsKeepsInv DEF EndCreate
<1>2. CASE Others(0, email) = {}
  <2>1. email \in Emails
    BY RequestFields DEF EndCreate, Doing, TypeInvariant
  <2>2. new \in Candidate /\ new.email = email /\ ~new.deleted
    BY <2>1 DEF Candidate
  <2>3. candidates' = Append(candidates, new) /\ UNCHANGED applications /\ Ends(s)
    BY <1>2 DEF EndCreate
  <2> HIDE DEF new
  <2>4. /\ candidates' \in Seq(Candidate) /\ DOMAIN candidates' = 1 .. n
        /\ DOMAIN candidates = 1 .. Len(candidates) /\ Len(candidates) \in Nat
        /\ candidates'[n] = new /\ \A c \in DOMAIN candidates : candidates'[c] = candidates[c]
    BY <2>2, <2>3, Rows DEF TypeInvariant
  <2>5. /\ pending' \in [Slots -> {None} \cup Request'] /\ pending'[s] = None
        /\ \A r \in Slots : r # s => pending'[r] = pending[r]
        /\ UNCHANGED <<job, seen, raced>> /\ RacesSeen' /\ raced' \subseteq DOMAIN candidates'
    BY <2>3, <2>4, EndsKeepsRaces
  <2>6. TypeInvariant'
    BY <2>3, <2>4, <2>5 DEF TypeInvariant
  <2>7. \A c \in DOMAIN candidates : Present(c) => candidates[c].email # email
    BY <1>2, <2>4 DEF Others
  <2>8. JobInv' /\ RowsInv'
    BY <2>2, <2>3, <2>4, <2>5, <2>7 DEF JobInv, RowsInv, Present, Active
  <2>9. OrphansOnlyFromRaces'
    BY <2>3, <2>4, <2>5, Rows DEF OrphansOnlyFromRaces, Present, Active
  <2>10. ASSUME NEW r \in Slots PROVE Relies(r)'
    <3>1. CASE r = s
      BY <2>5, <3>1 DEF Relies, Doing
    <3>2. CASE r # s
      <4>1. Doing(r, "edit") \/ Doing(r, "remove") \/ Doing(r, "apply") =>
              pending[r].candidate \in DOMAIN candidates
        BY RequestFields DEF Doing, TypeInvariant
      <4> QED BY <2>3, <2>4, <2>5, <3>2, <4>1 DEF Relies, Doing, Present, ApplicationsOf, Active
    <3> QED BY <3>1, <3>2
  <2> QED BY <2>5, <2>6, <2>8, <2>9, <2>10
<1> QED BY <1>1, <1>2

\* The row of a candidate is replaced: a request that was at odds with this one
\* need not find what it relied on.
LEMMA RowReplacedKeepsInv ==
  ASSUME Inv, NEW s \in Slots, NEW c \in DOMAIN candidates, NEW row \in Candidate,
         Ends(s), UNCHANGED applications, candidates' = [candidates EXCEPT ![c] = row],
         Concerns(s, c), pending[s].op \in {"edit", "remove"},
         row.deleted => pending[s].op = "remove" /\ (c \in raced \/ ApplicationsOf(c) = {}),
         ~row.deleted => Others(c, row.email) = {}
  PROVE  Inv'
<1> USE DEF Inv
<1>1. /\ candidates' \in Seq(Candidate) /\ DOMAIN candidates' = DOMAIN candidates
      /\ candidates'[c] = row
      /\ \A d \in DOMAIN candidates : d # c => candidates'[d] = candidates[d]
  BY DEF TypeInvariant
<1>2. /\ pending' \in [Slots -> {None} \cup Request'] /\ pending'[s] = None
      /\ \A r \in Slots : r # s => pending'[r] = pending[r]
      /\ UNCHANGED <<job, seen, raced>> /\ RacesSeen'
  BY <1>1, Rows, EndsKeepsRaces
<1>3. TypeInvariant'
  BY <1>1, <1>2 DEF TypeInvariant
<1>4. \A d \in DOMAIN candidates : d # c /\ ~row.deleted /\ Present(d) => candidates[d].email # row.email
  BY DEF Others
<1>5. JobInv' /\ RowsInv'
  BY <1>1, <1>2, <1>4 DEF JobInv, RowsInv, Present, Active
<1>6. OrphansOnlyFromRaces'
  BY <1>1, <1>2, Rows DEF OrphansOnlyFromRaces, Present, Active, ApplicationsOf
<1>7. ASSUME NEW r \in Slots PROVE Relies(r)'
  <2>1. CASE r = s
    BY <1>2, <2>1 DEF Relies, Doing
  <2>2. CASE r # s
    <3>1. pending'[r] = pending[r]
      BY <1>2, <2>2
    <3>2. Concerns(r, c) /\ {pending[s].op, pending[r].op} \in AtOdds => c \in raced
      BY <2>2 DEF RacesSeen
    <3>4. Concerns(r, c) /\ pending[r].op = "edit" => c \in raced
      BY <3>2 DEF AtOdds
    <3>5. Concerns(r, c) /\ pending[r].op = "apply" /\ pending[s].op = "remove" => c \in raced
      BY <3>2 DEF AtOdds
    <3>6. Doing(r, "edit") \/ Doing(r, "remove") \/ Doing(r, "apply") =>
            pending[r].candidate \in DOMAIN candidates /\ Concerns(r, pending[r].candidate)
      BY RequestFields DEF Doing, TypeInvariant, Concerns
    <3>7. Doing(r, "edit")' => Relies(r)'
      BY <1>1, <1>2, <3>1, <3>4, <3>6 DEF Relies, Doing, Present
    <3>8. Doing(r, "remove")' => Relies(r)'
      BY <1>1, <1>2, <3>1, <3>6 DEF Relies, Doing, ApplicationsOf, Active
    <3>9. Doing(r, "apply")' => Relies(r)'
      BY <1>1, <1>2, <3>1, <3>5, <3>6 DEF Relies, Doing, Present
    <3> QED BY <3>7, <3>8, <3>9 DEF Relies
  <2> QED BY <2>1, <2>2
<1> QED BY <1>2, <1>3, <1>5, <1>6, <1>7

LEMMA EndEditKeepsInv ==
  ASSUME Inv, NEW s \in Slots, EndEdit(s)
  PROVE  Inv'
<1> USE DEF Inv
<1> DEFINE c == pending[s].candidate
           row == pending[s].row
<1>1. Doing(s, "edit") /\ Ends(s) /\ UNCHANGED applications
  BY DEF EndEdit
<1>2. c \in DOMAIN candidates /\ row \in Candidate /\ Concerns(s, c) /\ pending[s].op = "edit"
  BY <1>1, RequestFields DEF Doing, TypeInvariant, Concerns
<1>3. ~row.deleted
  BY <1>1 DEF Relies
<1>4. CASE Others(c, row.email) # {}
  BY <1>1, <1>4, EndsKeepsInv DEF EndEdit
<1>5. CASE Others(c, row.email) = {}
  <2>1. candidates' = [candidates EXCEPT ![c] = row]
    BY <1>5 DEF EndEdit
  <2> HIDE DEF c, row
  <2> QED BY <1>1, <1>2, <1>3, <1>5, <2>1, RowReplacedKeepsInv
<1> QED BY <1>4, <1>5

LEMMA EndRemoveKeepsInv ==
  ASSUME Inv, NEW s \in Slots, EndRemove(s)
  PROVE  Inv'
<1> USE DEF Inv
<1> DEFINE c == pending[s].candidate
           row == [candidates[c] EXCEPT !.deleted = TRUE]
<1>1. Doing(s, "remove") /\ Ends(s) /\ UNCHANGED applications
  BY DEF EndRemove
<1>2. c \in DOMAIN candidates /\ Concerns(s, c) /\ pending[s].op = "remove"
  BY <1>1, RequestFields DEF Doing, TypeInvariant, Concerns
<1>3. row \in Candidate /\ row.deleted
  BY <1>2, Rows DEF Candidate
<1>4. c \in raced \/ ApplicationsOf(c) = {}
  BY <1>1 DEF Relies
<1>5. candidates' = [candidates EXCEPT ![c] = row]
  BY <1>2, Rows DEF EndRemove
<1> HIDE DEF c, row
<1> QED BY <1>1, <1>2, <1>3, <1>4, <1>5, RowReplacedKeepsInv

\* An application is added where there was none, of a candidate that is there or raced.
LEMMA EndApplyKeepsInv ==
  ASSUME Inv, NEW s \in Slots, EndApply(s)
  PROVE  Inv'
<1> USE DEF Inv
<1> DEFINE c == pending[s].candidate
           new == [candidate |-> c, invited |-> "nobody", deleted |-> FALSE]
           n == Len(applications) + 1
<1>1. Doing(s, "apply") /\ Ends(s) /\ UNCHANGED candidates
  BY DEF EndApply
<1>2. c \in DOMAIN candidates /\ Concerns(s, c) /\ pending[s].op = "apply"
  BY <1>1, RequestFields DEF Doing, TypeInvariant, Concerns
<1>3. CASE ApplicationsOf(c) # {}
  BY <1>1, <1>3, EndsKeepsInv DEF EndApply
<1>4. CASE ApplicationsOf(c) = {}
  <2>1. c \in raced \/ Present(c)
    BY <1>1 DEF Relies
  <2>2. applications' = Append(applications, new)
    BY <1>4 DEF EndApply
  <2>3. new \in Application /\ new.candidate = c /\ ~new.deleted
    BY <1>2, Rows DEF Application
  <2> HIDE DEF c, new
  <2>4. /\ applications' \in Seq(Application) /\ DOMAIN applications' = 1 .. n
        /\ DOMAIN applications = 1 .. Len(applications) /\ Len(applications) \in Nat
        /\ applications'[n] = new
        /\ \A a \in DOMAIN applications : applications'[a] = applications[a]
    BY <2>2, <2>3, Rows DEF TypeInvariant
  <2>5. DOMAIN candidates' = 1 .. Len(candidates) /\ DOMAIN applications \subseteq DOMAIN applications'
    BY <1>1, <2>4, Rows
  <2>6. /\ pending' \in [Slots -> {None} \cup Request'] /\ pending'[s] = None
        /\ \A r \in Slots : r # s => pending'[r] = pending[r]
        /\ UNCHANGED <<job, seen, raced>> /\ RacesSeen'
    BY <1>1, <2>5, EndsKeepsRaces
  <2>7. \A a \in DOMAIN applications' : applications'[a].candidate \in DOMAIN candidates'
    BY <1>1, <1>2, <2>3, <2>4, Rows
  <2>8. TypeInvariant'
    BY <1>1, <2>4, <2>6, <2>7 DEF TypeInvariant
  <2>9. \A a \in DOMAIN applications : Active(a) => applications[a].candidate # c
    BY <1>4 DEF ApplicationsOf
  <2>10. JobInv' /\ RowsInv'
    BY <1>1, <2>3, <2>4, <2>6, <2>9 DEF JobInv, RowsInv, Present, Active
  <2>11. OrphansOnlyFromRaces'
    BY <1>1, <2>1, <2>3, <2>4, <2>6 DEF OrphansOnlyFromRaces, Present, Active
  <2>12. ASSUME NEW r \in Slots PROVE Relies(r)'
    <3>1. CASE r = s
      BY <2>6, <3>1 DEF Relies, Doing
    <3>2. CASE r # s
      <4>1. pending'[r] = pending[r]
        BY <2>6, <3>2
      <4>2. Concerns(r, c) /\ pending[r].op = "remove" => c \in raced
        BY <1>2, <3>2 DEF RacesSeen, AtOdds
      <4>3. Doing(r, "remove") =>
              \/ pending[r].candidate \in raced
              \/ pending[r].candidate # c /\ ApplicationsOf(pending[r].candidate) = {}
        BY <4>2 DEF Relies, Concerns, Doing
      <4>4. Doing(r, "remove")' => Relies(r)'
        BY <2>3, <2>4, <2>6, <4>1, <4>3 DEF Relies, Doing, ApplicationsOf, Active
      <4> QED BY <1>1, <2>6, <4>1, <4>4 DEF Relies, Doing, Present
    <3> QED BY <3>1, <3>2
  <2> QED BY <2>6, <2>8, <2>10, <2>11, <2>12
<1> QED BY <1>3, <1>4

\* An interview is created for an application: neither its candidate nor its
\* presence change.
LEMMA EndInviteKeepsInv ==
  ASSUME Inv, NEW s \in Slots, EndInvite(s)
  PROVE  Inv'
<1> USE DEF Inv
<1> DEFINE a == pending[s].application
<1>1. /\ Doing(s, "invite") /\ Ends(s) /\ UNCHANGED candidates
      /\ applications' = [applications EXCEPT ![a].invited = pending[s].email]
  BY DEF EndInvite
<1>2. a \in DOMAIN applications /\ pending[s].email \in Emails
  BY <1>1, RequestFields DEF Doing, TypeInvariant
<1>3. [applications[a] EXCEPT !.invited = pending[s].email] \in Application
  BY <1>2, Rows DEF Application
<1>4. /\ applications' \in Seq(Application) /\ DOMAIN applications' = DOMAIN applications
      /\ \A b \in DOMAIN applications : /\ applications'[b].candidate = applications[b].candidate
                                        /\ applications'[b].deleted = applications[b].deleted
  <2> DEFINE row == [applications[a] EXCEPT !.invited = pending[s].email]
  <2>1. applications' = [applications EXCEPT ![a] = row] /\ applications \in Seq(Application)
    BY <1>1 DEF TypeInvariant
  <2>2. /\ row \in Application
        /\ row.candidate = applications[a].candidate /\ row.deleted = applications[a].deleted
    BY <1>2, <1>3, Rows DEF Application
  <2> HIDE DEF row, a
  <2> QED BY <1>2, <2>1, <2>2
<1>5. DOMAIN candidates' = 1 .. Len(candidates)
  BY <1>1, Rows
<1>6. /\ pending' \in [Slots -> {None} \cup Request'] /\ pending'[s] = None
      /\ \A r \in Slots : r # s => pending'[r] = pending[r]
      /\ UNCHANGED <<job, seen, raced>> /\ RacesSeen'
  BY <1>1, <1>4, <1>5, EndsKeepsRaces
<1>7. TypeInvariant'
  BY <1>1, <1>4, <1>6 DEF TypeInvariant
<1>8. JobInv' /\ RowsInv' /\ OrphansOnlyFromRaces'
  BY <1>1, <1>4, <1>6 DEF JobInv, RowsInv, OrphansOnlyFromRaces, Present, Active
<1>9. ASSUME NEW r \in Slots PROVE Relies(r)'
  <2>1. CASE r = s
    BY <1>6, <2>1 DEF Relies, Doing
  <2>2. CASE r # s
    BY <1>1, <1>4, <1>6, <2>2 DEF Relies, Doing, Present, ApplicationsOf, Active
  <2> QED BY <2>1, <2>2
<1> QED BY <1>6, <1>7, <1>8, <1>9

LEMMA RemoveApplicationKeepsInv ==
  ASSUME Inv, NEW a \in DOMAIN applications, RemoveApplication(a)
  PROVE  Inv'
<1> USE DEF Inv
<1>1. /\ applications' = [applications EXCEPT ![a].deleted = TRUE]
      /\ UNCHANGED <<job, seen, candidates, pending, raced>>
  BY DEF RemoveApplication
<1>2. [applications[a] EXCEPT !.deleted = TRUE] \in Application
  BY Rows DEF Application
<1>3. /\ applications' \in Seq(Application) /\ DOMAIN applications' = DOMAIN applications
      /\ \A b \in DOMAIN applications : /\ applications'[b].candidate = applications[b].candidate
                                        /\ ~applications'[b].deleted => ~applications[b].deleted
  BY <1>1, <1>2, Rows DEF TypeInvariant, Application
<1>4. Request' = Request
  BY <1>1, <1>3 DEF Request, Candidate
<1>5. TypeInvariant'
  BY <1>1, <1>3, <1>4 DEF TypeInvariant
<1>6. JobInv' /\ RowsInv' /\ OrphansOnlyFromRaces'
  BY <1>1, <1>3 DEF JobInv, RowsInv, OrphansOnlyFromRaces, Present, Active
<1>7. RacesSeen'
  BY <1>1 DEF RacesSeen, Concerns, Doing
<1>8. \A r \in Slots : Relies(r)'
  BY <1>1, <1>3 DEF Relies, Doing, Present, ApplicationsOf, Active
<1> QED BY <1>5, <1>6, <1>7, <1>8

-----------------------------------------------------------------------------
(* The theorems.                                                           *)

LEMMA InitInv == Init => Inv
<1> SUFFICES ASSUME Init PROVE Inv
  OBVIOUS
<1>1. TypeInvariant
  BY DEF Init, TypeInvariant
<1>2. DOMAIN candidates = {} /\ DOMAIN applications = {} /\ \A s \in Slots : pending[s] = None
  BY DEF Init
<1>3. JobInv /\ RowsInv /\ OrphansOnlyFromRaces /\ RacesSeen
  BY <1>2 DEF Init, JobInv, RowsInv, OrphansOnlyFromRaces, RacesSeen
<1>4. \A s \in Slots : Relies(s)
  BY <1>2 DEF Relies, Doing
<1> QED BY <1>1, <1>3, <1>4 DEF Inv

LEMMA CandidateStepKeepsInv ==
  ASSUME Inv, NEW s \in Slots, CandidateStep(s)
  PROVE  Inv'
<1>1. ASSUME NEW email \in Emails, BeginCreate(s, email) PROVE Inv'
  <2> DEFINE q == [op |-> "create", email |-> email]
  <2>1. q \in Request /\ q.op = "create" /\ Begins(s, q) /\ UNCHANGED raced
    BY <1>1 DEF Request, BeginCreate
  <2> HIDE DEF q
  <2> QED BY <2>1, BeginsKeepsInv
<1>2. ASSUME NEW c \in DOMAIN candidates, BeginRemove(s, c) PROVE Inv'
  <2> DEFINE q == [op |-> "remove", candidate |-> c]
  <2>1. /\ q \in Request /\ q.op = "remove" /\ BeginsAbout(s, q)
        /\ ApplicationsOf(q.candidate) = {}
    BY <1>2 DEF Request, BeginRemove
  <2> HIDE DEF q
  <2> QED BY <2>1, BeginsAboutKeepsInv
<1>3. ASSUME NEW c \in DOMAIN candidates, NEW email \in Emails, BeginEdit(s, c, email)
      PROVE  Inv'
  <2> DEFINE row == [email |-> email, edits |-> candidates[c].edits + 1, deleted |-> FALSE]
             q == [op |-> "edit", candidate |-> c, row |-> row]
  <2>1. candidates[c].edits \in Nat
    BY Rows DEF Inv
  <2>2. /\ row \in Candidate /\ ~row.deleted /\ row.edits = candidates[c].edits + 1
    BY <2>1 DEF Candidate
  <2>3. BeginsAbout(s, q) /\ Present(c)
    BY <1>3 DEF BeginEdit
  <2> HIDE DEF row
  <2>4. /\ q \in Request /\ q.op = "edit" /\ q.candidate = c /\ q.row = row
    BY <2>2 DEF Request
  <2> HIDE DEF q
  <2> QED BY <2>2, <2>3, <2>4, BeginsAboutKeepsInv
<1> QED BY <1>1, <1>2, <1>3, EndCreateKeepsInv, EndEditKeepsInv, EndRemoveKeepsInv
    DEF CandidateStep

LEMMA ApplicationStepKeepsInv ==
  ASSUME Inv, NEW s \in Slots, ApplicationStep(s)
  PROVE  Inv'
<1>1. ASSUME NEW c \in DOMAIN candidates, BeginApply(s, c) PROVE Inv'
  <2> DEFINE q == [op |-> "apply", candidate |-> c]
  <2>1. q \in Request /\ q.op = "apply" /\ BeginsAbout(s, q) /\ Present(q.candidate)
    BY <1>1 DEF Request, BeginApply
  <2> HIDE DEF q
  <2> QED BY <2>1, BeginsAboutKeepsInv
<1>2. ASSUME NEW a \in DOMAIN applications, BeginInvite(s, a) PROVE Inv'
  <2> DEFINE email == candidates[applications[a].candidate].email
             q == [op |-> "invite", application |-> a, email |-> email]
  <2>1. email \in Emails
    BY Rows DEF Inv
  <2>2. q \in Request /\ q.op = "invite" /\ Begins(s, q) /\ UNCHANGED raced
    BY <1>2, <2>1 DEF Request, BeginInvite
  <2> HIDE DEF q
  <2> QED BY <2>2, BeginsKeepsInv
<1> QED BY <1>1, <1>2, EndApplyKeepsInv, EndInviteKeepsInv DEF ApplicationStep

LEMMA NextKeepsInv == Inv /\ [Next]_vars => Inv'
<1> SUFFICES ASSUME Inv, [Next]_vars PROVE Inv'
  OBVIOUS
<1>1. ASSUME NEW s \in Slots, Abandon(s) PROVE Inv'
  BY <1>1, EndsKeepsInv DEF Abandon
<1>2. CASE UNCHANGED vars
  <2>1. UNCHANGED <<candidates, applications, pending, raced, job, seen>>
    BY <1>2 DEF vars
  <2> QED BY <2>1, JobStepKeepsInv DEF Inv, TypeInvariant, JobInv, Job
<1> QED BY <1>1, <1>2, JobStepsKeepInv, CandidateStepKeepsInv, ApplicationStepKeepsInv,
           RemoveApplicationKeepsInv DEF Next

\* The inductive invariant.
THEOREM InvariantHolds == Spec => []Inv
BY InitInv, NextKeepsInv, PTL DEF Spec

\* Unique addresses and applications, no orphans but of races, and a version that
\* names one job.
THEOREM IntakeAlwaysConsistent == Spec => []IntakeConsistent
<1>1. ASSUME Inv PROVE IntakeConsistent
  <2>1. \A c \in DOMAIN candidates : Present(c) => Others(c, candidates[c].email) = {}
    BY <1>1 DEF Inv, RowsInv, Others
  <2>2. ASSUME NEW c \in DOMAIN candidates PROVE Cardinality(ApplicationsOf(c)) <= 1
    <3>1. \A a, b \in ApplicationsOf(c) : a = b
      BY <1>1 DEF Inv, RowsInv, ApplicationsOf
    <3>2. CASE ApplicationsOf(c) = {}
      BY <3>2, FS_EmptySet
    <3>3. ASSUME NEW a \in ApplicationsOf(c) PROVE Cardinality(ApplicationsOf(c)) <= 1
      <4>1. ApplicationsOf(c) = {a}
        BY <3>1, <3>3
      <4>2. Cardinality(ApplicationsOf(c)) = 1
        BY <4>1, FS_Singleton
      <4> QED BY <4>2
    <3> QED BY <3>2, <3>3
  <2>3. JobVersionMatches => seen = job
    BY <1>1 DEF Inv, JobInv, JobVersionMatches
  <2> QED BY <1>1, <2>1, <2>2, <2>3 DEF Inv, IntakeConsistent
<1> QED BY <1>1, InvariantHolds, PTL

\* Jobs go forward only, and an edit builds on the row it replaces, but for races.
THEOREM NothingIsEverUndone == Spec => NothingIsUndone
<1> DEFINE Forward == job # None =>
             /\ job'.version >= job.version
             /\ job.status # "draft" => job'.status # "draft"
             /\ job.status = "closed" => job'.status = "closed"
             /\ job.deleted => job' = job
           Builds(c) == LET old == candidates[c] new == candidates'[c] IN
             old # new =>
               /\ ~old.deleted
               /\ new.edits = old.edits + 1 \/ new = [old EXCEPT !.deleted = TRUE]
<1>1. ASSUME Inv, [Next]_vars PROVE Forward
  <2> SUFFICES ASSUME job # None PROVE Forward
    OBVIOUS
  <2>1. job \in Job
    BY <1>1 DEF Inv, TypeInvariant
  <2>2. CASE job' = job
    BY <2>1, <2>2, JobFields
  <2>3. ASSUME NEW to \in {"draft", "open"}, UpdateJob(to) PROVE Forward
    BY <2>1, <2>3, JobFields DEF UpdateJob, JobVersionMatches, Job
  <2>4. CASE CloseJob
    BY <2>1, <2>4, JobFields DEF CloseJob, JobVersionMatches, Job
  <2>5. CASE DeleteJob
    BY <2>1, <2>5, JobFields DEF DeleteJob, Job
  <2>6. job' = job \/ CloseJob \/ DeleteJob \/ \E to \in {"draft", "open"} : UpdateJob(to)
    BY <1>1 DEF Next, vars, JobStep, HrReadsJob, CreateJob, CandidateStep, ApplicationStep,
       BeginCreate, BeginEdit, BeginRemove, BeginApply, BeginInvite, BeginsAbout, Begins,
       EndCreate, EndEdit, EndRemove, EndApply, EndInvite, Ends, RemoveApplication, Abandon
  <2> QED BY <2>2, <2>3, <2>4, <2>5, <2>6
<1>2. ASSUME Inv, [Next]_vars, NEW c \in DOMAIN candidates \ raced PROVE Builds(c)
  <2>1. candidates[c] \in Candidate
    BY <1>2, Rows DEF Inv
  <2>2. ASSUME NEW s \in Slots, EndCreate(s) PROVE candidates'[c] = candidates[c]
    BY <1>2, <2>2, Rows DEF EndCreate, Inv, TypeInvariant
  <2>3. ASSUME NEW s \in Slots, EndEdit(s) PROVE Builds(c)
    <3>1. Relies(s) /\ Doing(s, "edit") /\ c \notin raced
      BY <1>2, <2>3 DEF Inv, EndEdit
    <3>2. CASE candidates' = candidates
      BY <3>2
    <3>3. CASE candidates' = [candidates EXCEPT ![pending[s].candidate] = pending[s].row]
      BY <1>2, <3>1, <3>3, Rows DEF Relies, Present, Inv
    <3> QED BY <2>3, <3>2, <3>3 DEF EndEdit
  <2>4. ASSUME NEW s \in Slots, EndRemove(s) PROVE Builds(c)
    <3>1. candidates' = [candidates EXCEPT ![pending[s].candidate].deleted = TRUE]
      BY <2>4 DEF EndRemove
    <3>2. candidates'[c] = candidates[c] \/ candidates'[c] = [candidates[c] EXCEPT !.deleted = TRUE]
      BY <1>2, <3>1
    <3>3. candidates[c].deleted => candidates[c] = [candidates[c] EXCEPT !.deleted = TRUE]
      BY <2>1 DEF Candidate
    <3> QED BY <3>2, <3>3
  <2>5. \/ candidates' = candidates
        \/ \E s \in Slots : EndCreate(s) \/ EndEdit(s) \/ EndRemove(s)
    BY <1>2 DEF Next, vars, JobStep, HrReadsJob, CreateJob, UpdateJob, CloseJob, DeleteJob,
       CandidateStep, ApplicationStep, BeginCreate, BeginEdit, BeginRemove, BeginApply,
       BeginInvite, BeginsAbout, Begins, EndApply, EndInvite, RemoveApplication, Abandon
  <2> QED BY <2>2, <2>3, <2>4, <2>5
<1>3. Inv /\ [Next]_vars => Forward /\ \A c \in DOMAIN candidates \ raced : Builds(c)
  BY <1>1, <1>2
<1> QED BY <1>3, InvariantHolds, PTL DEF Spec, NothingIsUndone

-----------------------------------------------------------------------------
(* CvUpload.                                                               *)


-----------------------------------------------------------------------------
(* The inductive invariant.                                                *)

\* The rows of requests, as KeysTyped has them.
Req ==
  [key : Keys, payload : Payloads, at : 0 .. now, stale : Nat,
   phase : Phase, answer : Answer, response : {0} \cup DOMAIN effects]
KeyRow == Row(DOMAIN requests, {0} \cup DOMAIN effects)

Expired(r) == now >= requests[r].at + Ttl
HasEffect(r) == \E c \in DOMAIN effects : effects[c] = r

\* The row of a key is that of the request which made it.
KeyRowsInv ==
  \A k \in Keys : keys[k] # NoRow =>
    LET id == keys[k].id IN
    /\ requests[id].key = k
    /\ keys[k].requestHash = requests[id].payload.top
    /\ keys[k].expiresAt = requests[id].at + Ttl
    /\ keys[k].state = "completed" => keys[k].response # 0 /\ effects[keys[k].response] = id

\* What a request has done, and that it owns the row of its key from its insert
\* on until it fails, unless the row has expired.
RequestInv(r) ==
  LET req == requests[r] IN
  /\ req.stale # 0 => req.stale \in DOMAIN requests /\ Expired(req.stale)
  /\ req.phase # "ended" => req.answer = "none"
  /\ req.phase \in {"acting", "acted"} \/ req.answer \in {"created", "died"} =>
       Owns(r) \/ Expired(r)
  /\ req.phase = "acted" \/ req.answer = "created" =>
       req.response # 0 /\ effects[req.response] = r
  /\ HasEffect(r) => req.phase = "acted" \/ req.answer \in {"created", "error", "died"}

KeysInv ==
  /\ KeysTyped /\ KeyRowsInv /\ AnswersAreTrue
  /\ \A r \in DOMAIN requests : RequestInv(r)

\* Where the file of a request is.
FileInv(r) ==
  LET req == requests[r] IN
  /\ req.phase \in {"expired", "insert"} => upload[r] = "none" /\ r \notin files
  /\ req.phase = "acting" => \/ upload[r] = "none" /\ r \notin files
                             \/ upload[r] = "stored" /\ r \in files
  /\ req.phase = "acted" \/ req.answer = "created" => r \in files
  /\ r \in files /\ ~HasEffect(r) => req.answer \in {"none", "died"} \/ upload[r] = "orphaned"
  /\ HasEffect(r) => r \in files \/ upload[r] = "in_doubt"

FilesInv ==
  /\ status \in ApplicationStatus
  /\ files \subseteq DOMAIN requests
  /\ upload \in [1 .. MaxRequests -> Step]
  /\ \A r \in 1 .. MaxRequests : r \notin DOMAIN requests => upload[r] = "none"
  /\ \A r \in DOMAIN requests : FileInv(r)

UploadInv == KeysInv /\ FilesInv /\ Len(requests) <= MaxRequests

-----------------------------------------------------------------------------
(* The types, spelled out.                                                 *)

\* What a request and what the row of a key consist of.
LEMMA ReqFields ==
  ASSUME NEW req \in Req
  PROVE  /\ req.key \in Keys /\ req.payload \in Payloads /\ req.at \in 0 .. now
         /\ req.stale \in Nat /\ req.phase \in Phase /\ req.answer \in Answer
         /\ req.response \in {0} \cup DOMAIN effects
BY DEF Req

LEMMA KeyRowFields ==
  ASSUME NEW row \in KeyRow
  PROVE  /\ row # NoRow /\ row.id \in DOMAIN requests
         /\ row.state \in {"processing", "completed"} /\ row.response \in {0} \cup DOMAIN effects
BY DEF KeyRow, Row, NoRow

LEMMA Types ==
  ASSUME KeysTyped
  PROVE  /\ now \in Nat /\ now <= MaxTime /\ MaxTime \in Nat /\ Ttl \in Nat /\ Ttl > 0
         /\ MaxRequests \in Nat
         /\ requests \in Seq(Req) /\ DOMAIN requests = 1 .. Len(requests) /\ Len(requests) \in Nat
         /\ \A r \in DOMAIN requests : requests[r] \in Req /\ requests[r].at \in Nat
         /\ effects \in Seq(DOMAIN requests) /\ DOMAIN effects = 1 .. Len(effects)
         /\ Len(effects) \in Nat
         /\ \A c \in DOMAIN effects : effects[c] \in DOMAIN requests
         /\ keys \in [Keys -> {NoRow} \cup KeyRow]
<1>1. requests \in Seq(Req) /\ effects \in Seq(DOMAIN requests)
  BY DEF KeysTyped, Req
<1>2. \A r \in DOMAIN requests : requests[r] \in Req
  BY <1>1
<1>3. \A c \in DOMAIN effects : effects[c] \in DOMAIN requests
  BY <1>1
<1>4. now \in Nat /\ now <= MaxTime /\ MaxTime \in Nat /\ Ttl \in Nat /\ Ttl > 0 /\ MaxRequests \in Nat
  BY KeysAssumption DEF KeysTyped
<1>5. \A req \in Req : req.at \in Nat
  BY <1>4 DEF Req
<1>6. keys \in [Keys -> {NoRow} \cup KeyRow]
  BY DEF KeysTyped, KeyRow
<1> QED BY <1>1, <1>2, <1>3, <1>4, <1>5, <1>6

\* A row stays one when requests and effects are added, a request when time goes
\* on and effects are added.
LEMMA TypesGrow ==
  ASSUME KeysTyped, now' \in Nat, now <= now', DOMAIN requests \subseteq DOMAIN requests',
         DOMAIN effects \subseteq DOMAIN effects'
  PROVE  Req \subseteq Req' /\ KeyRow \subseteq KeyRow'
<1>1. 0 .. now \subseteq 0 .. now'
  BY Types
<1>2. Req \subseteq Req'
  BY <1>1 DEF Req
<1>3. KeyRow \subseteq KeyRow'
  BY DEF KeyRow, Row
<1> QED BY <1>2, <1>3

\* The effect a request adds is the last.
LEMMA EffectsGrow ==
  ASSUME KeysTyped, NEW r \in DOMAIN requests,
         effects' = effects \/ effects' = Append(effects, r),
         DOMAIN requests \subseteq DOMAIN requests'
  PROVE  /\ effects' \in Seq(DOMAIN requests') /\ DOMAIN effects \subseteq DOMAIN effects'
         /\ \A c \in DOMAIN effects : effects'[c] = effects[c]
         /\ \A c \in DOMAIN effects' : c \in DOMAIN effects \/ effects'[c] = r
         /\ \A s : s # r => (HasEffect(s)' <=> HasEffect(s))
         /\ HasEffect(r) => HasEffect(r)'
<1> DEFINE S == DOMAIN requests
<1>1. effects \in Seq(S) /\ r \in S /\ S \subseteq DOMAIN requests'
  BY Types
<1> HIDE DEF S
<1>2. effects' \in Seq(S)
  BY <1>1
<1>3. effects' \in Seq(DOMAIN requests')
  BY <1>1, <1>2
<1>4. /\ DOMAIN effects \subseteq DOMAIN effects'
      /\ \A c \in DOMAIN effects : effects'[c] = effects[c]
      /\ \A c \in DOMAIN effects' : c \in DOMAIN effects \/ effects'[c] = r
  BY <1>1
<1>5. \A s : s # r => (HasEffect(s)' <=> HasEffect(s))
  BY <1>4 DEF HasEffect
<1> QED BY <1>3, <1>4, <1>5 DEF HasEffect

-----------------------------------------------------------------------------
(* The keys.                                                               *)

\* Every row stays, goes, or is that of q, which is what request r becomes.
RowsMove(r, q) ==
  \A k \in Keys : \/ keys'[k] \in {keys[k], NoRow}
                  \/ /\ k = q.key /\ keys'[k].id = r
                     /\ keys'[k].requestHash = q.payload.top
                     /\ keys'[k].expiresAt = q.at + Ttl
                     /\ keys'[k].state = "completed" =>
                          keys'[k].response # 0 /\ effects'[keys'[k].response] = r

\* A request goes on and perhaps has its effect; the row of its key becomes its
\* own or goes, and the owner of a row loses it only once it has expired.
LEMMA RequestMovesKeepsKeys ==
  ASSUME KeysInv, NEW r \in DOMAIN requests, NEW q \in Req', UNCHANGED now,
         requests' = [requests EXCEPT ![r] = q],
         effects' = effects \/ effects' = Append(effects, r),
         q.key = requests[r].key, q.payload = requests[r].payload, q.at = requests[r].at,
         q.stale \in {requests[r].stale, 0},
         q.phase # "ended" => q.answer = "none",
         q.answer \notin {"replayed", "key_reused"},
         keys' \in [Keys -> {NoRow} \cup KeyRow'],
         RowsMove(r, q),
         \A s \in DOMAIN requests \ {r} : Owns(s) => Owns(s)' \/ Expired(s),
         q.phase \in {"acting", "acted"} \/ q.answer \in {"created", "died"} =>
           (keys'[q.key] # NoRow /\ keys'[q.key].id = r) \/ Expired(r),
         q.phase = "acted" \/ q.answer = "created" =>
           q.response # 0 /\ effects'[q.response] = r,
         HasEffect(r)' => q.phase = "acted" \/ q.answer \in {"created", "error", "died"}
  PROVE  KeysInv' /\ DOMAIN requests' = DOMAIN requests /\ requests'[r] = q
         /\ \A s \in DOMAIN requests : s # r => requests'[s] = requests[s]
<1> USE DEF KeysInv
<1>1. /\ DOMAIN requests' = DOMAIN requests /\ requests'[r] = q
      /\ \A s \in DOMAIN requests : s # r => requests'[s] = requests[s]
  BY Types
<1>2. /\ effects' \in Seq(DOMAIN requests') /\ DOMAIN effects \subseteq DOMAIN effects'
      /\ \A c \in DOMAIN effects : effects'[c] = effects[c]
      /\ \A s : s # r => (HasEffect(s)' <=> HasEffect(s))
  BY <1>1, EffectsGrow
<1>3. Req \subseteq Req'
  BY <1>1, <1>2, Types, TypesGrow
<1>4. requests' \in Seq(Req')
  <2> DEFINE S == Req'
  <2>1. requests \in Seq(S) /\ q \in S
    BY <1>3, Types
  <2> HIDE DEF S
  <2>2. requests' \in Seq(S)
    BY <2>1
  <2> QED BY <2>2 DEF S
<1>5. KeysTyped'
  BY <1>1, <1>2, <1>4 DEF KeysTyped, Req, KeyRow
<1>6. \A s \in DOMAIN requests : /\ requests'[s].key = requests[s].key
                                 /\ requests'[s].payload = requests[s].payload
                                 /\ requests'[s].at = requests[s].at
                                 /\ Expired(s)' <=> Expired(s)
  BY <1>1 DEF Expired
<1>7. \A k \in Keys : keys[k] # NoRow => keys[k].id \in DOMAIN requests
                                       /\ keys[k].response \in {0} \cup DOMAIN effects
  BY Types, KeyRowFields
<1>8. KeyRowsInv'
  <2> SUFFICES ASSUME NEW k \in Keys, keys'[k] # NoRow
               PROVE  LET id == keys'[k].id IN
                      /\ requests'[id].key = k
                      /\ keys'[k].requestHash = requests'[id].payload.top
                      /\ keys'[k].expiresAt = requests'[id].at + Ttl
                      /\ keys'[k].state = "completed" =>
                           keys'[k].response # 0 /\ effects'[keys'[k].response] = id
    BY DEF KeyRowsInv
  <2>1. CASE keys'[k] = keys[k]
    BY <1>2, <1>6, <1>7, <2>1 DEF KeyRowsInv
  <2>2. CASE k = q.key /\ keys'[k].id = r /\ keys'[k] # keys[k]
    BY <1>1, <2>2 DEF RowsMove
  <2> QED BY <2>1, <2>2 DEF RowsMove
<1>9. \A s \in DOMAIN requests : requests[s].response \in {0} \cup DOMAIN effects
  BY Types, ReqFields
<1>10. \A s \in DOMAIN requests' : RequestInv(s)'
  <2>1. RequestInv(r)'
    <3>1. RequestInv(r) /\ (q.stale # 0 => q.stale \in DOMAIN requests' /\ Expired(q.stale)')
      BY <1>1, <1>6 DEF RequestInv
    <3> QED BY <1>1, <1>6, <3>1 DEF RequestInv, Owns, RowOf
  <2>2. ASSUME NEW s \in DOMAIN requests, s # r PROVE RequestInv(s)'
    <3>1. RequestInv(s) /\ requests'[s] = requests[s] /\ (HasEffect(s)' <=> HasEffect(s))
      BY <1>1, <1>2, <2>2
    <3>2. Owns(s) => Owns(s)' \/ Expired(s)'
      BY <1>6, <2>2
    <3> QED BY <1>1, <1>2, <1>6, <1>9, <3>1, <3>2 DEF RequestInv
  <2> QED BY <1>1, <2>1, <2>2
<1>11. AnswersAreTrue'
  <2> SUFFICES ASSUME NEW s \in DOMAIN requests'
               PROVE  /\ requests'[s].answer = "created" =>
                           requests'[s].response # 0 /\ effects'[requests'[s].response] = s
                      /\ requests'[s].answer = "replayed" =>
                           /\ requests'[s].response # 0
                           /\ requests'[effects'[requests'[s].response]].key = requests'[s].key
                           /\ requests'[effects'[requests'[s].response]].payload.top =
                                requests'[s].payload.top
                      /\ requests'[s].answer = "key_reused" =>
                           \E p \in 1 .. s - 1 : requests'[p].key = requests'[s].key
                                                 /\ requests'[p].payload # requests'[s].payload
    BY DEF AnswersAreTrue
  <2>1. requests'[s].answer = "created" =>
          requests'[s].response # 0 /\ effects'[requests'[s].response] = s
    BY <1>1, <1>10 DEF RequestInv
  <2>2. CASE s = r
    BY <1>1, <2>1, <2>2
  <2>3. CASE s # r
    <3>1. s \in DOMAIN requests /\ requests'[s] = requests[s]
      BY <1>1, <2>3
    <3>2. requests[s].answer = "replayed" =>
            /\ requests[s].response \in DOMAIN effects
            /\ effects[requests[s].response] \in DOMAIN requests
            /\ requests[effects[requests[s].response]].key = requests[s].key
            /\ requests[effects[requests[s].response]].payload.top = requests[s].payload.top
      BY <1>9, <3>1, Types DEF AnswersAreTrue
    <3>3. requests[s].answer = "key_reused" =>
            \E p \in 1 .. s - 1 : /\ p \in DOMAIN requests /\ requests[p].key = requests[s].key
                                  /\ requests[p].payload # requests[s].payload
      <4>1. \A p \in 1 .. s - 1 : p \in DOMAIN requests
        BY <3>1, Types
      <4>2. requests[s].answer = "key_reused" =>
              \E p \in 1 .. s - 1 : /\ requests[p].key = requests[s].key
                                    /\ requests[p].payload # requests[s].payload
        BY <3>1 DEF AnswersAreTrue
      <4> QED BY <4>1, <4>2
    <3>4. requests'[s].answer = "key_reused" =>
            \E p \in 1 .. s - 1 : requests'[p].key = requests'[s].key
                                  /\ requests'[p].payload # requests'[s].payload
      BY <1>6, <3>1, <3>3
    <3> QED BY <1>2, <1>6, <1>9, <2>1, <3>1, <3>2, <3>4
  <2> QED BY <2>2, <2>3
<1> QED BY <1>1, <1>5, <1>8, <1>10, <1>11

\* What a move leaves of the types.
LEMMA MoveTypes ==
  ASSUME KeysTyped, NEW r \in DOMAIN requests, NEW q, requests' = [requests EXCEPT ![r] = q],
         UNCHANGED now, effects' = effects \/ effects' = Append(effects, r)
  PROVE  /\ DOMAIN requests' = DOMAIN requests
         /\ Req \subseteq Req' /\ KeyRow \subseteq KeyRow'
         /\ DOMAIN effects \subseteq DOMAIN effects'
<1>1. DOMAIN requests' = DOMAIN requests
  OBVIOUS
<1>2. DOMAIN effects \subseteq DOMAIN effects'
  BY <1>1, EffectsGrow
<1> QED BY <1>1, <1>2, Types, TypesGrow

\* Deleting a row by its id takes it from its owner only.
LEMMA DeleteDeletes ==
  ASSUME KeysTyped, NEW k \in Keys, NEW id, Delete(k, id)
  PROVE  /\ keys' \in [Keys -> {NoRow} \cup KeyRow]
         /\ \A j \in Keys : keys'[j] \in {keys[j], NoRow}
         /\ \A j \in Keys : keys[j] # NoRow /\ keys[j].id # id => keys'[j] = keys[j]
BY Types DEF Delete

LEMMA DeleteExpiredKeepsKeys ==
  ASSUME KeysInv, NEW r \in DOMAIN requests, DeleteExpired(r)
  PROVE  /\ KeysInv' /\ DOMAIN requests' = DOMAIN requests
         /\ requests'[r].phase = "insert" /\ requests'[r].answer = requests[r].answer
         /\ \A s \in DOMAIN requests : s # r => requests'[s] = requests[s]
<1> USE DEF KeysInv
<1> DEFINE q == [requests[r] EXCEPT !.phase = "insert", !.stale = 0]
<1>1. /\ requests[r].phase = "expired" /\ Delete(requests[r].key, requests[r].stale)
      /\ UNCHANGED <<now, effects>>
  BY DEF DeleteExpired, At
<1>2. requests' = [requests EXCEPT ![r] = q]
  BY Zenon DEF DeleteExpired
<1>3. requests[r] \in Req /\ requests[r].key \in Keys /\ RequestInv(r)
  BY Types, ReqFields
<1>4. /\ q \in Req /\ q.key = requests[r].key /\ q.payload = requests[r].payload
      /\ q.at = requests[r].at /\ q.stale = 0 /\ q.phase = "insert"
      /\ q.answer = requests[r].answer /\ q.answer = "none"
  BY <1>1, <1>3 DEF Req, Phase, RequestInv
<1> HIDE DEF q
<1>5. q \in Req' /\ KeyRow \subseteq KeyRow'
  BY <1>1, <1>2, <1>4, MoveTypes
<1>6. /\ keys' \in [Keys -> {NoRow} \cup KeyRow] /\ \A k \in Keys : keys'[k] \in {keys[k], NoRow}
      /\ \A k \in Keys : keys[k] # NoRow /\ keys[k].id # requests[r].stale => keys'[k] = keys[k]
  BY <1>1, <1>3, DeleteDeletes
<1>7. keys' \in [Keys -> {NoRow} \cup KeyRow']
  BY <1>5, <1>6
<1>8. ASSUME NEW s \in DOMAIN requests \ {r}, Owns(s) PROVE Owns(s)' \/ Expired(s)
  <2>1. requests[s].key \in Keys /\ s # 0 /\ requests'[s] = requests[s]
    BY <1>2, <1>8, Types, ReqFields
  <2>2. CASE requests[r].stale = s
    BY <1>3, <2>1, <2>2 DEF RequestInv
  <2>3. CASE requests[r].stale # s
    BY <1>6, <1>8, <2>1, <2>3 DEF Owns, RowOf
  <2> QED BY <2>2, <2>3
<1>9. ~HasEffect(r)'
  BY <1>1, <1>3 DEF RequestInv, HasEffect
<1> QED BY <1>1, <1>2, <1>4, <1>5, <1>6, <1>7, <1>8, <1>9, RequestMovesKeepsKeys DEF RowsMove

LEMMA InsertKeepsKeys ==
  ASSUME KeysInv, NEW r \in DOMAIN requests, Insert(r)
  PROVE  /\ KeysInv' /\ DOMAIN requests' = DOMAIN requests
         /\ \/ requests'[r].phase = "acting" /\ requests'[r].answer = requests[r].answer
            \/ requests'[r].phase = "ended" /\ requests'[r].answer = "in_progress"
         /\ \A s \in DOMAIN requests : s # r => requests'[s] = requests[s]
<1> USE DEF KeysInv
<1> DEFINE k == requests[r].key
<1>1. requests[r].phase = "insert" /\ UNCHANGED <<now, effects>>
  BY DEF Insert, At
<1>2. requests[r] \in Req /\ k \in Keys /\ requests[r].payload \in Payloads
      /\ requests[r].at \in 0 .. now /\ RequestInv(r)
  BY Types, ReqFields
<1>3. ~HasEffect(r)'
  BY <1>1, <1>2 DEF RequestInv, HasEffect
<1>4. CASE RowOf(r) = NoRow
  <2> DEFINE row == [id |-> r, requestHash |-> ComputeHash(requests[r].payload), state |-> "processing",
                     response |-> 0, expiresAt |-> requests[r].at + Ttl]
             q == [requests[r] EXCEPT !.phase = "acting"]
  <2>1. keys' = [keys EXCEPT ![k] = row] /\ requests' = [requests EXCEPT ![r] = q]
    BY <1>4, Zenon DEF Insert, Goes
  <2>2. /\ q \in Req /\ q.key = k /\ q.payload = requests[r].payload
        /\ q.at = requests[r].at /\ q.stale = requests[r].stale /\ q.phase = "acting"
        /\ q.answer = requests[r].answer /\ q.answer = "none"
    BY <1>1, <1>2 DEF Req, Phase, RequestInv
  <2>3. requests[r].at + Ttl \in 0 .. MaxTime + Ttl
    BY <1>2, Types
  <2>4. /\ row \in KeyRow /\ row.id = r /\ row.requestHash = requests[r].payload.top
        /\ row.expiresAt = requests[r].at + Ttl /\ row.state = "processing"
    BY <1>2, <2>3 DEF KeyRow, Row, ComputeHash
  <2> HIDE DEF row, q
  <2>5. q \in Req' /\ row \in KeyRow' /\ KeyRow \subseteq KeyRow'
    BY <1>1, <2>1, <2>2, <2>4, MoveTypes
  <2>6. /\ keys' \in [Keys -> {NoRow} \cup KeyRow'] /\ keys'[k] = row
        /\ \A j \in Keys : j # k => keys'[j] = keys[j]
    BY <1>2, <2>1, <2>5, Types
  <2>7. \A s \in DOMAIN requests \ {r} : Owns(s) => Owns(s)' \/ Expired(s)
    <3>1. \A s \in DOMAIN requests \ {r} : requests'[s] = requests[s] /\ requests[s].key \in Keys
      BY <2>1, Types, ReqFields
    <3> QED BY <1>4, <2>6, <3>1 DEF Owns, RowOf
  <2>8. keys'[k] # NoRow /\ keys'[k].id = r
    BY <2>4, <2>6, KeyRowFields
  <2>9. RowsMove(r, q)
    BY <2>2, <2>4, <2>6 DEF RowsMove
  <2>10. /\ q.key = requests[r].key /\ keys'[q.key] # NoRow /\ keys'[q.key].id = r
         /\ ~(q.phase = "acted" \/ q.answer = "created") /\ q.stale \in {requests[r].stale, 0}
         /\ q.answer \notin {"replayed", "key_reused"}
    BY <2>2, <2>8
  <2>11. /\ requests'[r] = q /\ DOMAIN requests' = DOMAIN requests
         /\ \A s \in DOMAIN requests : s # r => requests'[s] = requests[s]
    BY <2>1
  <2>12. KeysInv'
    BY <1>1, <1>3, <2>1, <2>2, <2>5, <2>6, <2>7, <2>9, <2>10, RequestMovesKeepsKeys
  <2> QED BY <2>2, <2>11, <2>12
<1>5. CASE RowOf(r) # NoRow
  <2> DEFINE q == [requests[r] EXCEPT !.phase = "ended", !.answer = "in_progress"]
  <2>1. keys' = keys /\ requests' = [requests EXCEPT ![r] = q]
    BY <1>5, Zenon DEF Insert, RequestEnds
  <2>2. /\ q \in Req /\ q.key = k /\ q.payload = requests[r].payload
        /\ q.at = requests[r].at /\ q.stale = requests[r].stale /\ q.phase = "ended"
        /\ q.answer = "in_progress"
    BY <1>2 DEF Req, Phase, Answer
  <2> HIDE DEF q
  <2>3. q \in Req' /\ keys' \in [Keys -> {NoRow} \cup KeyRow']
    BY <1>1, <2>1, <2>2, MoveTypes, Types
  <2>4. \A s \in DOMAIN requests \ {r} : Owns(s) => Owns(s)'
    BY <2>1 DEF Owns, RowOf
  <2> QED BY <1>1, <1>3, <2>1, <2>2, <2>3, <2>4, RequestMovesKeepsKeys DEF RowsMove
<1> QED BY <1>4, <1>5

LEMMA CommitsKeepsKeys ==
  ASSUME KeysInv, NEW r \in DOMAIN requests, Commits(r)
  PROVE  /\ KeysInv' /\ DOMAIN requests' = DOMAIN requests
         /\ requests'[r].phase = "acted" /\ requests'[r].answer = requests[r].answer
         /\ \A s \in DOMAIN requests : s # r => requests'[s] = requests[s]
<1> USE DEF KeysInv
<1> DEFINE n == Len(effects) + 1
           q == [requests[r] EXCEPT !.phase = "acted", !.response = n]
<1>1. requests[r].phase = "acting" /\ effects' = Append(effects, r) /\ UNCHANGED <<now, keys>>
  BY DEF Commits, At
<1>2. requests' = [requests EXCEPT ![r] = q]
  BY Zenon DEF Commits
<1>3. requests[r] \in Req /\ requests[r].key \in Keys /\ RequestInv(r)
  BY Types, ReqFields
<1>4. n \in DOMAIN effects' /\ n # 0 /\ effects'[n] = r
  BY <1>1, Types
<1>5. requests[r] \in Req' /\ KeyRow \subseteq KeyRow'
  BY <1>1, <1>2, <1>3, MoveTypes
<1>6. /\ q \in Req' /\ q.key = requests[r].key /\ q.payload = requests[r].payload
      /\ q.at = requests[r].at /\ q.stale = requests[r].stale /\ q.phase = "acted"
      /\ q.answer = requests[r].answer /\ q.answer = "none" /\ q.response = n
  BY <1>1, <1>3, <1>4, <1>5 DEF Req, Phase, RequestInv
<1> HIDE DEF q
<1>7. keys' \in [Keys -> {NoRow} \cup KeyRow']
  BY <1>1, <1>5, Types
<1>8. \A s \in DOMAIN requests \ {r} : Owns(s) => Owns(s)'
  BY <1>1, <1>2 DEF Owns, RowOf
<1>9. (keys'[q.key] # NoRow /\ keys'[q.key].id = r) \/ Expired(r)
  BY <1>1, <1>3, <1>6 DEF RequestInv, Owns, RowOf
<1> QED BY <1>1, <1>2, <1>4, <1>6, <1>7, <1>8, <1>9, RequestMovesKeepsKeys DEF RowsMove

\* An error, with or without an effect.
LEMMA FailsKeepsKeys ==
  ASSUME KeysInv, NEW r \in DOMAIN requests, Fails(r),
         effects' = effects \/ effects' = Append(effects, r)
  PROVE  /\ KeysInv' /\ DOMAIN requests' = DOMAIN requests
         /\ requests'[r].phase = "ended" /\ requests'[r].answer = "error"
         /\ \A s \in DOMAIN requests : s # r => requests'[s] = requests[s]
<1> USE DEF KeysInv
<1> DEFINE q == [requests[r] EXCEPT !.phase = "ended", !.answer = "error"]
<1>1. Delete(requests[r].key, r) \/ keys' = keys
  BY DEF Fails
<1>2. requests' = [requests EXCEPT ![r] = q] /\ UNCHANGED now
  BY Zenon DEF Fails, RequestEnds
<1>3. requests[r] \in Req /\ requests[r].key \in Keys /\ RequestInv(r)
  BY Types, ReqFields
<1>4. /\ q \in Req /\ q.key = requests[r].key /\ q.payload = requests[r].payload
      /\ q.at = requests[r].at /\ q.stale = requests[r].stale /\ q.phase = "ended"
      /\ q.answer = "error"
  BY <1>3 DEF Req, Phase, Answer
<1> HIDE DEF q
<1>5. q \in Req' /\ KeyRow \subseteq KeyRow'
  BY <1>2, <1>4, MoveTypes
<1>6. /\ keys' \in [Keys -> {NoRow} \cup KeyRow] /\ \A k \in Keys : keys'[k] \in {keys[k], NoRow}
      /\ \A k \in Keys : keys[k] # NoRow /\ keys[k].id # r => keys'[k] = keys[k]
  BY <1>1, <1>3, DeleteDeletes, Types
<1>7. keys' \in [Keys -> {NoRow} \cup KeyRow']
  BY <1>5, <1>6
<1>8. \A s \in DOMAIN requests \ {r} : Owns(s) => Owns(s)'
  <2>1. \A s \in DOMAIN requests \ {r} : requests'[s] = requests[s] /\ requests[s].key \in Keys
    BY <1>2, Types, ReqFields
  <2> QED BY <1>6, <2>1 DEF Owns, RowOf
<1> QED BY <1>2, <1>4, <1>5, <1>6, <1>7, <1>8, RequestMovesKeepsKeys DEF RowsMove

LEMMA CompleteKeepsKeys ==
  ASSUME KeysInv, NEW r \in DOMAIN requests, Complete(r)
  PROVE  /\ KeysInv' /\ DOMAIN requests' = DOMAIN requests
         /\ requests'[r].phase = "ended" /\ requests'[r].answer = "created"
         /\ \A s \in DOMAIN requests : s # r => requests'[s] = requests[s]
<1> USE DEF KeysInv
<1> DEFINE k == requests[r].key
           row == [id |-> r, requestHash |-> ComputeHash(requests[r].payload), state |-> "completed",
                   response |-> requests[r].response, expiresAt |-> requests[r].at + Ttl]
           q == [requests[r] EXCEPT !.phase = "ended", !.answer = "created"]
<1>1. /\ requests[r].phase = "acted" /\ (RowOf(r) = NoRow \/ Owns(r))
      /\ keys' = [keys EXCEPT ![k] = row] /\ UNCHANGED <<now, effects>>
  BY DEF Complete, At
<1>2. requests' = [requests EXCEPT ![r] = q]
  BY Zenon DEF Complete, RequestEnds
<1>3. /\ requests[r] \in Req /\ k \in Keys /\ RequestInv(r) /\ requests[r].payload \in Payloads
      /\ requests[r].at \in 0 .. now /\ requests[r].response \in {0} \cup DOMAIN effects
  BY Types, ReqFields
<1>4. requests[r].response # 0 /\ effects[requests[r].response] = r
  BY <1>1, <1>3 DEF RequestInv
<1>5. /\ q \in Req /\ q.key = k /\ q.payload = requests[r].payload
      /\ q.at = requests[r].at /\ q.stale = requests[r].stale /\ q.phase = "ended"
      /\ q.answer = "created" /\ q.response = requests[r].response
  BY <1>3 DEF Req, Phase, Answer
<1>6. requests[r].at + Ttl \in 0 .. MaxTime + Ttl
  BY <1>3, Types
<1>7. /\ row \in KeyRow /\ row.id = r /\ row.requestHash = requests[r].payload.top
      /\ row.expiresAt = requests[r].at + Ttl /\ row.response = requests[r].response
  BY <1>3, <1>6 DEF KeyRow, Row, ComputeHash
<1> HIDE DEF row, q
<1>8. q \in Req' /\ row \in KeyRow' /\ KeyRow \subseteq KeyRow'
  BY <1>1, <1>2, <1>5, <1>7, MoveTypes
<1>9. /\ keys' \in [Keys -> {NoRow} \cup KeyRow'] /\ keys'[k] = row
      /\ \A j \in Keys : j # k => keys'[j] = keys[j]
  BY <1>1, <1>3, <1>8, Types
<1>10. \A s \in DOMAIN requests \ {r} : Owns(s) => Owns(s)' \/ Expired(s)
  <2>1. \A s \in DOMAIN requests \ {r} : requests'[s] = requests[s] /\ requests[s].key \in Keys
    BY <1>2, Types, ReqFields
  <2> QED BY <1>1, <1>9, <2>1 DEF Owns, RowOf
<1>11. keys'[k] # NoRow /\ keys'[k].id = r
  BY <1>7, <1>9, KeyRowFields
<1>12. RowsMove(r, q)
  BY <1>1, <1>4, <1>5, <1>7, <1>9 DEF RowsMove
<1>13. HasEffect(r)' => q.answer = "created"
  BY <1>5
<1>14. /\ q.key = requests[r].key /\ keys'[q.key] # NoRow /\ keys'[q.key].id = r
       /\ q.response # 0 /\ effects'[q.response] = r /\ q.stale \in {requests[r].stale, 0}
       /\ q.answer \notin {"replayed", "key_reused"}
  BY <1>1, <1>4, <1>5, <1>11
<1>15. /\ requests'[r] = q /\ DOMAIN requests' = DOMAIN requests
       /\ \A s \in DOMAIN requests : s # r => requests'[s] = requests[s]
  BY <1>2
<1>16. KeysInv'
  BY <1>1, <1>2, <1>5, <1>8, <1>9, <1>10, <1>12, <1>13, <1>14, RequestMovesKeepsKeys
<1> QED BY <1>5, <1>15, <1>16

LEMMA DiesKeepsKeys ==
  ASSUME KeysInv, NEW r \in DOMAIN requests, Dies(r)
  PROVE  /\ KeysInv' /\ DOMAIN requests' = DOMAIN requests
         /\ requests'[r].phase = "ended" /\ requests'[r].answer = "died"
         /\ \A s \in DOMAIN requests : s # r => requests'[s] = requests[s]
<1> USE DEF KeysInv
<1> DEFINE q == [requests[r] EXCEPT !.phase = "ended", !.answer = "died"]
<1>1. requests[r].phase \in {"acting", "acted"} /\ UNCHANGED <<now, keys, effects>>
  BY DEF Dies, At
<1>2. requests' = [requests EXCEPT ![r] = q]
  BY Zenon DEF Dies, RequestEnds
<1>3. requests[r] \in Req /\ requests[r].key \in Keys /\ RequestInv(r)
  BY Types, ReqFields
<1>4. /\ q \in Req /\ q.key = requests[r].key /\ q.payload = requests[r].payload
      /\ q.at = requests[r].at /\ q.stale = requests[r].stale /\ q.phase = "ended"
      /\ q.answer = "died"
  BY <1>3 DEF Req, Phase, Answer
<1> HIDE DEF q
<1>5. q \in Req' /\ keys' \in [Keys -> {NoRow} \cup KeyRow']
  BY <1>1, <1>2, <1>4, MoveTypes, Types
<1>6. \A s \in DOMAIN requests \ {r} : Owns(s) => Owns(s)'
  BY <1>1, <1>2 DEF Owns, RowOf
<1>7. (keys'[q.key] # NoRow /\ keys'[q.key].id = r) \/ Expired(r)
  BY <1>1, <1>3, <1>4 DEF RequestInv, Owns, RowOf
<1> QED BY <1>1, <1>2, <1>4, <1>5, <1>6, <1>7, RequestMovesKeepsKeys DEF RowsMove

LEMMA ReceiveKeepsKeys ==
  ASSUME KeysInv, Len(requests) <= MaxRequests, NEW k \in Keys, NEW p \in Payloads, Receive(k, p)
  PROVE  /\ KeysInv' /\ Len(requests)' <= MaxRequests
         /\ DOMAIN requests' = DOMAIN requests \cup {Len(requests) + 1}
         /\ requests'[Len(requests) + 1].phase \in {"expired", "insert", "ended"}
         /\ requests'[Len(requests) + 1].answer \in {"none", "in_progress", "replayed", "key_reused"}
         /\ \A s \in DOMAIN requests : requests'[s] = requests[s]
<1> USE DEF KeysInv
<1> DEFINE row == keys[k]
           live == row # NoRow /\ row.expiresAt > now
           answer == CASE ~live -> "none"
                       [] live /\ row.requestHash # ComputeHash(p) -> "key_reused"
                       [] live /\ row.requestHash = ComputeHash(p) ->
                            IF row.state = "processing" THEN "in_progress" ELSE "replayed"
<1> PICK n : n = Len(requests) + 1
  OBVIOUS
<1> PICK q : q = [key |-> k, payload |-> p, at |-> now,
                  stale |-> IF row = NoRow \/ live THEN 0 ELSE row.id,
                  phase |-> IF live THEN "ended" ELSE IF row = NoRow THEN "insert" ELSE "expired",
                  answer |-> answer, response |-> IF answer = "replayed" THEN row.response ELSE 0]
  OBVIOUS
<1>1. /\ Len(requests) < MaxRequests /\ requests' = Append(requests, q)
      /\ UNCHANGED <<now, keys, effects>>
  BY Zenon DEF Receive
<1>2. row # NoRow => /\ row \in KeyRow /\ row.id \in DOMAIN requests
                     /\ row.state \in {"processing", "completed"}
                     /\ row.response \in {0} \cup DOMAIN effects
  BY Types, KeyRowFields
<1>3. answer \in {"none", "in_progress", "replayed", "key_reused"} /\ (~live => answer = "none")
  OBVIOUS
<1>4. q \in Req
  <2>1. q.stale \in Nat
    BY <1>2, Types
  <2>2. q.response \in {0} \cup DOMAIN effects /\ q.phase \in Phase /\ q.answer \in Answer
    BY <1>2, <1>3 DEF Phase, Answer
  <2>3. q.at \in 0 .. now /\ q.key \in Keys /\ q.payload \in Payloads
    BY Types
  <2> HIDE DEF answer, live
  <2> QED BY <2>1, <2>2, <2>3 DEF Req
<1>5. /\ q.key = k /\ q.payload = p /\ q.answer = answer
      /\ q.phase \in {"expired", "insert", "ended"} /\ (q.phase # "ended" => ~live)
      /\ q.stale # 0 => row # NoRow /\ ~live /\ q.stale = row.id
      /\ answer = "replayed" => q.response = row.response
  OBVIOUS
<1>6. answer = "replayed" =>
        row # NoRow /\ row.requestHash = p.top /\ row.state = "completed"
  BY <1>2 DEF ComputeHash
<1>7. answer = "key_reused" => row # NoRow /\ row.requestHash # p.top
  BY DEF ComputeHash
<1>8. row # NoRow /\ ~live => now >= row.expiresAt
  <2>1. row # NoRow => row.expiresAt \in Nat
    BY <1>2, Types DEF KeyRow, Row
  <2> QED BY <2>1, Types
<1> HIDE DEF answer, live
<1>9. /\ DOMAIN requests' = DOMAIN requests \cup {n} /\ n \notin DOMAIN requests
      /\ requests'[n] = q /\ Len(requests)' = n /\ n \in Nat /\ n <= MaxRequests
      /\ \A s \in DOMAIN requests : requests'[s] = requests[s] /\ s \in 1 .. n - 1
  BY <1>1, Types
<1>10. row # NoRow => /\ requests[row.id].key = k /\ row.requestHash = requests[row.id].payload.top
                      /\ row.expiresAt = requests[row.id].at + Ttl
                      /\ row.state = "completed" => row.response # 0 /\ effects[row.response] = row.id
  BY DEF KeyRowsInv
<1>11. Req \subseteq Req' /\ KeyRow \subseteq KeyRow'
  BY <1>1, <1>9, Types, TypesGrow
<1>12. KeysTyped'
  <2>1. requests' \in Seq(Req')
    BY <1>1, <1>4, <1>11, Types
  <2>2. effects' \in Seq(DOMAIN requests')
    <3> DEFINE S == DOMAIN requests'
    <3>1. effects \in Seq(S)
      <4> DEFINE D == DOMAIN requests
      <4>1. D \subseteq S /\ effects \in Seq(D)
        BY <1>9, Types
      <4> HIDE DEF S, D
      <4> QED BY <4>1
    <3> QED BY <1>1, <3>1
  <2> QED BY <1>1, <1>11, <2>1, <2>2, Types DEF KeysTyped, Req, KeyRow
<1>13. KeyRowsInv'
  <2>1. \A j \in Keys : keys[j] # NoRow => keys[j].id \in DOMAIN requests
    BY Types, KeyRowFields
  <2> QED BY <1>1, <1>9, <2>1 DEF KeyRowsInv
<1>14. \A s \in DOMAIN requests' : RequestInv(s)'
  <2>1. ASSUME NEW s \in DOMAIN requests PROVE RequestInv(s)'
    <3>1. RequestInv(s) /\ requests'[s] = requests[s] /\ (HasEffect(s)' <=> HasEffect(s))
      BY <1>1, <1>9 DEF HasEffect
    <3>2. /\ Owns(s)' <=> Owns(s)
          /\ \A t \in DOMAIN requests : Expired(t)' <=> Expired(t)
      BY <1>1, <1>9 DEF Owns, RowOf, Expired
    <3> QED BY <1>1, <1>9, <3>1, <3>2 DEF RequestInv
  <2>2. RequestInv(n)'
    <3>1. q.stale # 0 => q.stale \in DOMAIN requests /\ Expired(q.stale)
      BY <1>2, <1>5, <1>8, <1>10 DEF Expired
    <3>2. q.stale # 0 => q.stale \in DOMAIN requests' /\ Expired(q.stale)'
      BY <1>1, <1>9, <3>1 DEF Expired
    <3>3. ~HasEffect(n)'
      BY <1>1, <1>9, Types DEF HasEffect
    <3> QED BY <1>3, <1>5, <1>9, <3>2, <3>3 DEF RequestInv
  <2> QED BY <1>9, <2>1, <2>2
<1>15. AnswersAreTrue'
  <2>1. ASSUME NEW s \in DOMAIN requests
        PROVE  /\ requests'[s].answer = "created" =>
                    requests'[s].response # 0 /\ effects'[requests'[s].response] = s
               /\ requests'[s].answer = "replayed" =>
                    /\ requests'[s].response # 0
                    /\ requests'[effects'[requests'[s].response]].key = requests'[s].key
                    /\ requests'[effects'[requests'[s].response]].payload.top =
                         requests'[s].payload.top
               /\ requests'[s].answer = "key_reused" =>
                    \E t \in 1 .. s - 1 : requests'[t].key = requests'[s].key
                                          /\ requests'[t].payload # requests'[s].payload
    <3>1. requests[s].response # 0 => effects[requests[s].response] \in DOMAIN requests
      BY Types, ReqFields
    <3>2. \A t \in 1 .. s - 1 : t \in DOMAIN requests
      BY Types
    <3> QED BY <1>1, <1>9, <3>1, <3>2 DEF AnswersAreTrue
  <2>2. /\ q.answer = "replayed" =>
             /\ q.response # 0 /\ effects[q.response] \in DOMAIN requests
             /\ requests[effects[q.response]].key = q.key
             /\ requests[effects[q.response]].payload.top = q.payload.top
        /\ q.answer = "key_reused" =>
             \E t \in 1 .. n - 1 : /\ t \in DOMAIN requests /\ requests[t].key = q.key
                                   /\ requests[t].payload # q.payload
    BY <1>2, <1>5, <1>6, <1>7, <1>9, <1>10
  <2>3. /\ q.answer = "replayed" =>
             /\ q.response # 0
             /\ requests'[effects'[q.response]].key = q.key
             /\ requests'[effects'[q.response]].payload.top = q.payload.top
        /\ q.answer = "key_reused" =>
             \E t \in 1 .. n - 1 : requests'[t].key = q.key /\ requests'[t].payload # q.payload
    BY <1>1, <1>9, <2>2
  <2>4. q.answer # "created"
    BY <1>3, <1>5
  <2> QED BY <1>9, <2>1, <2>3, <2>4 DEF AnswersAreTrue
<1> QED BY <1>3, <1>5, <1>9, <1>12, <1>13, <1>14, <1>15

\* Time only makes rows expire.
LEMMA ClockTicksKeepsKeys ==
  ASSUME KeysInv, ClockTicks
  PROVE  KeysInv'
<1> USE DEF KeysInv
<1>1. now' = now + 1 /\ now' <= MaxTime /\ now' \in Nat /\ UNCHANGED <<keys, requests, effects>>
  BY Types DEF ClockTicks
<1>2. Req \subseteq Req' /\ KeyRow \subseteq KeyRow'
  BY <1>1, Types, TypesGrow
<1>3. KeysTyped'
  <2> DEFINE S == Req'
  <2>1. requests \in Seq(S)
    <3>1. Req \subseteq S
      BY <1>2
    <3> HIDE DEF S
    <3> QED BY <3>1, Types
  <2>2. requests' \in Seq(Req')
    BY <1>1, <2>1
  <2>3. effects' \in Seq(DOMAIN requests')
    BY <1>1, Types
  <2>4. keys' \in [Keys -> {NoRow} \cup KeyRow']
    BY <1>1, <1>2, Types
  <2>5. now' \in 0 .. MaxTime
    BY <1>1, Types
  <2> QED BY <2>2, <2>3, <2>4, <2>5 DEF KeysTyped, Req, KeyRow
<1>4. KeyRowsInv' /\ AnswersAreTrue'
  BY <1>1 DEF KeyRowsInv, AnswersAreTrue
<1>5. \A r \in DOMAIN requests : Expired(r) => Expired(r)'
  BY <1>1, Types DEF Expired
<1>6. \A r \in DOMAIN requests : RequestInv(r)'
  BY <1>1, <1>5 DEF RequestInv, Owns, RowOf, HasEffect
<1> QED BY <1>1, <1>3, <1>4, <1>6

-----------------------------------------------------------------------------
(* The files.                                                              *)

\* The file, the upload and the effect of no other request than r change.
OthersKeep(r) ==
  /\ DOMAIN requests' = DOMAIN requests
  /\ \A s \in DOMAIN requests : s # r => requests'[s] = requests[s]
  /\ effects' = effects \/ effects' = Append(effects, r)
  /\ status' \in ApplicationStatus /\ upload' \in [1 .. MaxRequests -> Step]
  /\ \A s \in 1 .. MaxRequests : s # r => upload'[s] = upload[s]
  /\ files' \subseteq files \cup {r} /\ files \subseteq files' \cup {r}

LEMMA FilesMove ==
  ASSUME UploadInv, NEW r \in DOMAIN requests, OthersKeep(r), FileInv(r)'
  PROVE  FilesInv'
<1>1. KeysTyped
  BY DEF UploadInv, KeysInv
<1>2. DOMAIN requests \subseteq 1 .. MaxRequests
  BY <1>1, Types DEF UploadInv
<1>3. \A s : s # r => (HasEffect(s)' <=> HasEffect(s))
  BY <1>1, EffectsGrow DEF OthersKeep
<1>4. ASSUME NEW s \in DOMAIN requests, s # r PROVE FileInv(s)'
  <2>1. FileInv(s) /\ requests'[s] = requests[s] /\ (HasEffect(s)' <=> HasEffect(s))
    BY <1>3, <1>4 DEF UploadInv, FilesInv, OthersKeep
  <2>2. (s \in files' <=> s \in files) /\ upload'[s] = upload[s]
    BY <1>2, <1>4 DEF OthersKeep
  <2> QED BY <2>1, <2>2 DEF FileInv
<1>5. \A s \in 1 .. MaxRequests : s \notin DOMAIN requests' => upload'[s] = "none"
  BY DEF UploadInv, FilesInv, OthersKeep
<1>6. files' \subseteq DOMAIN requests'
  BY DEF UploadInv, FilesInv, OthersKeep
<1> QED BY <1>4, <1>5, <1>6 DEF FilesInv, OthersKeep

\* A request has its effect once it has acted, and not before.
LEMMA EffectOf ==
  ASSUME UploadInv, NEW r \in DOMAIN requests
  PROVE  /\ r \in 1 .. MaxRequests /\ FileInv(r) /\ RequestInv(r)
         /\ requests[r].phase \in {"expired", "insert", "acting"} => ~HasEffect(r)
         /\ requests[r].phase = "acted" => HasEffect(r)
         /\ requests[r].phase # "ended" => requests[r].answer = "none"
<1>1. RequestInv(r) /\ KeysTyped /\ FileInv(r)
  BY DEF UploadInv, KeysInv, FilesInv
<1>2. requests[r].response \in {0} \cup DOMAIN effects /\ r \in 1 .. MaxRequests
  BY <1>1, Types, ReqFields DEF UploadInv
<1> QED BY <1>1, <1>2 DEF RequestInv, HasEffect

LEMMA KeyStepKeepsInv ==
  ASSUME UploadInv, NEW r \in 1 .. MaxRequests, KeyStep(r) \/ Dies(r), UNCHANGED <<status, files, upload>>
  PROVE  UploadInv'
<1>1. KeysInv /\ Len(requests) <= MaxRequests /\ r \in DOMAIN requests
  BY DEF UploadInv, KeyStep, DeleteExpired, Insert, Complete, CompleteFails, Dies, At
<1>2. FileInv(r) /\ RequestInv(r) /\ (requests[r].phase # "ended" => requests[r].answer = "none")
  BY <1>1, EffectOf
<1>3. ASSUME KeysInv', DOMAIN requests' = DOMAIN requests, UNCHANGED effects, FileInv(r)',
             \A s \in DOMAIN requests : s # r => requests'[s] = requests[s]
      PROVE  UploadInv'
  <2>1. OthersKeep(r)
    BY <1>3 DEF OthersKeep, UploadInv, FilesInv
  <2>2. FilesInv'
    BY <1>1, <1>3, <2>1, FilesMove
  <2>3. Len(requests)' = Len(requests)
    BY <1>1, <1>3, Types DEF KeysInv
  <2> QED BY <1>1, <1>3, <2>2, <2>3 DEF UploadInv
<1>4. CASE DeleteExpired(r)
  <2>1. requests[r].phase = "expired" /\ UNCHANGED effects
    BY <1>4 DEF DeleteExpired, At
  <2>2. FileInv(r)'
    BY <1>1, <1>2, <1>4, <2>1, DeleteExpiredKeepsKeys DEF FileInv, HasEffect
  <2> QED BY <1>1, <1>3, <1>4, <2>1, <2>2, DeleteExpiredKeepsKeys
<1>5. CASE Insert(r)
  <2>1. requests[r].phase = "insert" /\ UNCHANGED effects
    BY <1>5 DEF Insert, At
  <2>2. FileInv(r)'
    BY <1>1, <1>2, <1>5, <2>1, InsertKeepsKeys, EffectOf DEF FileInv, HasEffect
  <2> QED BY <1>1, <1>3, <1>5, <2>1, <2>2, InsertKeepsKeys
<1>6. CASE Complete(r)
  <2>1. requests[r].phase = "acted" /\ UNCHANGED effects
    BY <1>6 DEF Complete, At
  <2>2. FileInv(r)'
    BY <1>1, <1>2, <1>6, <2>1, CompleteKeepsKeys, EffectOf DEF FileInv, HasEffect
  <2> QED BY <1>1, <1>3, <1>6, <2>1, <2>2, CompleteKeepsKeys
<1>7. CASE CompleteFails(r)
  <2>1. requests[r].phase = "acted" /\ UNCHANGED effects /\ Fails(r)
    BY <1>7 DEF CompleteFails, At
  <2>2. FileInv(r)'
    BY <1>1, <1>2, <2>1, FailsKeepsKeys, EffectOf DEF FileInv, HasEffect
  <2> QED BY <1>1, <1>3, <2>1, <2>2, FailsKeepsKeys
<1>8. CASE Dies(r)
  <2>1. requests[r].phase \in {"acting", "acted"} /\ UNCHANGED effects
    BY <1>8 DEF Dies, At
  <2>2. FileInv(r)'
    BY <1>1, <1>2, <1>8, <2>1, DiesKeepsKeys, EffectOf DEF FileInv, HasEffect
  <2> QED BY <1>1, <1>3, <1>8, <2>1, <2>2, DiesKeepsKeys
<1> QED BY <1>4, <1>5, <1>6, <1>7, <1>8 DEF KeyStep

\* The steps of the upload itself: the transaction commits, or the action throws
\* and the request answers an error.
LEMMA UploadKeepsInv ==
  ASSUME UploadInv, NEW r \in 1 .. MaxRequests,
         \/ StoreFile(r) \/ StoreFileFails(r) \/ InsertCv(r) \/ RollBack(r)
         \/ CommitUnanswered(r)
  PROVE  UploadInv'
<1>1. /\ KeysInv /\ Len(requests) <= MaxRequests /\ r \in DOMAIN requests
      /\ requests[r].phase = "acting"
  BY DEF UploadInv, StoreFile, StoreFileFails, InsertCv, RollBack, CommitUnanswered, Throws, Commits, At
<1>2. /\ FileInv(r) /\ ~HasEffect(r) /\ requests[r].answer = "none"
      /\ \/ upload[r] = "none" /\ r \notin files
         \/ upload[r] = "stored" /\ r \in files
  <2>1. FileInv(r) /\ ~HasEffect(r) /\ requests[r].answer = "none"
    BY <1>1, EffectOf
  <2> QED BY <1>1, <2>1 DEF FileInv
<1>3. /\ status \in ApplicationStatus /\ upload \in [1 .. MaxRequests -> Step]
      /\ files \subseteq DOMAIN requests
  BY DEF UploadInv, FilesInv
<1>4. ASSUME KeysInv', OthersKeep(r), FileInv(r)'
      PROVE  UploadInv'
  <2>1. FilesInv'
    BY <1>1, <1>4, FilesMove
  <2>2. Len(requests)' = Len(requests)
    BY <1>1, <1>4, Types DEF KeysInv, OthersKeep
  <2> QED BY <1>1, <1>4, <2>1, <2>2 DEF UploadInv
<1>5. effects' = Append(effects, r) /\ DOMAIN requests' = DOMAIN requests => HasEffect(r)'
  <2>1. effects' = Append(effects, r) => Len(effects) + 1 \in DOMAIN effects' /\ effects'[Len(effects) + 1] = r
    BY <1>1, Types DEF KeysInv
  <2> QED BY <2>1 DEF HasEffect
<1>6. CASE StoreFile(r)
  <2>1. /\ UNCHANGED <<now, keys, requests, effects, status>> /\ files' = files \cup {r}
        /\ upload' = [upload EXCEPT ![r] = "stored"]
    BY <1>6 DEF StoreFile, keyVars
  <2>2. KeysInv'
    BY <1>1, <2>1 DEF KeysInv, KeysTyped, KeyRowsInv, AnswersAreTrue, RequestInv, Owns, RowOf,
                      Expired, HasEffect, Row
  <2>3. FileInv(r)'
    BY <1>1, <1>2, <1>3, <2>1 DEF FileInv, HasEffect
  <2>4. OthersKeep(r)
    BY <1>3, <2>1 DEF OthersKeep, Step
  <2> QED BY <1>4, <2>2, <2>3, <2>4
<1>7. CASE StoreFileFails(r)
  <2>1. /\ Fails(r) /\ UNCHANGED <<effects, status>>
        /\ \/ UNCHANGED <<files, upload>>
           \/ files' = files \cup {r} /\ upload' = [upload EXCEPT ![r] = "orphaned"]
        /\ upload[r] = "none"
    BY <1>7 DEF StoreFileFails, Throws
  <2>2. /\ KeysInv' /\ DOMAIN requests' = DOMAIN requests
        /\ requests'[r].phase = "ended" /\ requests'[r].answer = "error"
        /\ \A s \in DOMAIN requests : s # r => requests'[s] = requests[s]
    BY <1>1, <2>1, FailsKeepsKeys
  <2>3. FileInv(r)'
    BY <1>2, <1>3, <2>1, <2>2 DEF FileInv, HasEffect
  <2>4. OthersKeep(r)
    BY <1>3, <2>1, <2>2 DEF OthersKeep, Step
  <2> QED BY <1>4, <2>2, <2>3, <2>4
<1>8. CASE InsertCv(r)
  <2>1. /\ Commits(r) /\ upload[r] = "stored" /\ effects' = Append(effects, r)
        /\ UNCHANGED <<status, files>> /\ upload' = [upload EXCEPT ![r] = "none"]
    BY <1>8 DEF InsertCv, Commits
  <2>2. /\ KeysInv' /\ DOMAIN requests' = DOMAIN requests
        /\ requests'[r].phase = "acted" /\ requests'[r].answer = "none"
        /\ \A s \in DOMAIN requests : s # r => requests'[s] = requests[s]
    BY <1>1, <1>2, <2>1, CommitsKeepsKeys
  <2>3. FileInv(r)'
    BY <1>2, <2>1, <2>2 DEF FileInv
  <2>4. OthersKeep(r)
    BY <1>3, <2>1, <2>2 DEF OthersKeep, Step
  <2> QED BY <1>4, <2>2, <2>3, <2>4
<1>9. CASE RollBack(r)
  <2>1. /\ Fails(r) /\ UNCHANGED <<effects, status>>
        /\ \/ files' = files \ {r} /\ upload' = [upload EXCEPT ![r] = "none"]
           \/ UNCHANGED files /\ upload' = [upload EXCEPT ![r] = "orphaned"]
    BY <1>9 DEF RollBack, Throws
  <2>2. /\ KeysInv' /\ DOMAIN requests' = DOMAIN requests
        /\ requests'[r].phase = "ended" /\ requests'[r].answer = "error"
        /\ \A s \in DOMAIN requests : s # r => requests'[s] = requests[s]
    BY <1>1, <2>1, FailsKeepsKeys
  <2>3. FileInv(r)'
    BY <1>2, <1>3, <2>1, <2>2 DEF FileInv, HasEffect
  <2>4. OthersKeep(r)
    BY <1>3, <2>1, <2>2 DEF OthersKeep, Step
  <2> QED BY <1>4, <2>2, <2>3, <2>4
<1>10. CASE CommitUnanswered(r)
  <2>1. /\ Fails(r) /\ UNCHANGED status /\ effects' = Append(effects, r)
        /\ upload' = [upload EXCEPT ![r] = "in_doubt"] /\ files' \in {files, files \ {r}}
    BY <1>10 DEF CommitUnanswered
  <2>2. /\ KeysInv' /\ DOMAIN requests' = DOMAIN requests
        /\ requests'[r].phase = "ended" /\ requests'[r].answer = "error"
        /\ \A s \in DOMAIN requests : s # r => requests'[s] = requests[s]
    BY <1>1, <2>1, FailsKeepsKeys
  <2>3. HasEffect(r)' /\ upload'[r] = "in_doubt"
    BY <1>3, <1>5, <2>1, <2>2
  <2>4. FileInv(r)'
    BY <2>2, <2>3 DEF FileInv
  <2>5. OthersKeep(r)
    BY <1>3, <2>1, <2>2 DEF OthersKeep, Step
  <2> QED BY <1>4, <2>2, <2>4, <2>5
<1> QED BY <1>6, <1>7, <1>8, <1>9, <1>10

LEMMA RestKeepsInv ==
  ASSUME UploadInv, \/ Tick \/ \E next \in ApplicationStatus : ApplicationChanges(next)
                    \/ \E k \in Keys, p \in Payloads : Upload(k, p)
                    \/ UNCHANGED uploadVars
  PROVE  UploadInv'
<1>1. KeysInv /\ FilesInv /\ Len(requests) <= MaxRequests
  BY DEF UploadInv
<1>2. ASSUME UNCHANGED <<requests, effects, files, upload>>, status' \in ApplicationStatus
      PROVE  FilesInv' /\ Len(requests)' <= MaxRequests
  BY <1>1, <1>2 DEF FilesInv, FileInv, HasEffect
<1>3. UNCHANGED <<now, keys, requests, effects>> => KeysInv'
  BY <1>1 DEF KeysInv, KeysTyped, KeyRowsInv, AnswersAreTrue, RequestInv, Owns, RowOf,
              Expired, HasEffect, Row
<1>4. CASE Tick
  BY <1>1, <1>2, <1>4, ClockTicksKeepsKeys DEF Tick, ClockTicks, UploadInv, FilesInv
<1>5. ASSUME NEW next \in ApplicationStatus, ApplicationChanges(next) PROVE UploadInv'
  BY <1>2, <1>3, <1>5 DEF ApplicationChanges, keyVars, UploadInv
<1>6. ASSUME NEW k \in Keys, NEW p \in Payloads, Upload(k, p) PROVE UploadInv'
  <2>1. PICK n : n = Len(requests) + 1
    BY Zenon
  <2>2. /\ KeysInv' /\ Len(requests)' <= MaxRequests /\ DOMAIN requests' = DOMAIN requests \cup {n}
        /\ requests'[n].phase \in {"expired", "insert", "ended"}
        /\ requests'[n].answer \in {"none", "in_progress", "replayed", "key_reused"}
        /\ \A s \in DOMAIN requests : requests'[s] = requests[s]
        /\ UNCHANGED <<effects, status, files, upload>> /\ Len(requests) < MaxRequests
    BY <1>1, <1>6, <2>1, ReceiveKeepsKeys DEF Upload, Receive
  <2>3. n \in 1 .. MaxRequests /\ n \notin DOMAIN requests
    BY <1>1, <2>1, <2>2, Types DEF KeysInv
  <2>4. ASSUME NEW s \in DOMAIN requests PROVE FileInv(s)'
    BY <1>1, <2>2 DEF FilesInv, FileInv, HasEffect
  <2>5. FileInv(n)'
    <3>1. \A c \in DOMAIN effects : effects[c] # n
      BY <1>1, <2>3, Types DEF KeysInv
    <3> QED BY <1>1, <2>2, <2>3, <3>1 DEF FilesInv, FileInv, HasEffect
  <2> QED BY <1>1, <2>2, <2>4, <2>5 DEF UploadInv, FilesInv
<1>7. CASE UNCHANGED uploadVars
  BY <1>1, <1>2, <1>3, <1>7 DEF uploadVars, UploadInv, FilesInv
<1> QED BY <1>4, <1>5, <1>6, <1>7

LEMMA UploadNextKeepsInv ==
  ASSUME UploadInv, [UploadNext]_uploadVars
  PROVE  UploadInv'
<1>1. ASSUME NEW r \in 1 .. MaxRequests, Works(r) PROVE UploadInv'
  BY <1>1, KeyStepKeepsInv, UploadKeepsInv DEF Works
<1>2. ASSUME NEW r \in 1 .. MaxRequests, Crash(r) PROVE UploadInv'
  BY <1>2, KeyStepKeepsInv DEF Crash
<1> QED BY <1>1, <1>2, RestKeepsInv DEF UploadNext

LEMMA UploadInitInv == UploadInit => UploadInv
<1> SUFFICES ASSUME UploadInit PROVE UploadInv
  OBVIOUS
<1>1. /\ now = 0 /\ keys = [k \in Keys |-> NoRow] /\ requests = <<>> /\ effects = <<>>
      /\ status = "open" /\ files = {} /\ upload = [r \in 1 .. MaxRequests |-> "none"]
  BY DEF UploadInit, KeysInit
<1>2. DOMAIN requests = {} /\ DOMAIN effects = {} /\ Len(requests) = 0
  BY <1>1
<1>3. KeysTyped
  BY <1>1, KeysAssumption DEF KeysTyped
<1>4. KeysInv
  BY <1>1, <1>2, <1>3 DEF KeysInv, KeyRowsInv, AnswersAreTrue
<1>5. FilesInv
  BY <1>1, <1>2 DEF FilesInv, ApplicationStatus, Step
<1> QED BY <1>2, <1>4, <1>5, KeysAssumption DEF UploadInv

-----------------------------------------------------------------------------
(* The theorems.                                                           *)

\* The inductive invariant holds in every reachable state.
THEOREM UploadInvariantHolds == UploadSpec => []UploadInv
BY UploadInitInv, UploadNextKeepsInv, PTL DEF UploadSpec

\* Files and rows agree, whatever fails or dies in between: a CV has its file
\* unless its commit was in doubt, and a file without a CV belongs to a request
\* at work or dead, or to an error the storage has swallowed
\* (cv-versions.service.ts, executeUpload).
THEOREM FilesAndRowsAlwaysAgree == UploadSpec => []FilesAndRowsAgree
<1>1. UploadInv => FilesAndRowsAgree
  <2> SUFFICES ASSUME UploadInv PROVE FilesAndRowsAgree
    OBVIOUS
  <2>1. KeysTyped /\ UploadTyped
    BY DEF UploadInv, KeysInv, FilesInv, UploadTyped
  <2>2. \A c \in DOMAIN effects : effects[c] \in DOMAIN requests
    BY <2>1, Types
  <2>3. \A r \in DOMAIN requests : FileInv(r)
    BY DEF UploadInv, FilesInv
  <2> QED BY <2>1, <2>2, <2>3 DEF FilesAndRowsAgree, FileInv, HasEffect
<1> QED BY <1>1, UploadInvariantHolds, PTL

\* What the client of an idempotent route is told is so
\* (idempotency.service.ts, execute).
THEOREM AnswersAreAlwaysTrue == UploadSpec => []AnswersAreTrue
<1>1. UploadInv => AnswersAreTrue
  BY DEF UploadInv, KeysInv
<1> QED BY <1>1, UploadInvariantHolds, PTL

\* A step that adds an effect adds that of a request that owns the row of its
\* key or has outlived it; so does the request of every earlier effect, unless
\* it answered an error.
LEMMA StepAddsEffectInDoubt ==
  ASSUME UploadInv, UploadNext, NEW f \in DOMAIN effects, effects' # effects,
         requests[effects[f]].key = requests[effects'[Len(effects')]].key
  PROVE  \/ requests[effects[f]].answer = "error"
         \/ Expired(effects[f]) \/ Expired(effects'[Len(effects')])
<1>1. PICK r \in 1 .. MaxRequests : At(r, "acting") /\ effects' = Append(effects, r)
  BY DEF UploadNext, Tick, ClockTicks, ApplicationChanges, Upload, Receive, Works, Crash, Dies,
         KeyStep, DeleteExpired, Insert, Complete, CompleteFails, StoreFile, StoreFileFails,
         InsertCv, RollBack, CommitUnanswered, Throws, Commits, keyVars
<1>2. KeysTyped /\ r \in DOMAIN requests /\ requests[r].phase = "acting"
  BY <1>1 DEF UploadInv, KeysInv, At
<1>3. effects'[Len(effects')] = r
  <2> DEFINE D == DOMAIN requests
  <2>1. effects \in Seq(D) /\ r \in D
    BY <1>2, Types
  <2> HIDE DEF D
  <2> QED BY <1>1, <2>1
<1>4. effects[f] \in DOMAIN requests /\ HasEffect(effects[f]) /\ effects[f] # r
  BY <1>2, Types, EffectOf DEF HasEffect
<1>5. RequestInv(r) /\ RequestInv(effects[f])
  BY <1>2, <1>4 DEF UploadInv, KeysInv
<1>6. Owns(r) \/ Expired(r)
  BY <1>2, <1>5 DEF RequestInv
<1>7. requests[effects[f]].answer = "error" \/ Owns(effects[f]) \/ Expired(effects[f])
  BY <1>4, <1>5 DEF RequestInv
<1> QED BY <1>3, <1>4, <1>6, <1>7 DEF Owns, RowOf

\* Two requests with one key take effect both only if the first one answered an
\* error although it had committed, or if the row of one of them has expired
\* (idempotency.service.ts, execute).
THEOREM SecondEffectAlwaysInDoubt == UploadSpec => SecondEffectOnlyInDoubt
<1> DEFINE Doubt == \A c \in DOMAIN effects : effects' # effects =>
             LET first == requests[effects[c]] second == requests[effects'[Len(effects')]] IN
             first.key = second.key =>
               \/ first.answer = "error"
               \/ now >= first.at + Ttl \/ now >= second.at + Ttl
<1>1. UploadInv /\ [UploadNext]_uploadVars => [Doubt]_keyVars
  <2> SUFFICES ASSUME UploadInv, UploadNext PROVE Doubt
    BY DEF uploadVars, keyVars
  <2> QED BY StepAddsEffectInDoubt DEF Expired
<1>2. UploadSpec => [][Doubt]_keyVars
  BY <1>1, UploadInvariantHolds, PTL DEF UploadSpec
<1> QED BY <1>2 DEF SecondEffectOnlyInDoubt
==============================================================================
