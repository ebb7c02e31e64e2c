------------------------------- MODULE Intake -------------------------------
(***************************************************************************)
(* What comes before an interview: a job, the candidates of one HR user,   *)
(* the applications that bring the two together, and the check of all      *)
(* three when an interview is created.                                     *)
(*                                                                         *)
(* The operations on the job lock its row and are one action each.  Those  *)
(* on candidates and the creation of an application check first, without   *)
(* a lock, and write in a transaction of their own: each is two actions    *)
(* with anything in between.  What keeps candidates and applications from  *)
(* being there twice is a unique index over the rows not removed.          *)
(***************************************************************************)
EXTENDS Naturals, Sequences, FiniteSets

CONSTANTS
  Emails,           \* the normalized addresses
  Slots,            \* the requests that may be under way at once
  MaxCandidates,    \* bound on the candidates created
  MaxApplications,  \* bound on the applications created
  MaxEdits,         \* bound on the edits of a candidate
  MaxVersion        \* bound on the version of the job

ASSUME BoundsAssumption ==
  /\ MaxCandidates \in Nat /\ MaxApplications \in Nat
  /\ MaxEdits \in Nat /\ MaxVersion \in Nat \ {0}

VARIABLES
  job,           \* the row of jobs, None before it is created
  seen,          \* the job as HR last read it
  candidates,    \* the rows of candidates, in the order of their creation
  applications,  \* the rows of applications
  pending,       \* the requests that have checked and not yet written
  raced          \* the candidates that two requests at odds were about at once

vars == <<job, seen, candidates, applications, pending, raced>>

None == [none |-> TRUE]

Job == [status : {"draft", "open", "closed"}, version : 1 .. MaxVersion, deleted : BOOLEAN]

\* edits counts the changes of the other fields that the row builds on.
Candidate == [email : Emails, edits : Nat, deleted : BOOLEAN]

\* invited: an interview has been created, and the invitation goes to that address.
Application == [candidate : Nat, invited : Emails \cup {"nobody"}, deleted : BOOLEAN]

Request ==
  [op : {"create"}, email : Emails] \cup
  [op : {"edit"}, candidate : DOMAIN candidates, row : Candidate] \cup
  [op : {"remove", "apply"}, candidate : DOMAIN candidates] \cup
  [op : {"invite"}, application : DOMAIN applications, email : Emails]

TypeInvariant ==
  /\ job \in {None} \cup Job /\ seen \in {None} \cup Job
  /\ candidates \in Seq(Candidate)
  /\ applications \in Seq(Application)
  /\ \A a \in DOMAIN applications : applications[a].candidate \in DOMAIN candidates
  /\ pending \in [Slots -> {None} \cup Request]
  /\ raced \subseteq DOMAIN candidates

Init ==
  /\ job = None /\ seen = None
  /\ candidates = <<>>
  /\ applications = <<>>
  /\ pending = [s \in Slots |-> None]
  /\ raced = {}

-----------------------------------------------------------------------------
(* The job.                                                                *)

\* findOne and findAll.
HrReadsJob ==
  /\ job # None /\ ~job.deleted
  /\ seen' = job
  /\ UNCHANGED <<job, candidates, applications, pending, raced>>

CreateJob(status) ==
  /\ job = None
  /\ job' = [status |-> status, version |-> 1, deleted |-> FALSE]
  /\ UNCHANGED <<seen, candidates, applications, pending, raced>>

\* expectedVersion, compared under the lock.
JobVersionMatches == job # None /\ ~job.deleted /\ seen # None /\ seen.version = job.version

\* update: the job may be opened, and any edit is a new version.
UpdateJob(status) ==
  /\ JobVersionMatches
  /\ job.version < MaxVersion
  /\ job.status # "closed"
  /\ ~(job.status = "open" /\ status = "draft")
  /\ job' = [job EXCEPT !.status = status, !.version = @ + 1]
  /\ UNCHANGED <<seen, candidates, applications, pending, raced>>

CloseJob ==
  /\ JobVersionMatches
  /\ job.version < MaxVersion
  /\ job.status # "closed"
  /\ job' = [job EXCEPT !.status = "closed", !.version = @ + 1]
  /\ UNCHANGED <<seen, candidates, applications, pending, raced>>

\* softDelete: no version, and no look at the applications.
DeleteJob ==
  /\ job # None /\ ~job.deleted
  /\ job' = [job EXCEPT !.deleted = TRUE]
  /\ UNCHANGED <<seen, candidates, applications, pending, raced>>

-----------------------------------------------------------------------------
(* Checks, unlocked, and the writes that rely on them.                     *)

Present(c) == ~candidates[c].deleted
Active(a) == ~applications[a].deleted
ApplicationsOf(c) == {a \in DOMAIN applications : Active(a) /\ applications[a].candidate = c}

\* The candidates other than c with an address, among those not removed.
Others(c, email) ==
  {d \in DOMAIN candidates \ {c} : Present(d) /\ candidates[d].email = email}

\* Two requests about one candidate that undo each other when they overlap.
AtOdds == {{"apply", "remove"}, {"edit", "remove"}, {"edit"}}

Begins(s, request) ==
  /\ pending[s] = None
  /\ pending' = [pending EXCEPT ![s] = request]
  /\ UNCHANGED <<job, seen, candidates, applications>>

\* The same, for a request about a candidate.
BeginsAbout(s, request) ==
  /\ Begins(s, request)
  /\ raced' = IF \E t \in Slots : /\ pending[t] # None
                                  /\ "candidate" \in DOMAIN pending[t]
                                  /\ pending[t].candidate = request.candidate
                                  /\ {pending[t].op, request.op} \in AtOdds
                THEN raced \cup {request.candidate} ELSE raced

Doing(s, op) == pending[s] # None /\ pending[s].op = op
Ends(s) == pending' = [pending EXCEPT ![s] = None] /\ UNCHANGED <<job, seen, raced>>

BeginCreate(s, email) ==
  /\ Others(0, email) = {}
  /\ Begins(s, [op |-> "create", email |-> email])
  /\ UNCHANGED raced

\* The insert; the unique index refuses an address that has come in between.
EndCreate(s) ==
  /\ Doing(s, "create")
  /\ Len(candidates) < MaxCandidates
  /\ candidates' = IF Others(0, pending[s].email) # {} THEN candidates
       ELSE Append(candidates, [email |-> pending[s].email, edits |-> 0, deleted |-> FALSE])
  /\ Ends(s)
  /\ UNCHANGED applications

\* Faulty variant: a removed candidate is found as well.
FaultyBeginEdit(s, c, email) ==
  /\ candidates[c].edits < MaxEdits
  /\ email # candidates[c].email => Others(c, email) = {}
  /\ BeginsAbout(s, [op |-> "edit", candidate |-> c,
                     row |-> [email |-> email, edits |-> candidates[c].edits + 1,
                              deleted |-> FALSE]])

\* update reads the candidate and, for a new address, looks for another one ...
BeginEdit(s, c, email) ==
  /\ Present(c)
  /\ candidates[c].edits < MaxEdits
  /\ email # candidates[c].email => Others(c, email) = {}
  /\ BeginsAbout(s, [op |-> "edit", candidate |-> c,
                     row |-> [email |-> email, edits |-> candidates[c].edits + 1,
                              deleted |-> FALSE]])

\* ... and saves the row as it was read, with the changes: a removal in between
\* is undone with everything else.
EndEdit(s) ==
  /\ Doing(s, "edit")
  /\ candidates' = IF Others(pending[s].candidate, pending[s].row.email) # {} THEN candidates
       ELSE [candidates EXCEPT ![pending[s].candidate] = pending[s].row]
  /\ Ends(s)
  /\ UNCHANGED applications

\* Faulty variant: the applications of the candidate are not counted.
FaultyBeginRemove(s, c) ==
  /\ Present(c)
  /\ BeginsAbout(s, [op |-> "remove", candidate |-> c])

\* remove counts the applications in its transaction, without a lock on them ...
BeginRemove(s, c) ==
  /\ Present(c)
  /\ ApplicationsOf(c) = {}
  /\ BeginsAbout(s, [op |-> "remove", candidate |-> c])

\* ... and removes the candidate.
EndRemove(s) ==
  /\ Doing(s, "remove")
  /\ candidates' = [candidates EXCEPT ![pending[s].candidate].deleted = TRUE]
  /\ Ends(s)
  /\ UNCHANGED applications

\* executeCreate: candidate, job and duplicates are read, each on its own.  An
\* owner may also apply to a draft.
BeginApply(s, c) ==
  /\ Present(c)
  /\ job # None /\ ~job.deleted /\ job.status # "closed"
  /\ ApplicationsOf(c) = {}
  /\ BeginsAbout(s, [op |-> "apply", candidate |-> c])

\* The insert, under the unique index on owner, candidate and job.
EndApply(s) ==
  /\ Doing(s, "apply")
  /\ Len(applications) < MaxApplications
  /\ applications' = IF ApplicationsOf(pending[s].candidate) # {} THEN applications
       ELSE Append(applications, [candidate |-> pending[s].candidate,
                                  invited |-> "nobody", deleted |-> FALSE])
  /\ Ends(s)
  /\ UNCHANGED candidates

\* Creating an interview locks the application for as long as it takes.
ApplicationUnlocked(a) ==
  \A s \in Slots : Doing(s, "invite") => pending[s].application # a

\* executeCreateInterview reads job and candidate without a lock.
BeginInvite(s, a) ==
  /\ Active(a) /\ applications[a].invited = "nobody"
  /\ ApplicationUnlocked(a)
  /\ ~job.deleted /\ job.status = "open"
  /\ Present(applications[a].candidate)
  /\ Begins(s, [op |-> "invite", application |-> a,
                email |-> candidates[applications[a].candidate].email])
  /\ UNCHANGED raced

EndInvite(s) ==
  /\ Doing(s, "invite")
  /\ applications' = [applications EXCEPT ![pending[s].application].invited = pending[s].email]
  /\ Ends(s)
  /\ UNCHANGED candidates

\* The soft delete of an administrator.
RemoveApplication(a) ==
  /\ Active(a) /\ ApplicationUnlocked(a)
  /\ applications' = [applications EXCEPT ![a].deleted = TRUE]
  /\ UNCHANGED <<job, seen, candidates, pending, raced>>

\* A request stops between its check and its write, or its write fails.
Abandon(s) ==
  /\ pending[s] # None
  /\ Ends(s)
  /\ UNCHANGED <<candidates, applications>>

-----------------------------------------------------------------------------
JobStep ==
  \/ HrReadsJob \/ CloseJob \/ DeleteJob
  \/ \E status \in {"draft", "open"} : CreateJob(status) \/ UpdateJob(status)

CandidateStep(s) ==
  \/ \E email \in Emails : BeginCreate(s, email)
  \/ \E c \in DOMAIN candidates :
       BeginRemove(s, c) \/ \E email \in Emails : BeginEdit(s, c, email)
  \/ EndCreate(s) \/ EndEdit(s) \/ EndRemove(s)

ApplicationStep(s) ==
  \/ \E c \in DOMAIN candidates : BeginApply(s, c)
  \/ \E a \in DOMAIN applications : BeginInvite(s, a)
  \/ EndApply(s) \/ EndInvite(s)

Next ==
  \/ JobStep
  \/ \E s \in Slots : CandidateStep(s) \/ ApplicationStep(s) \/ Abandon(s)
  \/ \E a \in DOMAIN applications : RemoveApplication(a)

Spec == Init /\ [][Next]_vars

-----------------------------------------------------------------------------
(* Properties.                                                             *)

\* A candidate with an active application is there (README.md:155), unless the
\* application was created while the removal was under way.
OrphansOnlyFromRaces ==
  \A a \in DOMAIN applications :
    Active(a) => Present(applications[a].candidate) \/ applications[a].candidate \in raced

\* No address and no application is there twice, although the checks are made
\* before the writes and an edit may bring a removed candidate back; no
\* application is left without its candidate but by a race; and the version of
\* the job that HR sends along names the job HR has seen.
IntakeConsistent ==
  /\ TypeInvariant
  /\ \A c \in DOMAIN candidates : Present(c) => Others(c, candidates[c].email) = {}
  /\ \A c \in DOMAIN candidates : Cardinality(ApplicationsOf(c)) <= 1
  /\ OrphansOnlyFromRaces
  /\ JobVersionMatches => seen = job

\* A job never goes back from closed to open to draft, nor returns once removed;
\* an edit of a candidate builds on the row it replaces and brings no removed
\* candidate back, unless another edit or the removal was under way.
NothingIsUndone ==
  [][/\ job # None =>
          /\ job'.version >= job.version
          /\ job.status # "draft" => job'.status # "draft"
          /\ job.status = "closed" => job'.status = "closed"
          /\ job.deleted => job' = job
     /\ \A c \in DOMAIN candidates \ raced :
          LET old == candidates[c] new == candidates'[c] IN
          old # new =>
            /\ ~old.deleted
            /\ new.edits = old.edits + 1 \/ new = [old EXCEPT !.deleted = TRUE]
    ]_vars
=============================================================================
