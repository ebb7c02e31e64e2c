------------------------------- MODULE AiJobs -------------------------------
(***************************************************************************)
(* What AI runs promise to the things they are for, a CV or a question     *)
(* set, whatever transactions bring it about: a run settles once; a new    *)
(* run takes over from the one in progress; only the newest run puts its   *)
(* result in place; a human may replace it.  CvExtraction and QuestionSets *)
(* implement this.                                                         *)
(***************************************************************************)
EXTENDS Naturals, Sequences

VARIABLES
  jobs,    \* the runs: what each is for, and its status
  result   \* for each thing, the run whose result it shows, 0 for none

ledger == <<jobs, result>>

Init == jobs = <<>> /\ result = <<>>

\* A new thing is empty or, as a copy, shows what another shows.
Add ==
  /\ \E shown \in {0} \cup {result[a] : a \in DOMAIN result} : result' = Append(result, shown)
  /\ UNCHANGED jobs

TakenOver(a) ==
  [r \in DOMAIN jobs |->
     IF jobs[r].of = a /\ jobs[r].status = "PROCESSING"
       THEN [jobs[r] EXCEPT !.status = "SUPERSEDED"] ELSE jobs[r]]

Start ==
  \E a \in 1 .. Len(result) + 1 :
    /\ jobs' = Append(TakenOver(a), [of |-> a, status |-> "PROCESSING"])
    /\ result' = IF a \in DOMAIN result THEN result ELSE Append(result, 0)

IsNewest(r) == \A q \in DOMAIN jobs : jobs[q].of = jobs[r].of => q <= r

Succeed(r) ==
  /\ jobs[r].status = "PROCESSING" /\ IsNewest(r)
  /\ jobs' = [jobs EXCEPT ![r].status = "SUCCEEDED"]
  /\ result' = [result EXCEPT ![jobs[r].of] = r]

GiveUp(r) ==
  /\ jobs[r].status = "PROCESSING"
  /\ \E status \in {"FAILED", "SUPERSEDED"} : jobs' = [jobs EXCEPT ![r].status = status]
  /\ UNCHANGED result

Replace(a) ==
  /\ result' = [result EXCEPT ![a] = 0]
  /\ UNCHANGED jobs

Next ==
  \/ Add \/ Start
  \/ \E r \in DOMAIN jobs : Succeed(r) \/ GiveUp(r)
  \/ \E a \in DOMAIN result : Replace(a)

Ledger == Init /\ [][Next]_ledger
=============================================================================
