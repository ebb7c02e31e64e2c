------------------------ MODULE ApplicationLifecycle ------------------------
(***************************************************************************)
(* What the services promise of an application and its interviews: the     *)
(* stages a reader of the two status columns can see, without locks,       *)
(* versions, links or requests.  Every step moves both columns together.   *)
(***************************************************************************)
EXTENDS Sequences, Naturals

VARIABLES
  status,   \* of the application
  rounds    \* the status of each interview, by round

stages == <<status, rounds>>

Init == status = "SHORTLISTED" /\ rounds = <<>>

CurrentRound == rounds[Len(rounds)]
HasOpenRound == Len(rounds) > 0 /\ CurrentRound \in {"INVITED", "IN_PROGRESS"}

EndRound(result) == rounds' = [rounds EXCEPT ![Len(rounds)] = result]

Invite ==
  /\ status = "SHORTLISTED" /\ ~HasOpenRound
  /\ status' = "INTERVIEWING"
  /\ rounds' = Append(rounds, "INVITED")

Begin ==
  /\ HasOpenRound /\ CurrentRound = "INVITED"
  /\ EndRound("IN_PROGRESS")
  /\ UNCHANGED status

\* The interview is over before it began: the candidate may be invited again.
BackToShortlist ==
  /\ status = "INTERVIEWING" /\ CurrentRound = "INVITED"
  /\ status' = "SHORTLISTED"
  /\ \E result \in {"EXPIRED", "CANCELLED"} : EndRound(result)

\* The interview is over after it began: there is a transcript to review.
OnToReview ==
  /\ status = "INTERVIEWING" /\ CurrentRound = "IN_PROGRESS"
  /\ status' = "UNDER_REVIEW"
  /\ \E result \in {"COMPLETED", "EXPIRED", "CANCELLED"} : EndRound(result)

Withdraw ==
  /\ status \in {"SHORTLISTED", "INTERVIEWING", "UNDER_REVIEW"}
  /\ status' = "WITHDRAWN"
  /\ IF HasOpenRound THEN EndRound("CANCELLED") ELSE UNCHANGED rounds

Decide ==
  /\ status = "UNDER_REVIEW" /\ ~HasOpenRound
  /\ status' \in {"APPROVED", "REJECTED"}
  /\ UNCHANGED rounds

Next == Invite \/ Begin \/ BackToShortlist \/ OnToReview \/ Withdraw \/ Decide

Lifecycle == Init /\ [][Next]_stages
=============================================================================
