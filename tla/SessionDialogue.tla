-------------------------- MODULE SessionDialogue ---------------------------
(***************************************************************************)
(* What an interview session promises the candidate, whatever transactions *)
(* bring it about: the main questions come in order, a question may be     *)
(* followed up while the AI considers the answer and the budgets last, and *)
(* once the session has ended nothing is asked any more.  SessionRuntime   *)
(* implements this.                                                        *)
(***************************************************************************)
EXTENDS Integers, Sequences

CONSTANTS NumQuestions, MaxFollowUps, MaxFollowUpsTotal

VARIABLES
  asked,      \* the main question each turn was about, in order
  used,       \* follow-ups asked for each main question
  usedTotal,  \* follow-ups asked
  phase       \* idle, asking, considering (the AI), exhausted, ended

vars == <<asked, used, usedTotal, phase>>

Current == asked[Len(asked)]

Init ==
  /\ asked = <<>>
  /\ used = [q \in 1 .. NumQuestions |-> 0]
  /\ usedTotal = 0
  /\ phase = "idle"

Begin ==
  /\ phase = "idle"
  /\ asked' = <<1>>
  /\ phase' = "asking"
  /\ UNCHANGED <<used, usedTotal>>

BudgetLeft == used[Current] < MaxFollowUps[Current] /\ usedTotal < MaxFollowUpsTotal

Consider ==
  /\ phase = "asking"
  /\ BudgetLeft
  /\ phase' = "considering"
  /\ UNCHANGED <<asked, used, usedTotal>>

FollowUp ==
  /\ phase = "considering"
  /\ BudgetLeft
  /\ asked' = Append(asked, Current)
  /\ used' = [used EXCEPT ![Current] = @ + 1]
  /\ usedTotal' = usedTotal + 1
  /\ phase' = "asking"

NextMain ==
  /\ phase \in {"asking", "considering"}
  /\ IF Current < NumQuestions
       THEN asked' = Append(asked, Current + 1) /\ phase' = "asking"
       ELSE asked' = asked /\ phase' = "exhausted"
  /\ UNCHANGED <<used, usedTotal>>

End ==
  /\ phase \in {"asking", "considering", "exhausted"}
  /\ phase' = "ended"
  /\ UNCHANGED <<asked, used, usedTotal>>

Next == Begin \/ Consider \/ FollowUp \/ NextMain \/ End

Spec == Init /\ [][Next]_vars
=============================================================================
