------------------------- MODULE ReviewDecision_MC --------------------------
(* Small instances of ReviewDecision.                                      *)
EXTENDS ReviewDecision
=============================================================================
