-------------------------- MODULE QuestionSets_MC ---------------------------
(* Small instances of QuestionSets.                                        *)
EXTENDS QuestionSets
=============================================================================
