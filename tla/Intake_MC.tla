----------------------------- MODULE Intake_MC ------------------------------
(* A small instance of Intake.  Its properties are invariants and step      *)
(* properties, so addresses and requests are interchangeable.               *)
EXTENDS Intake, TLC

Interchangeable == Permutations(Emails) \cup Permutations(Slots)
=============================================================================
