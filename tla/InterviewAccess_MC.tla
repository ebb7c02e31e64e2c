------------------------- MODULE InterviewAccess_MC -------------------------
(* Small instances of InterviewAccess: two rounds of interviews of one     *)
(* application.  The rows are numbered in the order they are made, so no   *)
(* two of them are interchangeable and no symmetry is used.                *)
EXTENDS InterviewAccess
=============================================================================
