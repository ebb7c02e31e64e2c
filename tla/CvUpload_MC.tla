---------------------------- MODULE CvUpload_MC -----------------------------
(* A small instance of CvUpload.                                           *)
EXTENDS CvUpload

\* Two bodies with the same top level, and a third one.
ThreePayloads == {[top |-> "a", nested |-> 1], [top |-> "a", nested |-> 2],
                  [top |-> "b", nested |-> 1]}
=============================================================================
