---------------------- MODULE NotificationDispatch_MC -----------------------
(* Small instances of NotificationDispatch.  The retries are               *)
(* interchangeable, but symmetry is unsound for liveness.                  *)
EXTENDS NotificationDispatch

CONSTANTS creator, retry1, retry2

AllCalls == {creator, retry1, retry2}
=============================================================================
