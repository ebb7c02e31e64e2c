------------------------- MODULE SessionRuntime_MC --------------------------
(* A small instance of SessionRuntime.                                      *)
EXTENDS SessionRuntime

\* Both questions may be followed up, the first one twice.
TwoThenOne == <<2, 1>>
=============================================================================
