-------------------------- MODULE LoginSessions_MC --------------------------
(* A small instance of LoginSessions.  Its properties are invariants and    *)
(* step properties, so the requests are interchangeable.                    *)
EXTENDS LoginSessions, TLC

Interchangeable == Permutations(Clients)
=============================================================================
