---------------------------- MODULE Accounts_MC -----------------------------
(* A small instance of Accounts.                                           *)
EXTENDS Accounts
=============================================================================
