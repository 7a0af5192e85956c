-------------------------- MODULE MCStateMigration --------------------------
(***************************************************************************)
(* TLC instance of StateMigration: two files of one account, one of        *)
(* another, one that does not parse, and a store for two of three accounts.*)
(***************************************************************************)
EXTENDS StateMigration

CONSTANTS f1, f2, f3, f4, a, b, c

Names == [f \in Files |-> CASE f \in {f1, f2} -> a [] f = f3 -> b [] f = f4 -> c]
=============================================================================
