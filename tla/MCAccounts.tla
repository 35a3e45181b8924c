---- MODULE MCAccounts ----
(* Accounts for TLC: waiting handlers are interchangeable.                 *)
EXTENDS Accounts, TLC

CallSymmetry == Permutations(Calls)
====
