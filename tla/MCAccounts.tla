---------------------------- MODULE MCAccounts ----------------------------
(* Accounts on a small instance. *)
EXTENDS Accounts, TLC

\* token ids and processes are interchangeable
Symmetry == Permutations(Tokens) \cup Permutations(Procs) \cup Permutations(Users)
=============================================================================
