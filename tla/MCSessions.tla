----------------------------- MODULE MCSessions -----------------------------
(* Instances of Sessions for TLC. *)
EXTENDS Sessions, TLC

CONSTANTS t1, t2, t3, t4, r1, r2

TokenSymmetry == Permutations(Tokens)

TokenRequestSymmetry == Permutations(Tokens) \cup Permutations(Requests)
=============================================================================
