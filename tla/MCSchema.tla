------------------------------ MODULE MCSchema ------------------------------
(* Instances of Schema for TLC. *)
EXTENDS Schema

CONSTANTS u1, u2
=============================================================================
