------------------------------ MODULE MCAccess ------------------------------
(* Access and Relationships on small instances.  The two share no variable,  *)
(* so each is explored with the other at rest: focus says which one moves.   *)
EXTENDS Access, Relationships, TLC

VARIABLE focus

mcVars == <<vars, registering, focus>>

BothInit == Init /\ RegistryInit /\ focus \in {"access", "registry"}

BothNext ==
    /\ UNCHANGED focus
    /\ \/ focus = "access" /\ Next /\ UNCHANGED registering
       \/ focus = "registry" /\ RegistryNext /\ UNCHANGED vars

BothSpec == BothInit /\ [][BothNext]_mcVars

\* access tokens, users and processes are interchangeable
Symmetry == Permutations(Tokens) \cup Permutations(Procs) \cup Permutations(Users)

\* one user with two relations on a thing and one on another, a second user
\* with one, and a service that holds one
Held(i, r, s) == [type |-> "thing", id |-> i, relation |-> r, subject |-> s]
Pool == {Held(1, "reader", "ana"), Held(1, "owner", "ana"), Held(2, "reader", "ana"),
         Held(1, "reader", "ben"), Held(1, "owner", "bot"),
         [type |-> "system", id |-> 1, relation |-> "admin", subject |-> "ana"]}

\* single tuples, and one call that names two
SomeBatches == {{x} : x \in Pool} \cup {{x \in Pool : x.relation = "owner" /\ x.id = 1}}
=============================================================================
