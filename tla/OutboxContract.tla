--------------------------- MODULE OutboxContract ---------------------------
(***************************************************************************)
(* What the outbox promises about one message, as the documentation's      *)
(* state machine has it: published by a commit, then delivered or failed,  *)
(* a failed message rearmed only by the operator, and forgotten only once  *)
(* it is in a terminal state.                                              *)
(***************************************************************************)
CONSTANT Messages

VARIABLE state

In(s) == {m \in Messages : state[m] = s}

Init == state = [m \in Messages |-> "absent"]

\* Every message of S moves to s together.
Move(S, s) == state' = [m \in Messages |-> IF m \in S THEN s ELSE state[m]]

Publish == \E m \in In("absent") : Move({m}, "pending")

Deliver == \E m \in In("pending") : Move({m}, "delivered")

Fail == \E m \in In("pending") : Move({m}, "failed")

\* retry-failed rearms every failed message at once.
Rearm == Move(In("failed"), "pending")

\* The sweep forgets a batch of one terminal state.
Forget == \E s \in {"delivered", "failed"} : \E S \in SUBSET In(s) : Move(S, "pruned")

Next == Publish \/ Deliver \/ Fail \/ Rearm \/ Forget

Spec == Init /\ [][Next]_state
=============================================================================
