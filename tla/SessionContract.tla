-------------------------- MODULE SessionContract --------------------------
(***************************************************************************)
(* What the refresh-token table promises about one login session (a token  *)
(* family): it is opened once by a login, renewed any number of times      *)
(* while it is live, ended by a revocation, and never live again.          *)
(***************************************************************************)
CONSTANT Families

VARIABLE status

Init == status = [f \in Families |-> "unopened"]

Open == \E f \in Families :
    /\ status[f] = "unopened"
    /\ status' = [status EXCEPT ![f] = "live"]

\* One revocation may end several sessions at once.
End == \E S \in SUBSET {f \in Families : status[f] = "live"} :
    status' = [f \in Families |-> IF f \in S THEN "ended" ELSE status[f]]

Next == Open \/ End

Spec == Init /\ [][Next]_status
=============================================================================
