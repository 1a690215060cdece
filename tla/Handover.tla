-------------------------------- MODULE Handover -------------------------------
(***************************************************************************)
(* What a rotation promises to the consumers of a secret, whatever goes on *)
(* inside: the new credential is handed over beside the old one, and then  *)
(* either the old one goes or the new one does, once and for all.  At no   *)
(* time is a consumer left without a credential that works.                *)
(***************************************************************************)
EXTENDS Naturals

CONSTANT Rotations

VARIABLES
    valid,    \* the credentials a consumer may use: "old", "new"
    settled   \* one of the two has been withdrawn for good

handoverVars == <<valid, settled>>

Init ==
    /\ valid = [r \in Rotations |-> {"old"}]
    /\ settled = [r \in Rotations |-> FALSE]

\* The new credential exists and its reference is recorded.
Offer(r) ==
    /\ ~settled[r]
    /\ valid[r] = {"old"}
    /\ valid' = [valid EXCEPT ![r] = {"old", "new"}]
    /\ UNCHANGED settled

\* The rotation goes through: consumers are left with the new credential ...
Retire(r) ==
    /\ valid[r] = {"old", "new"}
    /\ valid' = [valid EXCEPT ![r] = {"new"}]
    /\ settled' = [settled EXCEPT ![r] = TRUE]

\* ... or it is rolled back, and they are left with the old one.
Withdraw(r) ==
    /\ valid[r] = {"old", "new"}
    /\ valid' = [valid EXCEPT ![r] = {"old"}]
    /\ settled' = [settled EXCEPT ![r] = TRUE]

Next == \E r \in Rotations : Offer(r) \/ Retire(r) \/ Withdraw(r)

Spec == Init /\ [][Next]_handoverVars
================================================================================
