--------------------------- MODULE MCInvestigation ----------------------------
(***************************************************************************)
(* Small instances of Investigation for TLC: a principal with a policy     *)
(* that names a plain bucket and a privileged role.                        *)
(***************************************************************************)
EXTENDS Investigation

CONSTANTS bucket, role

OnePolicy == {{bucket, role}}

\* A key that is always investigated, and one that triage skips.
LeakedKey == [type |-> "aws_access_key", environment |-> "prod", exposure |-> "public_leak"]
IdleToken == [type |-> "api_key", environment |-> "staging", exposure |-> "inactive"]
LeakedAndIdle == {LeakedKey, IdleToken}
===============================================================================
