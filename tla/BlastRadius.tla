----------------------------- MODULE BlastRadius ------------------------------
(***************************************************************************)
(* What an investigation learns about the reach of a secret: the resources *)
(* that IamConnector.enumerate_scope finds in the readable policies of the *)
(* principal, and the graph that BlastRadiusBuilder draws of them.  Nodes  *)
(* are named by what they stand for; the code gives each a fresh uuid.     *)
(***************************************************************************)
EXTENDS Naturals, FiniteSets

CONSTANTS
    Resources,    \* the resources that policies name
    Policies,     \* the policies of the principal, as the resources each allows
    Privileged    \* the resources of a high-privilege service

ASSUME BlastRadiusAssumption ==
    /\ IsFiniteSet(Resources)
    /\ Policies \subseteq SUBSET Resources
    /\ Privileged \subseteq Resources

\* A policy that cannot be read adds nothing, and any other error of the
\* enumeration makes it return nothing at all.
Enumerations == {UNION readable : readable \in SUBSET Policies}

Reach == UNION Policies

\* The count of the severity node: high-privilege resources count twice.
Effective(found) == Cardinality(found) + Cardinality(found \cap Privileged)

SecretNode    == <<"secret">>
PrincipalNode == <<"principal">>
StoreNode     == <<"store_entry">>
ResourceNode(x) == <<"resource", x>>

\* verify_store's answer; "none" when there is no store or the call raised.
StoreChecks == {"none", "readable", "unreadable"}

Nodes(found, store) ==
    {SecretNode, PrincipalNode} \cup {ResourceNode(x) : x \in found}
        \cup IF store = "none" THEN {} ELSE {StoreNode}

Edge(src, dst, kind, confidence) ==
    [src |-> src, dst |-> dst, kind |-> kind, confidence |-> confidence]

Edges(found, store) ==
    {Edge(SecretNode, PrincipalNode, "is_principal", "high")}
    \cup {Edge(PrincipalNode, ResourceNode(x), "grants_access_to",
               IF x \in Privileged THEN "high" ELSE "medium") : x \in found}
    \cup IF store = "none" THEN {}
         ELSE {Edge(SecretNode, StoreNode, "stored_in",
                    IF store = "readable" THEN "high" ELSE "low")}

\* CoverageReport: every known consumer, and a confidence from their number.
Coverage(found) ==
    LET known == Cardinality(found)
    IN  [known |-> known,
         confidence |-> IF known > 5 THEN "high"
                        ELSE IF known > 1 THEN "medium" ELSE "low"]

===============================================================================
