------------------------- MODULE InvestigationProofs --------------------------
(***************************************************************************)
(* Proofs about the scorers, the blast-radius graph and the rows of        *)
(* investigations, for every value of the constants.                       *)
(***************************************************************************)
EXTENDS Investigation, TLAPS

Scopes == {k \in Int : 0 <= k /\ k <= ScopeCap}

LEMMA FactorBounds ==
    ASSUME NEW s \in Secret
    PROVE  /\ EnvFactor(s.environment) \in 30..100
           /\ ExposureFactor(s) \in 10..100
  <1>1. s.environment \in Environments /\ s.exposure \in Exposures /\ s.type \in SecretTypes
    BY DEF Secret
  <1>2. EnvFactor(s.environment) \in 30..100
    BY <1>1 DEF EnvFactor, Environments
  <1>3. ExposureBase(s.exposure) \in 10..100
    BY <1>1 DEF ExposureBase, Exposures
  <1>4. TypeBump(s.type) \in 0..15
    BY <1>1 DEF TypeBump, SecretTypes
  <1> QED
    BY <1>2, <1>3, <1>4 DEF ExposureFactor

LEMMA PointsBounds ==
    ASSUME NEW s \in Secret, NEW scope \in Scopes
    PROVE  Points(scope, s) \in Int /\ 0 <= Points(scope, s) /\ Points(scope, s) <= 100 * Unit
  BY FactorBounds, SMT DEF Points, Scopes, ScopeCap, Unit

LEMMA RoundedBounds ==
    ASSUME NEW points \in Int, NEW n \in Rounded(points)
    PROVE  n \in Int /\ 2 * Unit * n <= 2 * points + Unit /\ 2 * points <= 2 * Unit * n + Unit
  BY SMT DEF Rounded, Unit

\* Whatever the secret and the number of its resources, the score is one of
\* 0..100 (the engine's min(100, round(...)), which the column and the buckets
\* rely on).
THEOREM ScoreInRange ==
    ASSUME NEW s \in Secret, NEW scope \in Scopes
    PROVE  Rounded(Points(scope, s)) \subseteq 0..100
  <1> SUFFICES ASSUME NEW n \in Rounded(Points(scope, s))
               PROVE  n \in 0..100
    OBVIOUS
  <1> DEFINE p == Points(scope, s)
  <1>1. p \in Int /\ 0 <= p /\ p <= 100 * Unit
    BY PointsBounds
  <1>2. n \in Int /\ 2 * Unit * n <= 2 * p + Unit /\ 2 * p <= 2 * Unit * n + Unit
    BY <1>1, RoundedBounds
  <1> HIDE DEF p
  <1> QED
    BY <1>1, <1>2, SMT DEF Unit

\* More reach never scores lower, not even where rounding meets a tie: an
\* investigation that lost resources to an error can only understate.
THEOREM ScoreMonotone ==
    ASSUME NEW s \in Secret, NEW less \in Scopes, NEW more \in Scopes, less < more,
           NEW low \in Rounded(Points(less, s)), NEW high \in Rounded(Points(more, s))
    PROVE  low <= high
  <1> DEFINE p == Points(less, s)
             q == Points(more, s)
  <1>1. p \in Int /\ q \in Int
    BY PointsBounds
  <1>2. p < q
    BY FactorBounds, SMT DEF Points, Scopes, ScopeCap
  <1>3. low \in Int /\ 2 * Unit * low <= 2 * p + Unit
    BY <1>1, RoundedBounds
  <1>4. high \in Int /\ 2 * q <= 2 * Unit * high + Unit
    BY <1>1, RoundedBounds
  <1> HIDE DEF p, q
  <1> QED
    BY <1>1, <1>2, <1>3, <1>4, SMT DEF Unit

\* A secret that triage skips would not have been critical for the engine,
\* however much it reaches.  (It may have been high: the tables of the two
\* scorers meet at 60 for an idle token of a staging system.)
THEOREM SkippedIsNotCritical ==
    ASSUME NEW s \in Secret, Skips(s), NEW scope \in Scopes,
           NEW n \in Rounded(Points(scope, s))
    PROVE  Bucket(n) # "critical"
  <1>1. s.environment \in Environments /\ s.exposure \in Exposures /\ s.type \in SecretTypes
    BY DEF Secret
  <1>2. s.type \notin AlwaysInvestigate /\ TriageScore(s) < 20
    BY DEF Skips, SkipThreshold
  <1>3. s.type \in {"api_key", "other"}
    BY <1>1, <1>2 DEF SecretTypes, AlwaysInvestigate
  <1>4. TriageExposure(s.exposure) \in {10, 30, 60, 90}
    BY <1>1 DEF Exposures, TriageExposure
  <1>5. TriageExposure(s.exposure) < 20 /\ s.environment # "prod"
    BY <1>2, <1>4 DEF TriageScore
  <1>6. s.exposure = "inactive"
    BY <1>1, <1>5 DEF Exposures, TriageExposure
  <1>7. EnvFactor(s.environment) \in 30..60
    BY <1>1, <1>5 DEF Environments, EnvFactor
  <1>8. ExposureFactor(s) \in 10..15
    BY <1>3, <1>6 DEF ExposureFactor, ExposureBase, TypeBump
  <1> DEFINE p == Points(scope, s)
  <1>9. p \in Int
    BY PointsBounds
  <1>10. 2 * p < 159 * Unit
    BY <1>7, <1>8, SMT DEF Points, Scopes, ScopeCap, Unit
  <1>11. n \in Int /\ 2 * Unit * n <= 2 * p + Unit
    BY <1>9, RoundedBounds
  <1> HIDE DEF p
  <1>12. n < 80
    BY <1>9, <1>10, <1>11, SMT DEF Unit
  <1> QED
    BY <1>11, <1>12 DEF Bucket

\* The rows a run stores form one graph: every edge joins two of its nodes, and
\* every node but the secret's is the end of an edge.
THEOREM GraphIsConnected ==
    ASSUME NEW found \in SUBSET Resources, NEW store \in StoreChecks
    PROVE  /\ \A e \in Edges(found, store) : {e.src, e.dst} \subseteq Nodes(found, store)
           /\ \A n \in Nodes(found, store) \ {SecretNode} :
                 \E e \in Edges(found, store) : e.dst = n
  <1>1. \A e \in Edges(found, store) : {e.src, e.dst} \subseteq Nodes(found, store)
    BY DEF Edges, Edge, Nodes
  <1>2. ASSUME NEW n \in Nodes(found, store) \ {SecretNode}
        PROVE  \E e \in Edges(found, store) : e.dst = n
    <2>1. CASE n = PrincipalNode
      <3>1. Edge(SecretNode, PrincipalNode, "is_principal", "high") \in Edges(found, store)
        BY DEF Edges
      <3> QED
        BY <2>1, <3>1 DEF Edge
    <2>2. CASE \E x \in found : n = ResourceNode(x)
      <3>1. PICK x \in found : n = ResourceNode(x)
        BY <2>2
      <3>2. Edge(PrincipalNode, ResourceNode(x), "grants_access_to",
                 IF x \in Privileged THEN "high" ELSE "medium") \in Edges(found, store)
        BY DEF Edges
      <3> QED
        BY <3>1, <3>2 DEF Edge
    <2>3. CASE store # "none" /\ n = StoreNode
      <3>1. Edge(SecretNode, StoreNode, "stored_in",
                 IF store = "readable" THEN "high" ELSE "low") \in Edges(found, store)
        BY <2>3 DEF Edges
      <3> QED
        BY <2>3, <3>1 DEF Edge
    <2> QED
      BY <1>2, <2>1, <2>2, <2>3 DEF Nodes
  <1> QED
    BY <1>1, <1>2

-------------------------------------------------------------------------------
(***************************************************************************)
(* The rows.                                                               *)
(***************************************************************************)

Functions == /\ status \in [Requests -> InvestigationStatus]
             /\ trail = [i \in Requests |-> trail[i]]

\* Every step leaves the rows alone, makes one row running that nothing else
\* keeps from it, or settles one row and its last audit entry alike.
RowsKept == status' = status /\ trail' = trail

Runs(i) == /\ ~Clash(i)
           /\ status' = [status EXCEPT ![i] = "running"]
           /\ trail' = trail

Settles(i, outcome) == /\ status' = [status EXCEPT ![i] = outcome]
                       /\ trail' = [trail EXCEPT ![i] = outcome]

LEMMA StepsOfRows ==
    ASSUME [Next]_vars
    PROVE  \/ RowsKept
           \/ \E i : Runs(i) \/ Settles(i, "complete") \/ Settles(i, "error")
  <1>1. CASE UNCHANGED vars
    BY <1>1 DEF vars, dbVars, rowVars, RowsKept
  <1>2. ASSUME NEW r \in Requests, Trigger(r)
        PROVE  RowsKept \/ \E i : Runs(i)
    <2>1. CASE TriggerInsert(r)
      BY <2>1 DEF TriggerInsert, RowsKept, Runs
    <2>2. CASE TriggerCheck(r) \/ TriggerEnqueue(r) \/ TriggerRefuse(r)
      BY <2>2 DEF TriggerCheck, TriggerEnqueue, TriggerRefuse, dbVars, rowVars, RowsKept
    <2> QED
      BY <1>2, <2>1, <2>2 DEF Trigger
  <1>3. ASSUME NEW r \in Requests, RunGraph(r)
        PROVE  RowsKept
    <2>1. CASE Invoke(r)
      BY <2>1 DEF Invoke, dbVars, rowVars, RowsKept
    <2>2. ASSUME NEW from, NEW to, NEW m, NodeEnds(r, from, to, m)
          PROVE  RowsKept
      BY <2>2 DEF NodeEnds, rowVars, RowsKept
    <2>3. CASE Ingest(r)
      BY <2>2, <2>3 DEF Ingest
    <2>4. CASE BlastRadiusNode(r)
      <3>1. \E from, to, m : NodeEnds(r, from, to, m)
        BY <2>4, Zenon DEF BlastRadiusNode, NodeFails
      <3> QED
        BY <2>2, <3>1
    <2>5. CASE SeverityNode(r)
      <3>1. \E from, to, m : NodeEnds(r, from, to, m)
        BY <2>5, Zenon DEF SeverityNode, NodeFails
      <3> QED
        BY <2>2, <3>1
    <2> QED
      BY <1>3, <2>1, <2>3, <2>4, <2>5 DEF RunGraph
  <1>4. ASSUME NEW r \in Requests, RunJob(r)
        PROVE  RowsKept \/ \E i : Runs(i) \/ Settles(i, "complete") \/ Settles(i, "error")
    <2>1. CASE MarkRunning(r)
      BY <2>1 DEF MarkRunning, Runs
    <2>2. CASE PersistCommit(r)
      BY <2>2 DEF PersistCommit, Settles
    <2>3. CASE WriteError(r)
      BY <2>3 DEF WriteError, Settles
    <2>4. CASE MarkFails(r) \/ TraceFails(r) \/ PersistBegin(r) \/ PersistFails(r) \/ WriteErrorFails(r)
      BY <2>4 DEF MarkFails, TraceFails, PersistBegin, PersistFails, WriteErrorFails,
                  dbVars, rowVars, RowsKept
    <2>5. CASE Tell(r) \/ Redeliver(r) \/ GiveUp(r)
      BY <2>5 DEF Tell, Redeliver, GiveUp, dbVars, rowVars, RowsKept
    <2> QED
      BY <1>3, <1>4, <2>1, <2>2, <2>3, <2>4, <2>5 DEF RunJob
  <1>5. ASSUME NEW r \in Requests, Trouble(r)
        PROVE  RowsKept
    BY <1>5 DEF Trouble, RunStateless, Timeout, Crash, dbVars, rowVars, RowsKept
  <1> QED
    BY <1>1, <1>2, <1>4, <1>5 DEF Next

LEMMA FunctionsKept ==
    ASSUME Functions, [Next]_vars
    PROVE  Functions'
  BY StepsOfRows DEF Functions, RowsKept, Runs, Settles, InvestigationStatus

\* No interleaving of inserting requests and of jobs that reopen finished rows
\* leaves two investigations of the secret running, for any number of either.
THEOREM OneRunningAlways == Spec => []OneRunning
  <1>1. Init => Functions /\ OneRunning
    BY DEF Init, Functions, OneRunning, RunningRow, InvestigationStatus
  <1>2. Functions /\ OneRunning /\ [Next]_vars => Functions' /\ OneRunning'
    <2> SUFFICES ASSUME Functions, OneRunning, [Next]_vars
                 PROVE  OneRunning'
      BY FunctionsKept
    <2>1. CASE RowsKept
      BY <2>1 DEF RowsKept, OneRunning, RunningRow
    <2>2. ASSUME NEW i, Runs(i)
          PROVE  OneRunning'
      BY <2>2 DEF Runs, Clash, Functions, OneRunning, RunningRow
    <2>3. ASSUME NEW i, NEW outcome \in {"complete", "error"}, Settles(i, outcome)
          PROVE  OneRunning'
      BY <2>3 DEF Settles, Functions, OneRunning, RunningRow
    <2> QED
      BY <2>1, <2>2, <2>3, StepsOfRows
  <1> QED
    BY <1>1, <1>2, PTL DEF Spec

\* The audit trail never disagrees with the row of a finished investigation,
\* whatever jobs reopen, complete and fail it.
THEOREM TrailAgrees == Spec => []StatusMatchesTrail
  <1>1. Init => Functions /\ StatusMatchesTrail
    BY DEF Init, Functions, StatusMatchesTrail, InvestigationStatus
  <1>2. Functions /\ StatusMatchesTrail /\ [Next]_vars => Functions' /\ StatusMatchesTrail'
    <2> SUFFICES ASSUME Functions, StatusMatchesTrail, [Next]_vars
                 PROVE  StatusMatchesTrail'
      BY FunctionsKept
    <2>1. CASE RowsKept
      BY <2>1 DEF RowsKept, StatusMatchesTrail
    <2>2. ASSUME NEW i, Runs(i)
          PROVE  StatusMatchesTrail'
      BY <2>2 DEF Runs, Clash, Functions, StatusMatchesTrail
    <2>3. ASSUME NEW i, NEW outcome \in {"complete", "error"}, Settles(i, outcome)
          PROVE  StatusMatchesTrail'
      BY <2>3 DEF Settles, Functions, StatusMatchesTrail
    <2> QED
      BY <2>1, <2>2, <2>3, StepsOfRows
  <1> QED
    BY <1>1, <1>2, PTL DEF Spec
===============================================================================
