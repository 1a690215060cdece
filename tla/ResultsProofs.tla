----------------------------- MODULE ResultsProofs ------------------------------
(***************************************************************************)
(* Theorems about what investigations store, for every number of requests, *)
(* every set of resources and policies and every fault: which row is the   *)
(* newest, what a stored score and a coverage follow from, and when the    *)
(* two copies of the score agree.                                          *)
(***************************************************************************)
EXTENDS InvestigationProofs, FiniteSetTheorems

Typed ==
    /\ secret \in Secret
    /\ status \in [Requests -> InvestigationStatus]
    /\ trail \in [Requests -> {"none", "complete", "error"}]
    /\ coverage = [i \in Requests |-> coverage[i]]
    /\ saved \in [Requests -> State] /\ mem \in [Requests -> State]
    /\ saver \in [Requests -> BOOLEAN]
    /\ order \subseteq Requests \X Requests /\ open \subseteq Requests \X Requests
    /\ late \subseteq Requests /\ overtaken \subseteq Requests /\ abandoned \subseteq Requests
    /\ shown \in Score0 /\ latest \in Score0
    /\ request \in [Requests -> {"idle", "checked", "inserted", "answered", "refused"}]
    /\ pc \in [Requests -> Pc] /\ target \in [Requests -> Requests \cup {None}]

\* A job has an investigation, whose row there is.
HasTarget ==
    \A r \in Requests : pc[r] \notin {"idle", "gone"} =>
        target[r] \in Requests /\ status[target[r]] # "absent"

Shape == Typed /\ HasTarget

-------------------------------------------------------------------------------
(***************************************************************************)
(* Scores and what is found.                                               *)
(***************************************************************************)

LEMMA LogTyped == ASSUME NEW n \in Nat PROVE Log2Succ(n) \subseteq Scopes
<1>1. CASE n \in 0..7
  BY <1>1 DEF Log2Succ, Scopes, ScopeCap
<1>2. CASE n \in 8..126
  <2>1. CASE n \in 8..14
    BY <2>1 DEF Log2Succ, Scopes, ScopeCap
  <2>2. CASE n \in 15..30
    BY <2>2 DEF Log2Succ, Scopes, ScopeCap
  <2>3. CASE n \in 31..62
    BY <2>3 DEF Log2Succ, Scopes, ScopeCap
  <2>4. CASE n \in 63..126
    BY <2>4 DEF Log2Succ, Scopes, ScopeCap
  <2> QED
    BY <1>2, <2>1, <2>2, <2>3, <2>4
<1>3. CASE n >= 127
  BY <1>3 DEF Log2Succ, Scopes, ScopeCap
<1> QED
  BY <1>1, <1>2, <1>3

LEMMA ScoreTyped ==
    ASSUME NEW n \in Nat, NEW s \in Secret
    PROVE  Score(n, s) \subseteq 0..100
BY LogTyped, ScoreInRange DEF Score

LEMMA Counted ==
    ASSUME NEW found \in SUBSET Resources
    PROVE  IsFiniteSet(found) /\ Cardinality(found) \in Nat /\ Effective(found) \in Nat
<1>1. IsFiniteSet(Resources)
  BY BlastRadiusAssumption
<1>2. IsFiniteSet(found) /\ IsFiniteSet(found \cap Privileged)
  <2>1. found \cap Privileged \in SUBSET Resources
    OBVIOUS
  <2> QED
    BY <1>1, <2>1, FS_Subset
<1>3. Cardinality(found) \in Nat /\ Cardinality(found \cap Privileged) \in Nat
  BY <1>2, FS_CardinalityType
<1> QED
  BY <1>2, <1>3 DEF Effective

LEMMA CountsNothing == Effective({}) = 0
<1>1. {} \cap Privileged = {}
  OBVIOUS
<1>2. Cardinality({}) = 0
  BY FS_EmptySet
<1> QED
  BY <1>1, <1>2 DEF Effective

\* An enumeration returns resources; it may return none, or all of them.
LEMMA Enumerated ==
    /\ \A found \in Enumerations : found \in SUBSET Resources
    /\ {} \in Enumerations /\ Reach \in Enumerations
<1>1. \A found \in Enumerations : found \in SUBSET Resources
  BY BlastRadiusAssumption DEF Enumerations
<1>2. {} \in Enumerations
  <2>1. UNION {} = {} /\ {} \in SUBSET Policies
    OBVIOUS
  <2> QED
    BY <2>1 DEF Enumerations
<1>3. Reach \in Enumerations
  BY DEF Enumerations, Reach
<1> QED
  BY <1>1, <1>2, <1>3

-------------------------------------------------------------------------------
(***************************************************************************)
(* The state of a run.                                                     *)
(***************************************************************************)

FoundOf(m) == IF m.found = None THEN {} ELSE m.found

\* What is in a run's state has been enumerated, and its severity follows from
\* that, or from what an earlier run of the thread has enumerated.
Sound(m) ==
    /\ m \in State /\ FoundOf(m) \in Enumerations
    /\ m.severity \in {None, 0} \/
          \E found \in Enumerations : m.severity \in Score(Effective(found), secret)
    /\ m.scored => m.severity = 0 \/ m.severity \in Score(Effective(FoundOf(m)), secret)

MemInv ==
    \A r \in Requests :
        /\ Sound(mem[r]) /\ Sound(saved[r]) /\ ~saved[r].scored
        /\ pc[r] \in GraphPcs => ~mem[r].scored

LEMMA EmptySound == Sound(Empty) /\ ~Empty.scored
BY Enumerated DEF Sound, Empty, State, Score0, FoundOf

LEMMA ScoresSound ==
    ASSUME NEW m, Sound(m), secret \in Secret, NEW score \in Scores(m)
    PROVE  /\ score \in 0..100
           /\ score = 0 \/ score \in Score(Effective(FoundOf(m)), secret)
<1>1. FoundOf(m) \in SUBSET Resources /\ Effective(FoundOf(m)) \in Nat
  BY Enumerated, Counted DEF Sound
<1>2. score = 0 \/ score \in Score(Effective(FoundOf(m)), secret)
  BY CountsNothing DEF Scores, FoundOf
<1>3. Score(Effective(FoundOf(m)), secret) \subseteq 0..100
  BY <1>1, ScoreTyped
<1> QED
  BY <1>2, <1>3

LEMMA ContextSound ==
    ASSUME NEW m, Sound(m)
    PROVE  /\ Sound([m EXCEPT !.context = TRUE])
           /\ [m EXCEPT !.context = TRUE].scored = m.scored
BY DEF Sound, State, FoundOf

LEMMA FoundSound ==
    ASSUME NEW m, Sound(m), ~m.scored, NEW found \in Enumerations
    PROVE  /\ Sound([m EXCEPT !.found = found])
           /\ ~[m EXCEPT !.found = found].scored
<1>1. found \in SUBSET Resources
  BY Enumerated
<1>2. m \in State
  BY DEF Sound
<1>3. /\ [m EXCEPT !.found = found] \in State
      /\ [m EXCEPT !.found = found].found = found
      /\ [m EXCEPT !.found = found].severity = m.severity
      /\ [m EXCEPT !.found = found].scored = m.scored
  BY <1>1, <1>2 DEF State
<1> QED
  BY <1>3, Enumerated DEF Sound, FoundOf

LEMMA SeveritySound ==
    ASSUME NEW m, Sound(m), secret \in Secret, NEW score \in Scores(m)
    PROVE  Sound([m EXCEPT !.severity = score, !.scored = TRUE])
<1> DEFINE n == [m EXCEPT !.severity = score, !.scored = TRUE]
<1>1. m \in State /\ score \in Score0
  BY ScoresSound DEF Sound, Score0
<1>2. n \in State /\ n.found = m.found /\ n.severity = score
  BY <1>1 DEF State
<1>3. FoundOf(n) = FoundOf(m)
  BY <1>2 DEF FoundOf
<1>4. score = 0 \/ score \in Score(Effective(FoundOf(m)), secret)
  BY ScoresSound
<1>5. FoundOf(m) \in Enumerations
  BY DEF Sound
<1> HIDE DEF n
<1>6. \/ n.severity \in {None, 0}
      \/ \E found \in Enumerations : n.severity \in Score(Effective(found), secret)
  BY <1>2, <1>4, <1>5
<1>7. n.severity = 0 \/ n.severity \in Score(Effective(FoundOf(n)), secret)
  BY <1>2, <1>3, <1>4
<1>8. Sound(n)
  BY <1>2, <1>3, <1>5, <1>6, <1>7, Zenon DEF Sound
<1> QED
  BY <1>8 DEF n

LEMMA UnscoredSound ==
    ASSUME NEW m, Sound(m)
    PROVE  /\ Sound([m EXCEPT !.scored = FALSE])
           /\ ~[m EXCEPT !.scored = FALSE].scored
BY DEF Sound, State, FoundOf

\* A node ends with a sound state, which is not scored before the last one.
LEMMA NodeResults ==
    ASSUME secret \in Secret, NEW r \in Requests, Sound(mem[r]),
           pc[r] \in GraphPcs => ~mem[r].scored,
           Ingest(r) \/ BlastRadiusNode(r) \/ SeverityNode(r)
    PROVE  \E from \in GraphPcs, to \in {"blast_radius", "severity", "persist"} : \E m :
              NodeEnds(r, from, to, m) /\ Sound(m) /\ (to # "persist" => ~m.scored)
<1>0. ASSUME NEW from \in GraphPcs, NEW to, NEW m, NodeEnds(r, from, to, m)
      PROVE  ~mem[r].scored
  BY <1>0 DEF NodeEnds, Goto
<1>1. CASE Ingest(r)
  <2>1. PICK m \in {[mem[r] EXCEPT !.context = TRUE], mem[r]} :
             NodeEnds(r, "ingest", Triage(m), m)
    BY <1>1 DEF Ingest
  <2>2. "ingest" \in GraphPcs /\ Triage(m) \in {"blast_radius", "persist"}
    BY DEF GraphPcs, Triage
  <2>3. Sound(m) /\ ~m.scored
    BY <1>0, <2>1, <2>2, ContextSound
  <2> QED
    BY <2>1, <2>2, <2>3
<1>2. CASE BlastRadiusNode(r)
  <2>1. "blast_radius" \in GraphPcs
    BY DEF GraphPcs
  <2>2. CASE NodeFails(r, "blast_radius", "severity")
    BY <1>0, <2>1, <2>2 DEF NodeFails
  <2>3. CASE \E found \in Enumerations :
                NodeEnds(r, "blast_radius", "severity",
                         IF mem[r].context THEN [mem[r] EXCEPT !.found = found] ELSE mem[r])
    <3>1. PICK found \in Enumerations :
               NodeEnds(r, "blast_radius", "severity",
                        IF mem[r].context THEN [mem[r] EXCEPT !.found = found] ELSE mem[r])
      BY <2>3
    <3> DEFINE m == IF mem[r].context THEN [mem[r] EXCEPT !.found = found] ELSE mem[r]
    <3>2. ~mem[r].scored
      BY <1>0, <2>1, <3>1
    <3>3. Sound(m) /\ ~m.scored
      BY <3>2, FoundSound
    <3> HIDE DEF m
    <3>4. NodeEnds(r, "blast_radius", "severity", m)
      BY <3>1 DEF m
    <3> QED
      BY <2>1, <3>3, <3>4
  <2> QED
    BY <1>2, <2>2, <2>3, Enumerated DEF BlastRadiusNode
<1>3. CASE SeverityNode(r)
  <2>1. "severity" \in GraphPcs
    BY DEF GraphPcs
  <2>2. CASE NodeFails(r, "severity", "persist")
    BY <2>1, <2>2 DEF NodeFails
  <2>3. CASE \E score \in Scores(mem[r]) :
                NodeEnds(r, "severity", "persist",
                         [mem[r] EXCEPT !.severity = score, !.scored = TRUE])
    BY <2>1, <2>3, SeveritySound
  <2> QED
    BY <1>3, <2>2, <2>3 DEF SeverityNode
<1> QED
  BY <1>1, <1>2, <1>3

-------------------------------------------------------------------------------
(***************************************************************************)
(* Types.                                                                  *)
(***************************************************************************)

LEMMA PlacedTyped ==
    ASSUME NEW q \in SUBSET (Requests \X Requests), NEW x \in Requests, NEW S \in SUBSET Requests
    PROVE  /\ PutLast(q, x, S) \in SUBSET (Requests \X Requests)
           /\ Without(q, x) \in SUBSET (Requests \X Requests)
BY DEF PutLast, Without

\* The job goes on from where it has its investigation, or it is over.
LEMMA TargetsKept ==
    ASSUME Shape, NEW r \in Requests, pc[r] \notin {"idle", "gone"},
           NEW p, pc' = [pc EXCEPT ![r] = p],
           \/ target' = target
           \/ p = "gone" /\ target' = [target EXCEPT ![r] = None],
           \A i \in Requests : status[i] # "absent" => status'[i] # "absent"
    PROVE  HasTarget'
BY DEF Shape, Typed, HasTarget

LEMMA NodeTyped ==
    ASSUME Shape, NEW r \in Requests, NEW from \in GraphPcs,
           NEW to \in {"blast_radius", "severity", "persist"}, NEW m \in State,
           NodeEnds(r, from, to, m)
    PROVE  Shape'
<1>1. [m EXCEPT !.scored = FALSE] \in State
  BY DEF State
<1>2. pc[r] = from /\ target[r] \in Requests
  BY DEF NodeEnds, Goto, Shape, HasTarget, GraphPcs
<1>3. saved' \in [Requests -> State] /\ mem' \in [Requests -> State]
  BY <1>1, <1>2 DEF NodeEnds, Shape, Typed
<1>4. pc' \in [Requests -> Pc]
  BY DEF NodeEnds, Goto, Shape, Typed, Pc, RunPcs, GraphPcs
<1>5. saver' \in [Requests -> BOOLEAN]
  <2>1. (saver[r] /\ to # "persist") \in BOOLEAN
    OBVIOUS
  <2> QED
    BY <2>1 DEF NodeEnds, Shape, Typed
<1>6. UNCHANGED <<secret, rowVars, resultVars, trail, txVars, request, target, historyVars>>
  BY DEF NodeEnds
<1>7. Typed'
  BY <1>3, <1>4, <1>5, <1>6 DEF Shape, Typed, rowVars, resultVars, txVars, historyVars
<1>8. HasTarget'
  BY <1>2, <1>6, TargetsKept DEF NodeEnds, Goto, rowVars, GraphPcs
<1> QED
  BY <1>7, <1>8 DEF Shape

LEMMA TriggerTyped ==
    ASSUME Shape, NEW r \in Requests, Trigger(r)
    PROVE  Shape'
<1> USE DEF Shape, Typed
<1>1. CASE TriggerCheck(r)
  <2>1. order' \subseteq Requests \X Requests
    BY <1>1, PlacedTyped DEF TriggerCheck, Started
  <2>2. Typed'
    BY <1>1, <2>1 DEF TriggerCheck, resultVars, txVars, memVars, historyVars
  <2> QED
    BY <1>1, <2>2 DEF TriggerCheck, HasTarget
<1>2. CASE TriggerInsert(r)
  <2>1. order' \subseteq Requests \X Requests /\ overtaken' \subseteq Requests
    <3>1. Without(order, r) \subseteq Requests \X Requests
      BY PlacedTyped
    <3>2. \/ order' = order \/ order' = Without(order, r)
      BY <1>2 DEF TriggerInsert
    <3>3. overtaken' \in {overtaken, overtaken \cup {r}}
      BY <1>2 DEF TriggerInsert
    <3> QED
      BY <3>1, <3>2, <3>3
  <2>2. status' \in [Requests -> InvestigationStatus]
        /\ \A i \in Requests : status[i] # "absent" => status'[i] # "absent"
    BY <1>2 DEF TriggerInsert, InvestigationStatus
  <2>3. Typed'
    BY <1>2, <2>1, <2>2 DEF TriggerInsert, resultVars, txVars, memVars
  <2> QED
    BY <1>2, <2>2, <2>3 DEF TriggerInsert, HasTarget
<1>3. CASE TriggerEnqueue(r)
  <2>1. PICK k \in Requests :
            /\ Selected(k)
            /\ request' = [request EXCEPT ![r] = "answered"]
            /\ \/ /\ pc' = [pc EXCEPT ![r] = "queued"]
                  /\ target' = [target EXCEPT ![r] = k]
                  /\ abandoned' = (abandoned \ {k})
                        \cup IF RunningRow(r) /\ r # k THEN {r} ELSE {}
               \/ /\ abandoned' = abandoned \cup {i \in {r, k} : RunningRow(i)}
                  /\ UNCHANGED <<pc, target>>
    BY <1>3 DEF TriggerEnqueue
  <2>2. UNCHANGED <<dbVars, memVars, overtaken>>
    BY <1>3 DEF TriggerEnqueue
  <2>3. Typed'
    BY <2>1, <2>2 DEF dbVars, rowVars, resultVars, txVars, memVars, Pc
  <2>4. status[k] # "absent" /\ status' = status
    BY <2>1, <2>2 DEF Selected, Eligible, dbVars, rowVars
  <2>5. HasTarget'
    BY <2>1, <2>4 DEF HasTarget
  <2> QED
    BY <2>3, <2>5
<1>4. CASE TriggerRefuse(r)
  <2>1. Typed'
    BY <1>4 DEF TriggerRefuse, dbVars, rowVars, resultVars, txVars, memVars, historyVars
  <2> QED
    BY <1>4, <2>1 DEF TriggerRefuse, HasTarget, dbVars, rowVars
<1> QED
  BY <1>1, <1>2, <1>3, <1>4 DEF Trigger

LEMMA ForgetTyped ==
    ASSUME Shape, NEW r \in Requests, Forget(r)
    PROVE  /\ mem' \in [Requests -> State] /\ saver' \in [Requests -> BOOLEAN]
           /\ open' \subseteq Requests \X Requests
BY PlacedTyped, EmptySound DEF Shape, Typed, Forget, Sound

LEMMA JobTyped ==
    ASSUME Shape, NEW r \in Requests, RunJob(r), ~RunGraph(r)
    PROVE  Shape'
<1> USE DEF Shape, Typed, Goto
<1>1. CASE MarkRunning(r)
  <2>1. pc[r] = "queued" /\ target[r] \in Requests
    BY <1>1 DEF MarkRunning, HasTarget
  <2>2. order' \subseteq Requests \X Requests
    BY <1>1, <2>1, PlacedTyped DEF MarkRunning, Started
  <2>3. Typed'
    BY <1>1, <2>1, <2>2
    DEF MarkRunning, resultVars, txVars, memVars, InvestigationStatus, Pc, RunPcs
  <2> QED
    BY <1>1, <2>1, <2>3, TargetsKept DEF MarkRunning
<1>2. CASE MarkFails(r) \/ TraceFails(r) \/ Redeliver(r)
  <2>1. Typed'
    BY <1>2 DEF MarkFails, TraceFails, Redeliver, dbVars, rowVars, resultVars, txVars, memVars,
                historyVars, Pc, RunPcs
  <2> QED
    BY <1>2, <2>1, TargetsKept DEF MarkFails, TraceFails, Redeliver, dbVars, rowVars
<1>3. CASE PersistBegin(r)
  <2>1. open' \subseteq Requests \X Requests
    BY <1>3, PlacedTyped DEF PersistBegin, Persisting
  <2>2. Typed'
    BY <1>3, <2>1 DEF PersistBegin, rowVars, resultVars, memVars, Pc, RunPcs
  <2> QED
    BY <1>3, <2>2, TargetsKept DEF PersistBegin, rowVars
<1>4. CASE PersistCommit(r)
  <2>1. /\ mem' \in [Requests -> State] /\ saver' \in [Requests -> BOOLEAN]
        /\ open' \subseteq Requests \X Requests
    BY <1>4, ForgetTyped DEF PersistCommit
  <2>2. shown' \in Score0 /\ latest' \in Score0 /\ late' \subseteq Requests
    <3>1. mem[r].severity \in Score0
      BY DEF State
    <3> QED
      BY <1>4, <3>1 DEF PersistCommit, WriteSeverity
  <2>3. target[r] \in Requests
    BY <1>4 DEF PersistCommit, HasTarget
  <2>4. Typed'
    BY <1>4, <2>1, <2>2, <2>3 DEF PersistCommit, InvestigationStatus, Pc, RunPcs
  <2> QED
    BY <1>4, <2>3, <2>4, TargetsKept DEF PersistCommit
<1>5. CASE PersistFails(r)
  <2>1. /\ mem' \in [Requests -> State] /\ saver' \in [Requests -> BOOLEAN]
        /\ open' \subseteq Requests \X Requests
    BY <1>5, ForgetTyped DEF PersistFails
  <2>2. Typed'
    BY <1>5, <2>1 DEF PersistFails, rowVars, resultVars, historyVars, Pc, RunPcs
  <2> QED
    BY <1>5, <2>2, TargetsKept DEF PersistFails, rowVars
<1>6. CASE WriteError(r)
  <2>1. target[r] \in Requests
    BY <1>6 DEF WriteError, HasTarget
  <2>2. Typed'
    BY <1>6, <2>1 DEF WriteError, resultVars, txVars, memVars, historyVars, InvestigationStatus,
                      Pc, RunPcs
  <2> QED
    BY <1>6, <2>1, <2>2, TargetsKept DEF WriteError
<1>7. CASE WriteErrorFails(r)
  <2>1. target[r] \in Requests
    BY <1>7 DEF WriteErrorFails, HasTarget
  <2>2. Typed'
    BY <1>7, <2>1 DEF WriteErrorFails, LetGo, dbVars, rowVars, resultVars, txVars, memVars, Pc,
                      RunPcs
  <2> QED
    BY <1>7, <2>2, TargetsKept DEF WriteErrorFails, dbVars, rowVars
<1>8. CASE Tell(r)
  <2>1. Typed'
    BY <1>8 DEF Tell, Leave, dbVars, rowVars, resultVars, txVars, memVars, historyVars, Pc
  <2> QED
    BY <1>8, <2>1, TargetsKept DEF Tell, Leave, dbVars, rowVars
<1>9. CASE GiveUp(r)
  <2>1. target[r] \in Requests
    BY <1>9 DEF GiveUp, HasTarget
  <2>2. Typed'
    BY <1>9, <2>1 DEF GiveUp, Leave, LetGo, dbVars, rowVars, resultVars, txVars, memVars, Pc
  <2> QED
    BY <1>9, <2>2, TargetsKept DEF GiveUp, Leave, dbVars, rowVars
<1> QED
  BY <1>1, <1>2, <1>3, <1>4, <1>5, <1>6, <1>7, <1>8, <1>9 DEF RunJob

LEMMA TroubleTyped ==
    ASSUME Shape, NEW r \in Requests, Trouble(r)
    PROVE  Shape'
<1> USE DEF Shape, Typed
<1>1. CASE RunStateless(r)
  <2>1. pc[r] \notin {"idle", "gone"} /\ UNCHANGED <<dbVars, target>>
    BY <1>1 DEF RunStateless, GraphPcs
  <2>2. Typed'
    BY <1>1, EmptySound DEF RunStateless, Sound, dbVars, rowVars, resultVars, txVars, Pc, RunPcs,
                            GraphPcs
  <2> QED
    BY <1>1, <2>1, <2>2, TargetsKept DEF RunStateless, dbVars, rowVars
<1>2. CASE Timeout(r)
  <2>1. /\ mem' \in [Requests -> State] /\ saver' \in [Requests -> BOOLEAN]
        /\ open' \subseteq Requests \X Requests
    BY <1>2, ForgetTyped DEF Timeout
  <2>2. pc[r] \notin {"idle", "gone"} /\ target[r] \in Requests
    BY <1>2 DEF Timeout, RunPcs, GraphPcs, HasTarget
  <2>3. Typed'
    BY <1>2, <2>1, <2>2 DEF Timeout, Leave, LetGo, rowVars, resultVars, Pc
  <2> QED
    BY <1>2, <2>2, <2>3, TargetsKept DEF Timeout, Leave, rowVars
<1>3. CASE Crash(r)
  <2>1. /\ mem' \in [Requests -> State] /\ saver' \in [Requests -> BOOLEAN]
        /\ open' \subseteq Requests \X Requests
    BY <1>3, ForgetTyped DEF Crash
  <2>2. pc[r] \notin {"idle", "gone"}
    BY <1>3 DEF Crash, RunPcs, GraphPcs
  <2>3. Typed'
    BY <1>3, <2>1 DEF Crash, rowVars, resultVars, Pc
  <2> QED
    BY <1>3, <2>2, <2>3, TargetsKept DEF Crash, rowVars
<1> QED
  BY <1>1, <1>2, <1>3 DEF Trouble

LEMMA InvokeTyped ==
    ASSUME Shape, NEW r \in Requests, Invoke(r)
    PROVE  Shape'
<1>1. pc[r] = "invoke" /\ target[r] \in Requests
  BY DEF Invoke, Goto, Shape, HasTarget
<1>2. Typed'
  BY <1>1 DEF Shape, Typed, Invoke, Goto, dbVars, rowVars, resultVars, txVars, historyVars, Pc,
              RunPcs, GraphPcs
<1> QED
  BY <1>1, <1>2, TargetsKept DEF Shape, Invoke, Goto, dbVars, rowVars

LEMMA KeepsShape ==
    ASSUME Shape, MemInv, Next
    PROVE  Shape'
<1>1. PICK r \in Requests : Trigger(r) \/ RunJob(r) \/ Trouble(r)
  BY DEF Next
<1>2. ASSUME Ingest(r) \/ BlastRadiusNode(r) \/ SeverityNode(r)
      PROVE  Shape'
  BY <1>2, NodeResults, NodeTyped DEF MemInv, Shape, Typed, Sound
<1> QED
  BY <1>1, <1>2, TriggerTyped, JobTyped, TroubleTyped, InvokeTyped DEF RunGraph

-------------------------------------------------------------------------------
(***************************************************************************)
(* The state of a run stays sound.                                         *)
(***************************************************************************)

LEMMA IsNode ==
    ASSUME NEW r \in Requests, Ingest(r) \/ BlastRadiusNode(r) \/ SeverityNode(r)
    PROVE  \E from, to, m : NodeEnds(r, from, to, m)
<1>1. CASE Ingest(r)
  BY <1>1, Zenon DEF Ingest
<1>2. CASE BlastRadiusNode(r)
  BY <1>2, Zenon DEF BlastRadiusNode, NodeFails
<1>3. CASE SeverityNode(r)
  BY <1>3, Zenon DEF SeverityNode, NodeFails
<1> QED
  BY <1>1, <1>2, <1>3

\* A node writes nothing but the state of its run.
LEMMA NodeKeeps ==
    ASSUME NEW r \in Requests, Ingest(r) \/ BlastRadiusNode(r) \/ SeverityNode(r)
    PROVE  UNCHANGED <<secret, rowVars, resultVars, trail, txVars, request, target, historyVars>>
BY IsNode DEF NodeEnds

LEMMA SecretKept == ASSUME [Next]_vars PROVE secret' = secret
<1>1. ASSUME NEW r \in Requests, Ingest(r) \/ BlastRadiusNode(r) \/ SeverityNode(r)
      PROVE  secret' = secret
  BY <1>1, NodeKeeps
<1>2. ASSUME NEW r \in Requests, Trigger(r) \/ Trouble(r)
      PROVE  secret' = secret
  BY <1>2 DEF Trigger, TriggerCheck, TriggerInsert, TriggerEnqueue, TriggerRefuse, Trouble,
              RunStateless, Timeout, Crash, dbVars
<1>3. ASSUME NEW r \in Requests, RunJob(r), ~RunGraph(r) \/ Invoke(r)
      PROVE  secret' = secret
  BY <1>3 DEF RunJob, RunGraph, Invoke, MarkRunning, MarkFails, TraceFails, PersistBegin,
              PersistCommit, PersistFails, WriteError, WriteErrorFails, Tell, Redeliver, GiveUp,
              dbVars
<1>4. UNCHANGED vars => secret' = secret
  BY DEF vars, dbVars
<1> QED
  BY <1>1, <1>2, <1>3, <1>4 DEF Next, RunGraph

LEMMA SoundKept ==
    ASSUME secret' = secret, NEW m, Sound(m)
    PROVE  Sound(m)'
BY DEF Sound, FoundOf

\* The run's state becomes m, which the checkpointer may save.
LEMMA MemStep ==
    ASSUME Shape, MemInv, secret' = secret, NEW r \in Requests, NEW m, Sound(m),
           mem' = [mem EXCEPT ![r] = m],
           \/ saved' = saved
           \/ \E t \in Requests : saved' = [saved EXCEPT ![t] = [m EXCEPT !.scored = FALSE]],
           \A q \in Requests \ {r} : pc'[q] = pc[q],
           pc'[r] \in GraphPcs => ~m.scored
    PROVE  MemInv'
<1> SUFFICES ASSUME NEW q \in Requests
             PROVE  /\ Sound(mem'[q]) /\ Sound(saved'[q]) /\ ~saved'[q].scored
                    /\ pc'[q] \in GraphPcs => ~mem'[q].scored
  BY SoundKept DEF MemInv
<1> DEFINE n == [m EXCEPT !.scored = FALSE]
<1>1. Sound(n) /\ ~n.scored
  BY UnscoredSound
<1>2. saved' = saved \/ \E t \in Requests : saved' = [saved EXCEPT ![t] = n]
  OBVIOUS
<1>3. n \in State /\ m \in State
  BY <1>1 DEF Sound
<1> HIDE DEF n
<1>4. saved'[q] = saved[q] \/ saved'[q] = n
  BY <1>2, <1>3 DEF Shape, Typed
<1>5. IF q = r THEN mem'[q] = m ELSE mem'[q] = mem[q] /\ pc'[q] = pc[q]
  BY DEF Shape, Typed
<1> QED
  BY <1>1, <1>4, <1>5 DEF MemInv

\* Only the graph writes the state of a run.
LEMMA MemSame ==
    ASSUME Shape, MemInv, secret' = secret, NEW r \in Requests,
           mem' = mem \/ mem' = [mem EXCEPT ![r] = Empty], saved' = saved,
           \A q \in Requests \ {r} : pc'[q] = pc[q],
           pc'[r] = pc[r] \/ pc'[r] \notin GraphPcs
    PROVE  MemInv'
<1>1. CASE mem' = mem
  <2> SUFFICES ASSUME NEW q \in Requests
               PROVE  /\ Sound(mem[q]) /\ Sound(saved[q]) /\ ~saved[q].scored
                      /\ pc'[q] \in GraphPcs => ~mem[q].scored
    BY <1>1, SoundKept DEF MemInv
  <2> QED
    BY DEF MemInv
<1>2. CASE mem' = [mem EXCEPT ![r] = Empty]
  BY <1>2, MemStep, EmptySound
<1> QED
  BY <1>1, <1>2

LEMMA KeepsMem ==
    ASSUME Shape, MemInv, Next
    PROVE  MemInv'
<1>0. secret' = secret
  BY SecretKept
<1>1. PICK r \in Requests : Trigger(r) \/ RunJob(r) \/ Trouble(r)
  BY DEF Next
<1>2. pc \in [Requests -> Pc] /\ saved \in [Requests -> State]
  BY DEF Shape, Typed
<1>3. CASE Trigger(r)
  <2>1. mem' = mem /\ saved' = saved
    BY <1>3 DEF Trigger, TriggerCheck, TriggerInsert, TriggerEnqueue, TriggerRefuse, dbVars, memVars
  <2>2. pc' = pc \/ pc' = [pc EXCEPT ![r] = "queued"]
    BY <1>3 DEF Trigger, TriggerCheck, TriggerInsert, TriggerEnqueue, TriggerRefuse
  <2>3. "queued" \notin GraphPcs
    BY DEF GraphPcs
  <2> QED
    BY <1>0, <1>2, <2>1, <2>2, <2>3, MemSame
<1>4. CASE Ingest(r) \/ BlastRadiusNode(r) \/ SeverityNode(r)
  <2>0. PICK from \in GraphPcs, to \in {"blast_radius", "severity", "persist"} : \E m :
             NodeEnds(r, from, to, m) /\ Sound(m) /\ (to # "persist" => ~m.scored)
    BY <1>4, NodeResults DEF MemInv, Shape, Typed
  <2>1. PICK m : NodeEnds(r, from, to, m) /\ Sound(m) /\ (to # "persist" => ~m.scored)
    BY <2>0
  <2>2. target[r] \in Requests
    BY <2>1 DEF NodeEnds, Goto, Shape, HasTarget, GraphPcs
  <2>3. /\ mem' = [mem EXCEPT ![r] = m] /\ pc' = [pc EXCEPT ![r] = to]
        /\ \/ saved' = saved
           \/ saved' = [saved EXCEPT ![target[r]] = [m EXCEPT !.scored = FALSE]]
    BY <2>1 DEF NodeEnds, Goto
  <2>4. pc'[r] \in GraphPcs => ~m.scored
    BY <1>2, <2>1, <2>3 DEF GraphPcs
  <2>5. \A q \in Requests \ {r} : pc'[q] = pc[q]
    BY <1>2, <2>3
  <2> QED
    BY <1>0, <2>1, <2>2, <2>3, <2>4, <2>5, MemStep
<1>5. CASE Invoke(r)
  <2>1. target[r] \in Requests /\ mem' = [mem EXCEPT ![r] = saved[target[r]]] /\ saved' = saved
    BY <1>5 DEF Invoke, Goto, Shape, HasTarget, dbVars
  <2>2. \A q \in Requests \ {r} : pc'[q] = pc[q]
    BY <1>5, <1>2 DEF Invoke, Goto
  <2>3. Sound(saved[target[r]]) /\ ~saved[target[r]].scored
    BY <2>1 DEF MemInv
  <2> QED
    BY <1>0, <2>1, <2>2, <2>3, MemStep
<1>6. CASE RunJob(r) /\ ~RunGraph(r)
  <2>1. saved' = saved /\ (mem' = mem \/ mem' = [mem EXCEPT ![r] = Empty])
    BY <1>6 DEF RunJob, MarkRunning, MarkFails, TraceFails, PersistBegin, PersistCommit,
                PersistFails, WriteError, WriteErrorFails, Tell, Redeliver, GiveUp, Forget,
                dbVars, memVars
  <2>2. \E p \in {"invoke", "failed", "commit", "tell", "gone", "queued"} :
            pc' = [pc EXCEPT ![r] = p]
    BY <1>6 DEF RunJob, MarkRunning, MarkFails, TraceFails, PersistBegin, PersistCommit,
                PersistFails, WriteError, WriteErrorFails, Tell, Redeliver, GiveUp, Goto, Leave
  <2>3. pc'[r] \notin GraphPcs /\ \A q \in Requests \ {r} : pc'[q] = pc[q]
    BY <1>2, <2>2 DEF GraphPcs
  <2> QED
    BY <1>0, <2>1, <2>3, MemSame
<1>7. CASE RunStateless(r)
  <2>1. saved' = saved /\ mem' = [mem EXCEPT ![r] = Empty]
    BY <1>7 DEF RunStateless, dbVars
  <2>2. \A q \in Requests \ {r} : pc'[q] = pc[q]
    BY <1>7, <1>2 DEF RunStateless
  <2> QED
    BY <1>0, <2>1, <2>2, MemStep, EmptySound
<1>8. CASE Timeout(r) \/ Crash(r)
  <2>1. saved' = saved /\ mem' = [mem EXCEPT ![r] = Empty]
    BY <1>8 DEF Timeout, Crash, Forget
  <2>2. \A q \in Requests \ {r} : pc'[q] = pc[q]
    BY <1>8, <1>2 DEF Timeout, Crash, Leave
  <2> QED
    BY <1>0, <2>1, <2>2, MemStep, EmptySound
<1> QED
  BY <1>1, <1>3, <1>4, <1>5, <1>6, <1>7, <1>8 DEF RunGraph, Trouble

LEMMA Starts == Init => Shape /\ MemInv
<1> SUFFICES ASSUME Init
             PROVE  Shape /\ MemInv
  OBVIOUS
<1>1. Empty \in State /\ Sound(Empty) /\ ~Empty.scored
  BY EmptySound DEF Sound
<1>2. secret \in Secret
  BY InvestigationAssumption DEF Init
<1>3. Typed
  BY <1>1, <1>2 DEF Init, Typed, InvestigationStatus, Score0, Pc
<1>4. HasTarget
  BY DEF Init, HasTarget
<1>5. MemInv
  BY <1>1 DEF Init, MemInv, GraphPcs
<1> QED
  BY <1>3, <1>4, <1>5 DEF Shape

LEMMA KeepsSame ==
    ASSUME Shape, MemInv, UNCHANGED vars
    PROVE  Shape' /\ MemInv'
<1>1. Shape'
  BY DEF Shape, Typed, HasTarget, vars, dbVars, rowVars, resultVars, txVars, memVars, historyVars
<1>2. UNCHANGED <<secret, mem, saved, pc>>
  BY DEF vars, dbVars, memVars
<1> SUFFICES ASSUME NEW q \in Requests
             PROVE  /\ Sound(mem[q])' /\ Sound(saved[q])' /\ ~saved'[q].scored
                    /\ pc'[q] \in GraphPcs => ~mem'[q].scored
  BY <1>1 DEF MemInv
<1> QED
  BY <1>2 DEF MemInv, Sound, FoundOf

\* Jobs have the rows they work on, and the state of every run, with what it
\* takes over from a checkpoint, is one that the nodes of a graph can have left.
LEMMA SaneAlways == Spec => [](Shape /\ MemInv)
<1>1. Shape /\ MemInv /\ [Next]_vars => Shape' /\ MemInv'
  BY KeepsShape, KeepsMem, KeepsSame
<1> QED
  BY <1>1, Starts, PTL DEF Spec

\* Every value that requests, jobs, nodes and the database write is of its type,
\* for any number of them: in particular no stored or remembered score leaves
\* 0..100, however many resources are found.
THEOREM TypeCorrect == Spec => []TypeOK
<1>1. Shape => TypeOK
  BY DEF Shape, Typed, TypeOK
<1> QED
  BY <1>1, SaneAlways, PTL

-------------------------------------------------------------------------------
(***************************************************************************)
(* Which row is the newest.                                                *)
(***************************************************************************)

Entered == \A r \in Requests : status[r] # "absent" => request[r] \notin {"idle", "checked"}

\* Of two rows or inserting requests one has the later started_at.
Ordered == \A i, k \in Started : i # k => After(order, i, k) \/ After(order, k, i)

\* A row that runs comes after every other, unless it was inserted too late.
RunsLast ==
    \A i, k \in Requests :
        RunningRow(i) /\ i \notin overtaken /\ status[k] # "absent" /\ i # k => After(order, i, k)

Newest == Entered /\ Ordered /\ RunsLast

LEMMA Placed ==
    ASSUME NEW q, NEW x, NEW S, NEW i, NEW k, i # k
    PROVE  /\ i # x /\ k # x => /\ After(PutLast(q, x, S), i, k) <=> After(q, i, k)
                                /\ After(Without(q, x), i, k) <=> After(q, i, k)
           /\ i = x => (After(PutLast(q, x, S), i, k) <=> k \in S)
BY DEF After, PutLast, Without

\* Everything else settles rows, and moves requests that have inserted.
LEMMA OrderKept ==
    ASSUME Shape, [Next]_vars,
           \A r \in Requests : ~TriggerCheck(r) /\ ~TriggerInsert(r) /\ ~MarkRunning(r)
    PROVE  /\ order' = order /\ overtaken' = overtaken
           /\ \A i \in Requests :
                 /\ status'[i] = "absent" <=> status[i] = "absent"
                 /\ status'[i] = "running" => status[i] = "running"
                 /\ request'[i] = request[i]
                    \/ {request[i], request'[i]} \cap {"idle", "checked"} = {}
<1> DEFINE Settled(i) == /\ status'[i] = "absent" <=> status[i] = "absent"
                         /\ status'[i] = "running" => status[i] = "running"
           Moved(i) == request'[i] = request[i]
                       \/ {request[i], request'[i]} \cap {"idle", "checked"} = {}
<1>1. CASE UNCHANGED vars
  BY <1>1 DEF vars, dbVars, rowVars, historyVars
<1>2. ASSUME NEW r \in Requests, TriggerEnqueue(r) \/ TriggerRefuse(r)
      PROVE  /\ order' = order /\ overtaken' = overtaken /\ status' = status
             /\ \A i \in Requests : Moved(i)
  <2>1. request[r] = "inserted" /\ \E a \in {"answered", "refused"} :
            request' = [request EXCEPT ![r] = a]
    BY <1>2 DEF TriggerEnqueue, TriggerRefuse
  <2>2. order' = order /\ overtaken' = overtaken /\ status' = status
    BY <1>2 DEF TriggerEnqueue, TriggerRefuse, dbVars, rowVars, historyVars
  <2> QED
    BY <2>1, <2>2 DEF Shape, Typed
<1>3. ASSUME NEW r \in Requests, RunGraph(r)
      PROVE  order' = order /\ overtaken' = overtaken /\ status' = status /\ request' = request
  <2>1. CASE Invoke(r)
    BY <2>1 DEF Invoke, dbVars, rowVars, historyVars
  <2> QED
    BY <1>3, <2>1, NodeKeeps DEF RunGraph, rowVars, historyVars
<1>4. ASSUME NEW r \in Requests, RunJob(r), ~RunGraph(r)
      PROVE  /\ order' = order /\ overtaken' = overtaken /\ request' = request
             /\ \/ status' = status
                \/ /\ pc[r] \in {"commit", "failed"}
                   /\ \E s \in {"complete", "error"} : status' = [status EXCEPT ![target[r]] = s]
  <2>1. ~MarkRunning(r)
    OBVIOUS
  <2> QED
    BY <1>4, <2>1 DEF RunJob, MarkFails, TraceFails, PersistBegin, PersistCommit,
                PersistFails, WriteError, WriteErrorFails, Tell, Redeliver, GiveUp, Goto,
                dbVars, rowVars, historyVars
<1>5. ASSUME NEW r \in Requests, Trouble(r)
      PROVE  order' = order /\ overtaken' = overtaken /\ status' = status /\ request' = request
  BY <1>5 DEF Trouble, RunStateless, Timeout, Crash, dbVars, rowVars
<1>6. ASSUME NEW r \in Requests, pc[r] \in {"commit", "failed"}, NEW s \in {"complete", "error"},
             status' = [status EXCEPT ![target[r]] = s]
      PROVE  \A i \in Requests : Settled(i)
  <2>1. target[r] \in Requests /\ status[target[r]] # "absent"
    BY <1>6 DEF Shape, HasTarget
  <2> QED
    BY <1>6, <2>1 DEF Shape, Typed
<1> QED
  BY <1>1, <1>2, <1>3, <1>4, <1>5, <1>6 DEF Next, Trigger

LEMMA KeepsNewest ==
    ASSUME Shape, Newest, [Next]_vars
    PROVE  Newest'
<1>1. status \in [Requests -> InvestigationStatus] /\ order \subseteq Requests \X Requests
      /\ request \in [Requests -> {"idle", "checked", "inserted", "answered", "refused"}]
  BY DEF Shape, Typed
<1>2. ASSUME NEW r \in Requests, TriggerCheck(r)
      PROVE  Newest'
  <2>1. /\ request[r] = "idle" /\ request' = [request EXCEPT ![r] = "checked"]
        /\ order' = PutLast(order, r, Started) /\ UNCHANGED <<status, overtaken>>
    BY <1>2 DEF TriggerCheck, historyVars
  <2>2. status[r] = "absent"
    BY <2>1 DEF Newest, Entered
  <2>3. Started' = Started \cup {r} /\ r \notin Started
    BY <1>1, <2>1, <2>2 DEF Started
  <2>4. Entered'
    BY <1>1, <2>1, <2>2 DEF Newest, Entered
  <2>5. Ordered'
    BY <2>1, <2>3, Placed DEF Newest, Ordered
  <2>6. RunsLast'
    BY <2>1, <2>2, Placed DEF Newest, RunsLast, RunningRow
  <2> QED
    BY <2>4, <2>5, <2>6 DEF Newest
<1>3. ASSUME NEW r \in Requests, TriggerInsert(r)
      PROVE  Newest'
  <2>1. request[r] = "checked" /\ status[r] = "absent"
    BY <1>3 DEF TriggerInsert, Newest, Entered
  <2>2. request' = [request EXCEPT ![r] = "inserted"]
    BY <1>3 DEF TriggerInsert
  <2>3. CASE Clash(r)
    <3>1. order' = Without(order, r) /\ UNCHANGED <<status, overtaken>>
      BY <1>3, <2>3 DEF TriggerInsert
    <3>2. Started' = Started \ {r}
      BY <1>1, <2>1, <2>2, <3>1 DEF Started
    <3>3. Entered'
      BY <1>1, <2>1, <2>2, <3>1 DEF Newest, Entered
    <3>4. Ordered'
      BY <3>1, <3>2, Placed DEF Newest, Ordered
    <3>5. RunsLast'
      BY <2>1, <3>1, Placed DEF Newest, RunsLast, RunningRow
    <3> QED
      BY <3>3, <3>4, <3>5 DEF Newest
  <2>4. CASE ~Clash(r)
    <3>1. /\ status' = [status EXCEPT ![r] = "running"] /\ order' = order
          /\ overtaken' = IF \E k \in Requests : status[k] # "absent" /\ After(order, k, r)
                          THEN overtaken \cup {r} ELSE overtaken
      BY <1>3, <2>4 DEF TriggerInsert
    <3>2. Started' = Started /\ r \in Started
      BY <1>1, <2>1, <2>2, <3>1 DEF Started
    <3>3. Entered'
      BY <1>1, <2>1, <2>2, <3>1 DEF Newest, Entered
    <3>4. Ordered'
      BY <3>1, <3>2 DEF Newest, Ordered
    <3>5. RunsLast'
      <4> SUFFICES ASSUME NEW i \in Requests, NEW k \in Requests, status'[i] = "running",
                          i \notin overtaken', status'[k] # "absent", i # k
                   PROVE  After(order, i, k)
        BY <3>1 DEF RunsLast, RunningRow
      <4>1. i = r
        BY <1>1, <2>4, <3>1 DEF Clash, RunningRow
      <4>2. status[k] # "absent" /\ k \in Started
        BY <1>1, <3>1, <4>1 DEF Started
      <4>3. ~After(order, k, r)
        BY <3>1, <4>1, <4>2
      <4> QED
        BY <3>2, <4>1, <4>2, <4>3 DEF Newest, Ordered
    <3> QED
      BY <3>3, <3>4, <3>5 DEF Newest
  <2> QED
    BY <2>3, <2>4
<1>4. ASSUME NEW r \in Requests, MarkRunning(r)
      PROVE  Newest'
  <2> DEFINE t == target[r]
  <2>1. t \in Requests /\ status[t] # "absent"
    BY <1>4 DEF MarkRunning, Goto, Shape, HasTarget
  <2>2. /\ ~Clash(t) /\ status' = [status EXCEPT ![t] = "running"]
        /\ order' = PutLast(order, t, Started) /\ overtaken' = overtaken \ {t}
        /\ request' = request
    BY <1>4 DEF MarkRunning
  <2> HIDE DEF t
  <2>3. \A i \in Requests : status'[i] = "absent" <=> status[i] = "absent"
    BY <1>1, <2>1, <2>2
  <2>4. Started' = Started /\ t \in Started
    BY <2>1, <2>2, <2>3 DEF Started
  <2>5. Entered'
    BY <2>2, <2>3 DEF Newest, Entered
  <2>6. Ordered'
    BY <2>2, <2>4, Placed DEF Newest, Ordered
  <2>7. RunsLast'
    <3> SUFFICES ASSUME NEW i \in Requests, NEW k \in Requests, status'[i] = "running",
                        status'[k] # "absent", i # k
                 PROVE  After(order', i, k)
      BY DEF RunsLast, RunningRow
    <3>1. i = t
      BY <1>1, <2>2 DEF Clash, RunningRow
    <3>2. k \in Started
      BY <2>3 DEF Started
    <3> QED
      BY <2>2, <3>1, <3>2, Placed
  <2> QED
    BY <2>5, <2>6, <2>7 DEF Newest
<1>5. ASSUME \A r \in Requests : ~TriggerCheck(r) /\ ~TriggerInsert(r) /\ ~MarkRunning(r)
      PROVE  Newest'
  <2>1. /\ order' = order /\ overtaken' = overtaken
        /\ \A i \in Requests :
              /\ status'[i] = "absent" <=> status[i] = "absent"
              /\ status'[i] = "running" => status[i] = "running"
              /\ request'[i] = request[i]
                 \/ {request[i], request'[i]} \cap {"idle", "checked"} = {}
    BY <1>5, OrderKept
  <2>2. Started' = Started
    <3>1. \A i \in Requests : request'[i] = "checked" <=> request[i] = "checked"
      BY <2>1
    <3> QED
      BY <2>1, <3>1 DEF Started
  <2>3. Entered'
    BY <2>1 DEF Newest, Entered
  <2>4. Ordered'
    BY <2>1, <2>2 DEF Newest, Ordered
  <2>5. RunsLast'
    BY <2>1 DEF Newest, RunsLast, RunningRow
  <2> QED
    BY <2>3, <2>4, <2>5 DEF Newest
<1> QED
  BY <1>2, <1>3, <1>4, <1>5

\* Trigger requests join the investigation that runs: whatever requests insert
\* between another row's start and its end, and whatever jobs reopen finished
\* rows, the select by started_at finds no complete row above a running one
\* that was not itself inserted with an outdated now().
THEOREM NewestRuns == Spec => []RunningIsNewest
<1>1. Init => Newest
  BY DEF Init, Newest, Entered, Ordered, RunsLast, Started, RunningRow
<1>2. Newest => RunningIsNewest
  BY DEF Newest, RunsLast, RunningIsNewest, RunningRow
<1>3. Shape /\ Newest /\ [Next]_vars => Newest'
  BY KeepsNewest
<1> QED
  BY <1>1, <1>2, <1>3, SaneAlways, PTL DEF Spec

-------------------------------------------------------------------------------
(***************************************************************************)
(* The stored results.                                                     *)
(***************************************************************************)

\* Transactions that never overlap leave nothing that could come too late.
InTurn == overlapped \/ (open = {} /\ late = {} /\ shown = latest)

\* The stored results follow from what is drawn.
Backed ==
    /\ shown \in {None, 0} \/
          \E found \in IF stale THEN Enumerations ELSE SUBSET DrawnResources :
              shown \in Score(Effective(found), secret)
    /\ \A i \in Requests : coverage[i] = None \/
          \E found \in SUBSET DrawnResources : coverage[i] = Coverage(found)
    /\ \A e \in graph.edges : {e.src, e.dst} \subseteq graph.nodes

\* Only the persisting transaction writes results.
LEMMA ResultsKept ==
    ASSUME [Next]_vars, \A r \in Requests : ~PersistCommit(r)
    PROVE  UNCHANGED <<resultVars, coverage, stale>>
<1>1. CASE UNCHANGED vars
  BY <1>1 DEF vars, dbVars, rowVars, historyVars
<1>2. ASSUME NEW r \in Requests, RunGraph(r)
      PROVE  UNCHANGED <<resultVars, coverage, stale>>
  <2>1. CASE Invoke(r)
    BY <2>1 DEF Invoke, dbVars, rowVars, historyVars
  <2> QED
    BY <1>2, <2>1, NodeKeeps DEF RunGraph, rowVars, historyVars
<1>3. ASSUME NEW r \in Requests, Trigger(r) \/ Trouble(r)
      PROVE  UNCHANGED <<resultVars, coverage, stale>>
  BY <1>3 DEF Trigger, TriggerCheck, TriggerInsert, TriggerEnqueue, TriggerRefuse, Trouble,
              RunStateless, Timeout, Crash, dbVars, rowVars, historyVars
<1>4. ASSUME NEW r \in Requests, RunJob(r), ~RunGraph(r)
      PROVE  UNCHANGED <<resultVars, coverage, stale>>
  <2>1. ~PersistCommit(r)
    OBVIOUS
  <2> QED
    BY <1>4, <2>1 DEF RunJob, MarkRunning, MarkFails, TraceFails, PersistBegin, PersistFails,
                WriteError, WriteErrorFails, Tell, Redeliver, GiveUp, dbVars, rowVars, historyVars
<1> QED
  BY <1>1, <1>2, <1>3, <1>4 DEF Next

LEMMA TurnsKept ==
    ASSUME InTurn, [Next]_vars
    PROVE  InTurn'
<1> SUFFICES ASSUME ~overlapped'
             PROVE  open' = {} /\ late' = {} /\ shown' = latest'
  BY DEF InTurn
<1>1. ASSUME UNCHANGED <<open, late, overlapped, resultVars>>
      PROVE  open' = {} /\ late' = {} /\ shown' = latest'
  BY <1>1 DEF InTurn, resultVars
<1>2. ASSUME NEW r \in Requests, RunGraph(r)
      PROVE  UNCHANGED <<open, late, overlapped, resultVars>>
  <2>1. CASE Invoke(r)
    BY <2>1 DEF Invoke, dbVars, txVars, historyVars
  <2> QED
    BY <1>2, <2>1, NodeKeeps DEF RunGraph, txVars, historyVars
<1>3. ASSUME NEW r \in Requests, Trigger(r) \/ RunStateless(r)
      PROVE  UNCHANGED <<open, late, overlapped, resultVars>>
  BY <1>3 DEF Trigger, TriggerCheck, TriggerInsert, TriggerEnqueue, TriggerRefuse,
              RunStateless, dbVars, txVars, historyVars
<1>4. ASSUME NEW r \in Requests, Timeout(r) \/ Crash(r) \/ PersistFails(r)
      PROVE  open' = {} /\ late' = {} /\ shown' = latest'
  BY <1>4 DEF Timeout, Crash, PersistFails, Forget, Without, InTurn, resultVars, historyVars
<1>5. ASSUME NEW r \in Requests, PersistBegin(r)
      PROVE  open' = {} /\ late' = {} /\ shown' = latest'
  <2>1. Persisting = {} /\ ~overlapped /\ open' = PutLast(open, r, Persisting)
    BY <1>5 DEF PersistBegin
  <2>2. PutLast({}, r, {}) = {}
    BY DEF PutLast, Without
  <2> QED
    BY <1>5, <2>1, <2>2 DEF PersistBegin, InTurn, resultVars
<1>6. ASSUME NEW r \in Requests, PersistCommit(r)
      PROVE  open' = {} /\ late' = {} /\ shown' = latest'
  <2>1. ~overlapped /\ open' = Without(open, r) /\ WriteSeverity(r, mem[r].severity)
    BY <1>6 DEF PersistCommit, Forget
  <2>2. open = {} /\ late = {} /\ shown = latest
    BY <2>1 DEF InTurn
  <2>3. late' = {} /\ shown' = latest'
    BY <2>1, <2>2 DEF WriteSeverity, After
  <2> QED
    BY <2>1, <2>2, <2>3 DEF Without
<1>7. ASSUME NEW r \in Requests, RunJob(r),
             ~RunGraph(r) /\ ~PersistBegin(r) /\ ~PersistCommit(r) /\ ~PersistFails(r)
      PROVE  UNCHANGED <<open, late, overlapped, resultVars>>
  BY <1>7 DEF RunJob, MarkRunning, MarkFails, TraceFails, WriteError, WriteErrorFails, Tell,
              Redeliver, GiveUp, dbVars, txVars, historyVars
<1>8. UNCHANGED vars => UNCHANGED <<open, late, overlapped, resultVars>>
  BY DEF vars, dbVars, txVars, historyVars
<1> QED
  BY <1>1, <1>2, <1>3, <1>4, <1>5, <1>6, <1>7, <1>8 DEF Next, Trouble

\* What a commit draws: all that the run has found, and an edge's two ends.
LEMMA Drawn ==
    ASSUME NEW m, FoundOf(m) \in SUBSET Resources, DrawGraph(m)
    PROVE  /\ DrawnResources \subseteq DrawnResources' /\ FoundOf(m) \subseteq DrawnResources'
           /\ (\A e \in graph.edges : {e.src, e.dst} \subseteq graph.nodes)
                 => (\A e \in graph'.edges : {e.src, e.dst} \subseteq graph'.nodes)
<1>1. CASE m.found = None
  BY <1>1 DEF DrawGraph, FoundOf, DrawnResources
<1>2. CASE m.found # None
  <2> DEFINE N == Nodes(m.found, "none")
             E == Edges(m.found, "none")
  <2>1. graph'.nodes = graph.nodes \cup N /\ graph'.edges = graph.edges \cup E
    BY <1>2 DEF DrawGraph
  <2>2. FoundOf(m) = m.found
    BY <1>2 DEF FoundOf
  <2>3. \A x \in m.found : ResourceNode(x) \in N
    BY DEF Nodes
  <2>4. \A e \in E : {e.src, e.dst} \subseteq N
    BY <2>2, GraphIsConnected DEF StoreChecks
  <2> HIDE DEF N, E
  <2>5. DrawnResources \subseteq DrawnResources' /\ FoundOf(m) \subseteq DrawnResources'
    BY <2>1, <2>2, <2>3 DEF DrawnResources
  <2> QED
    BY <2>1, <2>4, <2>5
<1> QED
  BY <1>1, <1>2

LEMMA BackedKept ==
    ASSUME Shape, MemInv, Backed, [Next]_vars
    PROVE  Backed'
<1>1. secret' = secret
  BY SecretKept
<1>2. CASE \A r \in Requests : ~PersistCommit(r)
  <2>1. UNCHANGED <<shown, graph, coverage, stale>>
    BY <1>2, ResultsKept DEF resultVars
  <2>2. DrawnResources' = DrawnResources
    BY <2>1 DEF DrawnResources
  <2> QED
    BY <1>1, <2>1, <2>2 DEF Backed
<1>3. ASSUME NEW r \in Requests, PersistCommit(r)
      PROVE  Backed'
  <2> DEFINE m == mem[r]
  <2>1. Sound(m) /\ FoundOf(m) \in SUBSET Resources
    BY Enumerated DEF MemInv, Sound
  <2>2. DrawGraph(m) /\ WriteSeverity(r, m.severity)
        /\ coverage' = [coverage EXCEPT ![target[r]] =
                           IF m.found = None THEN None ELSE Coverage(m.found)]
    BY <1>3 DEF PersistCommit
  <2> HIDE DEF m
  <2>3. DrawnResources \subseteq DrawnResources' /\ FoundOf(m) \subseteq DrawnResources'
        /\ \A e \in graph'.edges : {e.src, e.dst} \subseteq graph'.nodes
    BY <2>1, <2>2, Drawn DEF Backed
  <2>4. \A i \in Requests : coverage'[i] = None \/
           \E found \in SUBSET DrawnResources' : coverage'[i] = Coverage(found)
    <3> SUFFICES ASSUME NEW i \in Requests, coverage'[i] # None
                 PROVE  \E found \in SUBSET DrawnResources' : coverage'[i] = Coverage(found)
      OBVIOUS
    <3>1. CASE coverage'[i] = coverage[i]
      BY <2>3, <3>1 DEF Backed
    <3>2. CASE coverage'[i] # coverage[i]
      <4>1. m.found # None /\ coverage'[i] = Coverage(m.found)
        BY <2>2, <3>2 DEF Shape, Typed
      <4>2. m.found \in SUBSET DrawnResources'
        BY <2>3, <4>1 DEF FoundOf
      <4> QED
        BY <4>1, <4>2
    <3> QED
      BY <3>1, <3>2
  <2>5. CASE m.severity = None
    <3>1. shown' = shown /\ stale' = stale
      BY <2>2, <2>5 DEF WriteSeverity
    <3>2. shown' \in {None, 0} \/
             \E found \in IF stale' THEN Enumerations ELSE SUBSET DrawnResources' :
                 shown' \in Score(Effective(found), secret)
      BY <2>3, <3>1 DEF Backed
    <3> QED
      BY <1>1, <2>3, <2>4, <3>2 DEF Backed
  <2>6. CASE m.severity # None
    <3>1. shown' = m.severity /\ stale' = ~m.scored
      BY <2>2, <2>6 DEF WriteSeverity, m
    <3>2. shown' \in {None, 0} \/
             \E found \in IF stale' THEN Enumerations ELSE SUBSET DrawnResources' :
                 shown' \in Score(Effective(found), secret)
      BY <2>1, <2>3, <3>1 DEF Sound
    <3> QED
      BY <1>1, <2>3, <2>4, <3>2 DEF Backed
  <2> QED
    BY <2>5, <2>6
<1> QED
  BY <1>2, <1>3

\* The score on the secret and the newest severities row are written by one
\* transaction, and can only part when two of them were open at once: no retry,
\* timeout, crash or failed commit of one run after another does it.
THEOREM ShownLatest == Spec => []ShownIsLatest
<1>1. Init => InTurn
  BY DEF Init, InTurn
<1>2. InTurn => ShownIsLatest
  BY DEF InTurn, ShownIsLatest
<1> QED
  BY <1>1, <1>2, TurnsKept, PTL DEF Spec

\* What is stored can be accounted for, for every set of resources and policies
\* and every number of runs: a score that its run has computed follows from
\* resources that are drawn, also when nodes failed, were skipped or went on
\* from a checkpoint; no coverage counts a resource that is not drawn; and no
\* edge lacks an end.
THEOREM StoredIsBacked == Spec => []ResultsAreBacked
<1>1. Init => Backed
  BY DEF Init, Backed
<1>2. Backed => ResultsAreBacked
  <2> SUFFICES ASSUME Backed, NEW i \in Requests, coverage[i] # None
               PROVE  coverage[i].known <= Cardinality(DrawnResources)
    BY DEF Backed, ResultsAreBacked
  <2>1. PICK found \in SUBSET DrawnResources : coverage[i] = Coverage(found)
    BY DEF Backed
  <2>2. DrawnResources \in SUBSET Resources
    BY DEF DrawnResources
  <2>3. Cardinality(found) <= Cardinality(DrawnResources)
    BY <2>2, Counted, FS_Subset
  <2> QED
    BY <2>1, <2>3 DEF Coverage
<1>3. Shape /\ MemInv /\ Backed /\ [Next]_vars => Backed'
  BY BackedKept
<1> QED
  BY <1>1, <1>2, <1>3, SaneAlways, PTL DEF Spec

================================================================================
