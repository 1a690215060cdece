---------------------------- MODULE Investigation -----------------------------
(***************************************************************************)
(* The investigations of one secret: requests to the investigate endpoint, *)
(* the arq jobs investigate_secret they queue, the LangGraph pipeline with *)
(* its guardrails and its checkpoints, and the rows the jobs write.        *)
(*                                                                         *)
(* A request inserts a row under its own new id, so rows, requests and the *)
(* jobs they queue are all named by the request.  One action is a database *)
(* transaction, a read a later decision uses, a graph node or a message.   *)
(* The persisting transaction is split where its now() is taken.           *)
(***************************************************************************)
EXTENDS Severity, BlastRadius

CONSTANTS
    Requests,     \* numbered in the order in which they arrive
    Secrets,      \* the attributes the investigated secret may have
    None,
    MayFail,      \* what may go wrong by itself
    MaxFaults     \* bound: losses of the worker, of a job or of the checkpointer

Troubles == {"node", "database", "enqueue_job"}

ASSUME InvestigationAssumption ==
    /\ Secrets \subseteq Secret
    /\ Requests \subseteq Nat
    /\ None \notin Requests
    /\ MayFail \subseteq Troubles
    /\ MaxFaults \in Nat

VARIABLES
    \* PostgreSQL
    secret,      \* secrets.type, environment, exposure_status
    status,      \* investigations.status
    coverage,    \* investigations.coverage
    order,       \* pairs of rows and inserting requests, the later started_at first
    shown,       \* secrets.severity_score
    latest,      \* the score in the newest row of severities
    graph,       \* rows of graph_nodes and graph_edges
    trail,       \* the last audited action of each investigation
    saved,       \* LangGraph's checkpoint of each thread_id
    open,        \* pairs of jobs that are persisting, the later now() first
    late,        \* those of them that a newer one has overtaken
    \* API
    request,     \* how far each request is
    \* worker
    pc, target,
    mem,         \* the InvestigationState of the run
    saver,       \* the run has a checkpointer
    \* history
    overtaken,   \* rows inserted with a started_at older than another row's
    abandoned,   \* running rows whose last request or job let go of them
    stale,       \* the shown score was left in a checkpoint by another run
    overlapped,  \* two persisting transactions were open at once
    faults

rowVars     == <<status, coverage, order>>
resultVars  == <<shown, latest, graph>>
txVars      == <<open, late>>
dbVars      == <<secret, rowVars, resultVars, trail, saved, txVars>>
memVars     == <<mem, saver>>
historyVars == <<overtaken, abandoned, stale, overlapped, faults>>
vars == <<dbVars, request, pc, target, memVars, historyVars>>

\* The nodes in their order.  Triage calls nothing, so it goes with ingest; the
\* investigator node after it changes nothing that is scored or stored.
GraphPcs == {"ingest", "blast_radius", "severity"}
RunPcs == GraphPcs \cup {"invoke", "persist", "commit", "failed", "tell"}
Pc == RunPcs \cup {"idle", "queued", "crashed", "gone"}

\* What of the InvestigationState survives into results: None is a missing key.
\* scored is history: this run's severity node has computed the severity.
Empty == [context |-> FALSE, found |-> None, severity |-> None, scored |-> FALSE]

RunningRow(i) == status[i] = "running"

\* Mutant: the schema has no unique index.
ClashNever(i) == FALSE

\* The unique index one_active_investigation.
Clash(i) == \E k \in Requests \ {i} : RunningRow(k)

Init ==
    /\ secret \in Secrets
    /\ status = [i \in Requests |-> "absent"]
    /\ coverage = [i \in Requests |-> None]
    /\ shown = None
    /\ latest = None
    /\ graph = [nodes |-> {}, edges |-> {}]
    /\ trail = [i \in Requests |-> "none"]
    /\ saved = [i \in Requests |-> Empty]
    /\ order = {}
    /\ open = {}
    /\ late = {}
    /\ request = [r \in Requests |-> "idle"]
    /\ pc = [r \in Requests |-> "idle"]
    /\ target = [r \in Requests |-> None]
    /\ mem = [r \in Requests |-> Empty]
    /\ saver = [r \in Requests |-> FALSE]
    /\ overtaken = {}
    /\ abandoned = {}
    /\ stale = FALSE
    /\ overlapped = FALSE
    /\ faults = 0

-------------------------------------------------------------------------------
(***************************************************************************)
(* trigger_investigation.                                                  *)
(***************************************************************************)

\* In a set q of such pairs, i comes after k.
After(q, i, k) == <<i, k>> \in q

Without(q, x) == {p \in q : x \notin {p[1], p[2]}}

\* x comes after all of S.
PutLast(q, x, S) == Without(q, x) \cup {<<x, y>> : y \in S \ {x}}

\* What has a started_at.
Started == {k \in Requests : request[k] = "checked" \/ status[k] # "absent"}

\* The first statement checks the secret, and fixes now() for the insert.
TriggerCheck(r) ==
    /\ request[r] = "idle" /\ \A q \in Requests : q < r => request[q] # "idle"
    /\ request' = [request EXCEPT ![r] = "checked"]
    /\ order' = PutLast(order, r, Started)
    /\ UNCHANGED <<secret, status, coverage, resultVars, trail, saved, txVars,
                   pc, target, memVars, historyVars>>

\* INSERT ... ON CONFLICT DO NOTHING, and the commit.
TriggerInsert(r) ==
    /\ request[r] = "checked"
    /\ request' = [request EXCEPT ![r] = "inserted"]
    /\ IF Clash(r)
       THEN /\ order' = Without(order, r)
            /\ UNCHANGED <<status, overtaken>>
       ELSE /\ status' = [status EXCEPT ![r] = "running"]
            /\ overtaken' = IF \E k \in Requests : status[k] # "absent" /\ After(order, k, r)
                            THEN overtaken \cup {r} ELSE overtaken
            /\ UNCHANGED order
    /\ UNCHANGED <<secret, coverage, resultVars, trail, saved, txVars, pc, target, memVars,
                   abandoned, stale, overlapped, faults>>

Eligible == {i \in Requests : status[i] \in {"running", "complete"}}

\* ORDER BY started_at DESC LIMIT 1 among the running and complete rows.
Selected(k) == k \in Eligible /\ \A i \in Eligible : ~After(order, i, k)

\* The select of the newest row, and enqueue_job, which swallows its errors.
TriggerEnqueue(r) ==
    /\ request[r] = "inserted"
    /\ \E k \in Requests :
        /\ Selected(k)
        /\ request' = [request EXCEPT ![r] = "answered"]
        /\ \/ /\ pc' = [pc EXCEPT ![r] = "queued"]
              /\ target' = [target EXCEPT ![r] = k]
              /\ abandoned' = (abandoned \ {k})
                    \cup IF RunningRow(r) /\ r # k THEN {r} ELSE {}
           \/ /\ "enqueue_job" \in MayFail
              /\ abandoned' = abandoned \cup {i \in {r, k} : RunningRow(i)}
              /\ UNCHANGED <<pc, target>>
    /\ UNCHANGED <<dbVars, memVars, overtaken, stale, overlapped, faults>>

\* No row left to select: 500 investigation_upsert_failed.
TriggerRefuse(r) ==
    /\ request[r] = "inserted"
    /\ Eligible = {}
    /\ request' = [request EXCEPT ![r] = "refused"]
    /\ UNCHANGED <<dbVars, pc, target, memVars, historyVars>>

-------------------------------------------------------------------------------
(***************************************************************************)
(* The job, up to the graph.                                               *)
(***************************************************************************)

Goto(r, from, to) == pc[r] = from /\ pc' = [pc EXCEPT ![r] = to]

\* The row goes (back) to running whatever its status was.
MarkRunning(r) ==
    /\ ~Clash(target[r])
    /\ Goto(r, "queued", "invoke")
    /\ status' = [status EXCEPT ![target[r]] = "running"]
    /\ order' = PutLast(order, target[r], Started)
    /\ overtaken' = overtaken \ {target[r]}
    /\ UNCHANGED <<secret, coverage, resultVars, trail, saved, txVars, request, target, memVars,
                   abandoned, stale, overlapped, faults>>

\* The unique index refuses it, or the database fails: the except branch.
MarkFails(r) ==
    /\ Clash(target[r]) \/ "database" \in MayFail
    /\ Goto(r, "queued", "failed")
    /\ UNCHANGED <<dbVars, request, target, memVars, historyVars>>

\* The write of trace_id fails: the except branch, with the row running.
TraceFails(r) ==
    /\ "database" \in MayFail
    /\ Goto(r, "invoke", "failed")
    /\ UNCHANGED <<dbVars, request, target, memVars, historyVars>>

\* ainvoke with the checkpointer: the new input is laid over the values that
\* an earlier run of the thread has left.
Invoke(r) ==
    /\ Goto(r, "invoke", "ingest")
    /\ mem' = [mem EXCEPT ![r] = saved[target[r]]]
    /\ saver' = [saver EXCEPT ![r] = TRUE]
    /\ UNCHANGED <<dbVars, request, target, historyVars>>

\* The checkpointer cannot be reached, at the start or at any later step: the
\* whole graph runs again from the initial state, without one.
RunStateless(r) ==
    /\ faults < MaxFaults
    /\ pc[r] = "invoke" \/ (pc[r] \in GraphPcs /\ saver[r])
    /\ pc' = [pc EXCEPT ![r] = "ingest"]
    /\ mem' = [mem EXCEPT ![r] = Empty]
    /\ saver' = [saver EXCEPT ![r] = FALSE]
    /\ faults' = faults + 1
    /\ UNCHANGED <<dbVars, request, target, overtaken, abandoned, stale, overlapped>>

-------------------------------------------------------------------------------
(***************************************************************************)
(* The graph.  A node that raises or times out leaves the state as it was. *)
(***************************************************************************)

\* A node ends with the state m; the checkpointer saves it for the thread.
NodeEnds(r, from, to, m) ==
    /\ Goto(r, from, to)
    /\ mem' = [mem EXCEPT ![r] = m]
    /\ saver' = [saver EXCEPT ![r] = @ /\ to # "persist"]
    /\ saved' = IF saver[r] THEN [saved EXCEPT ![target[r]] = [m EXCEPT !.scored = FALSE]]
                ELSE saved
    /\ UNCHANGED <<secret, rowVars, resultVars, trail, txVars, request,
                   target, historyVars>>

NodeFails(r, from, to) ==
    /\ "node" \in MayFail
    /\ NodeEnds(r, from, to, mem[r])

\* Mutant: the router's label is taken for the name of a node.
TriageUnmapped(m) == IF m.context /\ Skips(secret) THEN "skip" ELSE "blast_radius"

\* Without a context triage investigates.
Triage(m) == IF m.context /\ Skips(secret) THEN "persist" ELSE "blast_radius"

\* Ingest reads the secret into the context, or leaves what the state had.
Ingest(r) ==
    \E m \in {[mem[r] EXCEPT !.context = TRUE]}
             \cup IF "node" \in MayFail THEN {mem[r]} ELSE {} :
        NodeEnds(r, "ingest", Triage(m), m)

\* Only an unreadable policy or API keeps part of the reach from the graph.
BlastRadiusNode(r) ==
    \/ \E found \in IF "node" \in MayFail THEN Enumerations ELSE {Reach} :
        NodeEnds(r, "blast_radius", "severity",
                 IF mem[r].context THEN [mem[r] EXCEPT !.found = found] ELSE mem[r])
    \/ NodeFails(r, "blast_radius", "severity")

\* Mutant: the scorer takes the whole reach when the graph is missing.
ScoresOfReach(m) ==
    IF ~m.context THEN {0} ELSE Score(Effective(Reach), secret)

\* Without a context the severity is 0; without a graph there are no resources.
Scores(m) ==
    IF ~m.context THEN {0}
    ELSE Score(IF m.found = None THEN 0 ELSE Effective(m.found), secret)

SeverityNode(r) ==
    \/ \E score \in Scores(mem[r]) :
        NodeEnds(r, "severity", "persist",
                 [mem[r] EXCEPT !.severity = score, !.scored = TRUE])
    \/ NodeFails(r, "severity", "persist")

-------------------------------------------------------------------------------
(***************************************************************************)
(* The results, and how a job ends.                                        *)
(***************************************************************************)

\* The local variables of a run, and a transaction of its own, end with it.
Forget(r) ==
    /\ mem' = [mem EXCEPT ![r] = Empty]
    /\ saver' = [saver EXCEPT ![r] = FALSE]
    /\ open' = Without(open, r)

\* The job is over, for good or until arq delivers it again.
Leave(r) ==
    /\ pc' = [pc EXCEPT ![r] = "gone"]
    /\ target' = [target EXCEPT ![r] = None]

\* A running row that a job leaves behind.
LetGo(r) == abandoned' = abandoned \cup {i \in {target[r]} : RunningRow(i)}

Persisting == {o \in Requests : pc[o] = "commit"}

\* db.begin() of the persisting transaction: computed_at is its now().
PersistBegin(r) ==
    /\ Goto(r, "persist", "commit")
    /\ open' = PutLast(open, r, Persisting)
    /\ overlapped' = (overlapped \/ Persisting # {})
    /\ UNCHANGED <<secret, rowVars, resultVars, trail, saved, late, request, target, memVars,
                   overtaken, abandoned, stale, faults>>

DrawGraph(m) ==
    graph' = IF m.found = None THEN graph
             ELSE [nodes |-> graph.nodes \cup Nodes(m.found, "none"),
                   edges |-> graph.edges \cup Edges(m.found, "none")]

\* Mutant: severities keeps one row for a secret, and ON CONFLICT the first.
WriteSeverityOnce(r, score) ==
    IF score = None THEN UNCHANGED <<shown, latest, late, stale>>
    ELSE /\ shown' = score
         /\ stale' = ~mem[r].scored
         /\ latest' = IF latest = None THEN score ELSE latest
         /\ late' = {o \in Requests : o # r /\ (o \in late \/ After(open, r, o))}

\* A row of severities, and the copy of its score on the secret.
WriteSeverity(r, score) ==
    IF score = None
    THEN late' = late \ {r} /\ UNCHANGED <<shown, latest, stale>>
    ELSE /\ shown' = score
         /\ stale' = ~mem[r].scored
         /\ latest' = IF r \in late THEN latest ELSE score
         /\ late' = {o \in Requests : o # r /\ (o \in late \/ After(open, r, o))}

PersistCommit(r) ==
    /\ Goto(r, "commit", "tell")
    /\ DrawGraph(mem[r])
    /\ WriteSeverity(r, mem[r].severity)
    /\ status' = [status EXCEPT ![target[r]] = "complete"]
    /\ coverage' = [coverage EXCEPT ![target[r]] =
                       IF mem[r].found = None THEN None ELSE Coverage(mem[r].found)]
    /\ trail' = [trail EXCEPT ![target[r]] = "complete"]
    /\ Forget(r)
    /\ UNCHANGED <<secret, order, saved, request, target,
                   overtaken, abandoned, overlapped, faults>>

PersistFails(r) ==
    /\ "database" \in MayFail
    /\ Goto(r, "commit", "failed")
    /\ Forget(r)
    /\ late' = late \ {r}
    /\ UNCHANGED <<secret, rowVars, resultVars, trail, saved, request, target, historyVars>>

\* Mutant: the error is not audited.
WriteErrorUnaudited(r) ==
    /\ Goto(r, "failed", "tell")
    /\ status' = [status EXCEPT ![target[r]] = "error"]
    /\ UNCHANGED <<secret, coverage, order, resultVars, saved, txVars, request, target, memVars,
                   trail, historyVars>>

\* Mutant: the error is audited but the row stays as it is.
WriteErrorAuditOnly(r) ==
    /\ Goto(r, "failed", "tell")
    /\ trail' = [trail EXCEPT ![target[r]] = "error"]
    /\ UNCHANGED <<secret, rowVars, resultVars, saved, txVars, request, target, memVars,
                   historyVars>>

\* The except branch, in a transaction of its own ...
WriteError(r) ==
    /\ Goto(r, "failed", "tell")
    /\ status' = [status EXCEPT ![target[r]] = "error"]
    /\ trail' = [trail EXCEPT ![target[r]] = "error"]
    /\ UNCHANGED <<secret, coverage, order, resultVars, saved, txVars, request, target, memVars,
                   historyVars>>

\* ... whose failure is only logged.
WriteErrorFails(r) ==
    /\ "database" \in MayFail
    /\ Goto(r, "failed", "tell")
    /\ LetGo(r)
    /\ UNCHANGED <<dbVars, request, target, memVars, overtaken, stale, overlapped, faults>>

\* The last event is published, and the job returns or raises again, which arq
\* does not retry.  Publishing cannot fail the job.
Tell(r) ==
    /\ pc[r] = "tell"
    /\ Leave(r)
    /\ UNCHANGED <<dbVars, request, memVars, historyVars>>

\* job_timeout cancels the job; neither except branch sees the cancellation.
Timeout(r) ==
    /\ faults < MaxFaults
    /\ pc[r] \in RunPcs
    /\ Leave(r)
    /\ LetGo(r)
    /\ Forget(r)
    /\ late' = late \ {r}
    /\ faults' = faults + 1
    /\ UNCHANGED <<secret, rowVars, resultVars, trail, saved, request,
                   overtaken, stale, overlapped>>

\* The worker dies, or shuts down and cancels its jobs.
Crash(r) ==
    /\ faults < MaxFaults
    /\ pc[r] \in RunPcs
    /\ pc' = [pc EXCEPT ![r] = "crashed"]
    /\ Forget(r)
    /\ late' = late \ {r}
    /\ faults' = faults + 1
    /\ UNCHANGED <<secret, rowVars, resultVars, trail, saved, request, target,
                   overtaken, abandoned, stale, overlapped>>

\* arq delivers the job again ...
Redeliver(r) ==
    /\ Goto(r, "crashed", "queued")
    /\ UNCHANGED <<dbVars, request, target, memVars, historyVars>>

\* ... unless its max_tries are used up, which the model does not count.
GiveUp(r) ==
    /\ pc[r] = "crashed"
    /\ Leave(r)
    /\ LetGo(r)
    /\ UNCHANGED <<dbVars, request, memVars, overtaken, stale, overlapped, faults>>

-------------------------------------------------------------------------------
Trigger(r) == TriggerCheck(r) \/ TriggerInsert(r) \/ TriggerEnqueue(r) \/ TriggerRefuse(r)

RunGraph(r) ==
    Invoke(r) \/ Ingest(r) \/ BlastRadiusNode(r) \/ SeverityNode(r)

RunJob(r) ==
    \/ MarkRunning(r) \/ MarkFails(r) \/ TraceFails(r)
    \/ RunGraph(r)
    \/ PersistBegin(r) \/ PersistCommit(r) \/ PersistFails(r)
    \/ WriteError(r) \/ WriteErrorFails(r) \/ Tell(r)
    \/ Redeliver(r) \/ GiveUp(r)

Trouble(r) == RunStateless(r) \/ Timeout(r) \/ Crash(r)

Next == \E r \in Requests : Trigger(r) \/ RunJob(r) \/ Trouble(r)

\* A request that was taken runs to its answer, and the event loop returns to
\* each job; a run falls back to no checkpointer once, so it always gets on.
Fairness == \A r \in Requests :
    /\ WF_vars(TriggerInsert(r) \/ TriggerEnqueue(r) \/ TriggerRefuse(r))
    /\ WF_vars(RunJob(r))

Spec == Init /\ [][Next]_vars /\ Fairness

-------------------------------------------------------------------------------
InvestigationStatus == {"absent", "running", "complete", "error"}

Score0 == 0..100 \cup {None}

State == [context : BOOLEAN, found : {None} \cup SUBSET Resources, severity : Score0,
          scored : BOOLEAN]

\* Type invariant.
TypeOK ==
    /\ secret \in Secret
    /\ \A i \in Requests : /\ status[i] \in InvestigationStatus
                            /\ trail[i] \in {"none", "complete", "error"}
                            /\ saved[i] \in State
    /\ order \subseteq Requests \X Requests /\ open \subseteq Requests \X Requests
    /\ late \subseteq Requests
    /\ shown \in Score0 /\ latest \in Score0
    /\ request \in [Requests -> {"idle", "checked", "inserted", "answered", "refused"}]
    /\ pc \in [Requests -> Pc]
    /\ target \in [Requests -> Requests \cup {None}]
    /\ mem \in [Requests -> State] /\ saver \in [Requests -> BOOLEAN]
    /\ overtaken \subseteq Requests /\ abandoned \subseteq Requests

\* The schema's "at most one in-flight investigation per secret", across the
\* inserts of requests and the jobs that reopen a finished row.
OneRunning == \A i, k \in Requests : RunningRow(i) /\ RunningRow(k) => i = k

\* A trigger joins the investigation that runs: the select by started_at, made
\* after the insert has been committed, cannot prefer a complete row to it.
\* The exception is a row inserted by a transaction that began before another
\* row's job started and inserted after it ended.
RunningIsNewest ==
    \A i, k \in Requests :
        RunningRow(i) /\ i \notin overtaken /\ status[k] = "complete"
            => After(order, i, k)

\* Row status and audit trail are written in one transaction, however often
\* jobs of the same investigation reopen, complete and fail it.
StatusMatchesTrail ==
    \A i \in Requests : status[i] \in {"complete", "error"} => trail[i] = status[i]

DrawnResources == {x \in Resources : ResourceNode(x) \in graph.nodes}

\* Whatever nodes failed, were skipped, were taken over from a checkpoint or
\* thrown away with one: a score that the persisting run has computed follows
\* from resources whose nodes are stored with it, a stale one from some
\* enumeration, and the coverage counts no resource that is not drawn.
ResultsAreBacked ==
    /\ shown \in {None, 0} \/
       \E found \in IF stale THEN Enumerations ELSE SUBSET DrawnResources :
           shown \in Score(Effective(found), secret)
    /\ \A i \in Requests : coverage[i] # None
            => coverage[i].known <= Cardinality(DrawnResources)
    /\ \A e \in graph.edges : {e.src, e.dst} \subseteq graph.nodes

\* The two answers of the API agree: the score on the secret is that of the
\* newest severities row, unless two persisting transactions were open at once.
ShownIsLatest == ~overlapped => shown = latest

\* Every running investigation ends, unless its last job or request let go of
\* the row: a fault of the worker, a lost enqueue or a failed error branch.
RunEnds ==
    \A i \in Requests : RunningRow(i) ~> (~RunningRow(i) \/ i \in abandoned)
===============================================================================
