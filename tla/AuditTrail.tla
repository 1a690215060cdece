------------------------------ MODULE AuditTrail ------------------------------
(***************************************************************************)
(* The database transactions that write to a workspace, statement by       *)
(* statement as far as their locks go: the API handlers, the worker's      *)
(* jobs, the demo service and its sweeper, and the hash-chained audit log  *)
(* that all of them but one append to.                                     *)
(*                                                                         *)
(* PostgreSQL runs them at READ COMMITTED: a statement sees what has been  *)
(* committed and its own transaction's rows, row locks and the advisory    *)
(* lock are kept to the end of the transaction, an aborted one leaves      *)
(* nothing but a gap in the ids.  An entry's hash is injective, so its id  *)
(* stands for it, and prev_hash is the id of the entry it was made from.   *)
(***************************************************************************)
EXTENDS Naturals, Sequences, FiniteSets

CONSTANTS
    Tenants,     \* workspaces that exist from the start
    Demos,       \* demo workspaces, created and expiring
    Txs,         \* bound: transactions, numbered as they begin
    MayAbort     \* whether a transaction may fail by itself

ASSUME AuditTrailAssumption ==
    /\ Tenants \cap Demos = {}
    /\ Txs \subseteq Nat \ {0}
    /\ MayAbort \in BOOLEAN

Workspaces == Tenants \cup Demos

\* The statements of each kind of transaction, by the lock they take: rows of
\* rotation_steps, rotations, secrets and investigations, the advisory lock of
\* the audit log, and a key-share lock on the workspace's row ("share") that
\* an insert takes through its foreign key.

\* Two of the entries that create_demo_session writes without the lock.
CreateDemo == <<"seed", "seed">>

\* Mutant: simulate_failure writes its audit entries before the rows.
SimulateAuditFirst == <<"advisory", "append", "append", "steps", "rotation">>

\* Two of simulate_failure's entries, after its updates.
Simulate == <<"steps", "rotation", "advisory", "append", "append">>

\* A step of the engine that is done, with its new_secret_ref.  Without one it
\* locks like Confirm, as the failed step does.
Advance == <<"steps", "rotation", "advisory", "append">>

\* A status written by the engine, or by reject_rotation.
WriteStatus == <<"rotation", "advisory", "append">>

\* The status of a blocked gate, which is not audited.
BlockGate == <<"rotation">>

Confirm == <<"steps", "advisory", "append">>

Approve == <<"advisory", "append">>

\* The results of an investigation: graph, secret, row, entry.
Persist == <<"share", "secret", "investigation", "advisory", "append">>

\* DELETE FROM workspaces, its cascades, and the foreign key without one.
Sweep == <<"workspace", "secret", "investigation", "rotation", "steps", "check">>

\* Not here: trigger_rotation, which locks like WriteStatus after a share of its
\* own, the error branch of an investigation, likewise with its row, and the
\* transactions of one statement, which cannot hold one lock and wait for another.
Program ==
    [create |-> CreateDemo, simulate |-> Simulate, advance |-> Advance,
     status |-> WriteStatus, block |-> BlockGate, confirm |-> Confirm,
     approve |-> Approve, investigate |-> Persist, sweep |-> Sweep]

Kinds == DOMAIN Program

VARIABLES
    ws,        \* the row of each workspace
    kind,      \* what each transaction is
    at,        \* the workspaces it writes to
    pos,       \* the statements it has carried out
    state,     \* idle, active, committed or aborted
    log,       \* rows of audit_log, committed or not
    nextId,    \* the sequence behind the bigserial id
    writer     \* history: who last committed a write of the rotation

vars == <<ws, kind, at, pos, state, log, nextId, writer>>

Active(t) == state[t] = "active"

Statements(t) == Program[kind[t]]

NextStatement(t) == Statements(t)[pos[t] + 1]

AtEnd(t) == pos[t] = Len(Statements(t))

\* Mutant: the advisory lock is released with the statement that took it.
TakenNotAdvisory(t) == {Statements(t)[i] : i \in 1..pos[t]} \ {"advisory"}

\* Mutant: a session that commits every statement.
TakenByStatement(t) == {Statements(t)[i] : i \in {pos[t]} \ {0}}

\* The locks of a transaction, which it keeps to its end.
Taken(t) == {Statements(t)[i] : i \in 1..pos[t]}

Exclusive == {"steps", "rotation", "secret", "investigation", "advisory"}

\* Two statements on the same workspace that lock each other out.  Deleting the
\* workspace's row conflicts with the key share of an inserted child.
Conflict(a, b) ==
    \/ a = b /\ a \in Exclusive \cup {"workspace"}
    \/ {a, b} \in {{"workspace", "append"}, {"workspace", "share"}}

Blocks(u, t) ==
    /\ u # t /\ Active(u) /\ at[u] \cap at[t] # {}
    /\ \E a \in Taken(u) : Conflict(a, NextStatement(t))

WaitsFor(t, u) == Active(t) /\ ~AtEnd(t) /\ Blocks(u, t)

Deadlocked(S) == S # {} /\ \A t \in S : \E u \in S : WaitsFor(t, u)

Committed == {e \in log : state[e.tx] = "committed"}

Init ==
    /\ ws = [w \in Workspaces |-> IF w \in Tenants THEN "open" ELSE "absent"]
    /\ kind = [t \in Txs |-> "approve"]
    /\ at = [t \in Txs |-> {}]
    /\ pos = [t \in Txs |-> 0]
    /\ state = [t \in Txs |-> "idle"]
    /\ log = {}
    /\ nextId = 1
    /\ writer = [w \in Workspaces |-> 0]

-------------------------------------------------------------------------------

Expired(w) == ws[w] = "expired"

\* expires_at of a demo workspace passes.
Expire(w) ==
    /\ w \in Demos /\ ws[w] = "open"
    /\ ws' = [ws EXCEPT ![w] = "expired"]
    /\ UNCHANGED <<kind, at, pos, state, log, nextId, writer>>

Begin(t, k, targets) ==
    /\ state[t] = "idle" /\ \A u \in Txs : u < t => state[u] # "idle"
    /\ kind' = [kind EXCEPT ![t] = k]
    /\ at' = [at EXCEPT ![t] = targets]
    /\ state' = [state EXCEPT ![t] = "active"]
    /\ UNCHANGED <<ws, pos, log, nextId, writer>>

\* create_demo_session makes a new workspace, which nobody else can name yet.
BeginCreate(t) ==
    \E w \in Demos :
        /\ ws[w] = "absent" /\ \A u \in Txs : w \in at[u] => state[u] = "aborted"
        /\ Begin(t, "create", {w})

\* simulate_failure selects, without a lock, a rotation in pending_approval: the
\* one of the seeding, as long as no other write of the row is committed.
BeginSimulate(t) ==
    \E w \in Demos :
        /\ ws[w] \in {"open", "expired"}
        /\ \E c \in Txs : c = writer[w] /\ kind[c] = "create"
        /\ Begin(t, "simulate", {w})

\* The handlers of rotations.py and secrets.py, the engine and the
\* investigation job.
BeginWrite(t) ==
    \E w \in Workspaces, k \in Kinds \ {"create", "simulate", "sweep"} :
        ws[w] \in {"open", "expired"} /\ Begin(t, k, {w})

\* The cron job deletes all the expired workspaces in one statement.
BeginSweep(t) ==
    /\ \E w \in Workspaces : Expired(w)
    /\ Begin(t, "sweep", {w \in Workspaces : Expired(w)})

\* Mutant: the newest row is looked for among the own rows only.
VisibleOwn(t, w) == {e \in log : e.ws = w /\ e.tx = t}

Visible(t, w) == {e \in log : e.ws = w /\ (e.tx = t \/ state[e.tx] = "committed")}

\* The newest of the ids S, 0 (the zero hash) when there is none.
Newest(p, S) == IF S = {} THEN p = 0 ELSE p \in S /\ \A q \in S : q <= p

\* Mutant: the id of the last entry is used again.
Append1SameId(t, w) ==
    \E p \in 0..nextId :
        /\ Newest(p, {e.id : e \in Visible(t, w)})
        /\ log' = log \cup {[ws |-> w, id |-> nextId, prev |-> p, tx |-> t]}
        /\ nextId' = nextId

\* Read the last hash ORDER BY id, insert the entry made from it.
Append1(t, w) ==
    \E p \in 0..nextId :
        /\ Newest(p, {e.id : e \in Visible(t, w)})
        /\ log' = log \cup {[ws |-> w, id |-> nextId, prev |-> p, tx |-> t]}
        /\ nextId' = nextId + 1

Execute(t) ==
    /\ Active(t) /\ ~AtEnd(t) /\ NextStatement(t) # "check"
    /\ \A u \in Txs : ~Blocks(u, t)
    /\ pos' = [pos EXCEPT ![t] = @ + 1]
    /\ IF NextStatement(t) \in {"append", "seed"}
       THEN \E w \in at[t] : Append1(t, w)
       ELSE UNCHANGED <<log, nextId>>
    /\ UNCHANGED <<ws, kind, at, state, writer>>

WritesRotation(k) == k = "create" \/ \E i \in DOMAIN Program[k] : Program[k][i] = "rotation"

Commit(t) ==
    /\ Active(t) /\ AtEnd(t)
    /\ state' = [state EXCEPT ![t] = "committed"]
    /\ ws' = [w \in Workspaces |-> IF kind[t] = "create" /\ w \in at[t] THEN "open" ELSE ws[w]]
    /\ writer' = [w \in Workspaces |->
                    IF WritesRotation(kind[t]) /\ w \in at[t] THEN t ELSE writer[w]]
    /\ UNCHANGED <<kind, at, pos, log, nextId>>

RollBack(t) ==
    /\ Active(t)
    /\ state' = [state EXCEPT ![t] = "aborted"]
    /\ log' = {e \in log : e.tx # t}
    /\ UNCHANGED <<ws, kind, at, pos, nextId, writer>>

\* Mutant: audit_log cascades like the other tables.
CheckCascades(t) ==
    /\ Active(t) /\ ~AtEnd(t) /\ NextStatement(t) = "check"
    /\ state' = [state EXCEPT ![t] = "committed"]
    /\ ws' = [w \in Workspaces |-> IF w \in at[t] THEN "deleted" ELSE ws[w]]
    /\ log' = {e \in log : e.ws \notin at[t]}
    /\ UNCHANGED <<kind, at, pos, nextId, writer>>


\* After the cascades, the foreign key of audit_log, which has none: one entry
\* in one of the workspaces aborts the whole sweep.
Check(t) ==
    /\ Active(t) /\ ~AtEnd(t) /\ NextStatement(t) = "check"
    /\ IF \E w \in at[t] : Visible(t, w) # {}
       THEN RollBack(t)
       ELSE /\ state' = [state EXCEPT ![t] = "committed"]
            /\ ws' = [w \in Workspaces |-> IF w \in at[t] THEN "deleted" ELSE ws[w]]
            /\ UNCHANGED <<kind, at, pos, log, nextId, writer>>

\* An error of a statement, a lost connection, the death of the process.
Abort(t) == MayAbort /\ RollBack(t)

\* PostgreSQL aborts a transaction of a deadlock.
BreakDeadlock(t) == (\E S \in SUBSET Txs : t \in S /\ Deadlocked(S)) /\ RollBack(t)

Run(t) == Execute(t) \/ Check(t) \/ Commit(t)

Next ==
    \/ \E w \in Workspaces : Expire(w)
    \/ \E t \in Txs :
        \/ BeginCreate(t) \/ BeginSimulate(t) \/ BeginWrite(t) \/ BeginSweep(t)
        \/ Run(t) \/ Abort(t) \/ BreakDeadlock(t)

Fairness == /\ \A t \in Txs : WF_vars(Run(t))
            /\ WF_vars(\E t \in Txs : BreakDeadlock(t))

Spec == Init /\ [][Next]_vars /\ Fairness

-------------------------------------------------------------------------------

\* Type invariant.
TypeOK ==
    /\ ws \in [Workspaces -> {"absent", "open", "expired", "deleted"}]
    /\ kind \in [Txs -> Kinds]
    /\ at \in [Txs -> SUBSET Workspaces]
    /\ pos \in [Txs -> Nat] /\ \A t \in Txs : pos[t] <= Len(Statements(t))
    /\ state \in [Txs -> {"idle", "active", "committed", "aborted"}]
    /\ log \subseteq [ws : Workspaces, id : Nat \ {0}, prev : Nat, tx : Txs]
    /\ nextId \in Nat /\ \A e \in log : e.id < nextId
    /\ writer \in [Workspaces -> Txs \cup {0}]

\* e was made from the entry just before it among S.
Chained(e, S) ==
    \/ e.prev = 0 /\ \A f \in S : e.id <= f.id
    \/ \E f \in S : f.id = e.prev /\ f.id < e.id
                    /\ \A g \in S : g.id < e.id => g.id <= f.id

Trail(w) == {e \in Committed : e.ws = w}

\* The committed entries of a workspace, by id, form one chain without forks or
\* gaps, across writers of the API, the worker and the seeding that takes no
\* lock, and across aborted transactions.
ChainUnbroken == \A w \in Workspaces : \A e \in Trail(w) : Chained(e, Trail(w))

\* The log only grows, and at its end: nothing committed is ever deleted, the
\* expiry of the workspace included, and an entry committed later has the
\* higher id, so that a reader that pages by id misses nothing.
AppendOnly ==
    [][/\ Committed \subseteq Committed'
       /\ \A e \in Committed, f \in Committed' \ Committed : e.ws = f.ws => e.id < f.id]_vars

\* The order of the audit trail is the order in which the rotation's row was
\* written: its last writer is the author of the last entry about a write of
\* it, or the blocking gate, which leaves none.
TrailOrdersWrites ==
    \A w \in Workspaces : writer[w] # 0 /\ kind[writer[w]] # "block" =>
        \A e \in Trail(w) : WritesRotation(kind[e.tx]) =>
            e.tx = writer[w] \/ \E f \in Trail(w) : f.tx = writer[w] /\ e.id < f.id

\* Handlers, engine and jobs never deadlock among themselves; it takes the
\* sweeper, whose cascades lock rows in an order of their own.
DeadlockNeedsSweep ==
    \A S \in SUBSET {t \in Txs : kind[t] # "sweep"} : ~Deadlocked(S)

===============================================================================
