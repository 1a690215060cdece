--------------------------- MODULE AuditTrailProofs ---------------------------
(***************************************************************************)
(* Proofs about AuditTrail: for any number of workspaces and transactions, *)
(* the chain of a workspace neither forks nor skips an entry, and the log  *)
(* only grows at its end.  The argument: an entry is appended by who holds *)
(* the workspace's advisory lock, or has just made the workspace and is    *)
(* the only one to know it; so all the uncommitted entries of a workspace  *)
(* belong to one transaction, come after the committed ones, and that      *)
(* transaction sees the whole log when it looks for the last hash.         *)
(***************************************************************************)
EXTENDS AuditTrail, TLAPS

Entry == [ws : Workspaces, id : Nat \ {0}, prev : Nat, tx : Txs]

Typed ==
    /\ ws \in [Workspaces -> {"absent", "open", "expired", "deleted"}]
    /\ kind \in [Txs -> Kinds]
    /\ at \in [Txs -> SUBSET Workspaces]
    /\ pos \in [Txs -> Nat]
    /\ state \in [Txs -> {"idle", "active", "committed", "aborted"}]
    /\ log \subseteq Entry
    /\ nextId \in Nat \ {0}

\* How far a transaction is in its program.
Progress == \A t \in Txs : /\ state[t] = "idle" => pos[t] = 0
                           /\ pos[t] <= Len(Statements(t))

\* t may append to its workspaces.
Holds(t) == kind[t] = "create" \/ "advisory" \in Taken(t)

OneHolder ==
    \A t, u \in Txs, w \in Workspaces :
        Active(t) /\ Active(u) /\ Holds(t) /\ Holds(u) /\ w \in at[t] /\ w \in at[u] => t = u

\* A workspace that is being created is known to its creator only.
Private ==
    \A w \in Workspaces, t \in Txs : w \in at[t] /\ Active(t) =>
        (ws[w] = "absent" <=> kind[t] = "create")

\* The entries in the log are committed, or their transaction holds the chain.
Authors ==
    \A e \in log :
        \/ state[e.tx] = "committed"
        \/ Active(e.tx) /\ e.ws \in at[e.tx] /\ Holds(e.tx)

Fresh == \A e \in log : e.id < nextId

CommittedFirst ==
    \A e, f \in log :
        e.ws = f.ws /\ state[e.tx] = "committed" /\ state[f.tx] # "committed" => e.id < f.id

LogOf(w) == {e \in log : e.ws = w}

Chains == \A w \in Workspaces : \A e \in LogOf(w) : Chained(e, LogOf(w))

Locking == Typed /\ Progress /\ OneHolder /\ Private

IInv == Locking /\ Authors /\ Fresh /\ CommittedFirst /\ Chains

-------------------------------------------------------------------------------
(***************************************************************************)
(* The programs and the chain.                                             *)
(***************************************************************************)

LEMMA AppendsUnderLock ==
    ASSUME NEW k \in Kinds, NEW i \in 1..Len(Program[k])
    PROVE  /\ Program[k][i] = "append" => \E j \in 1..(i - 1) : Program[k][j] = "advisory"
           /\ Program[k][i] = "seed" => k = "create"
  <1>1. CASE k = "create"
    BY <1>1 DEF Program, CreateDemo
  <1>2. CASE k = "simulate"
    BY <1>2 DEF Program, Simulate
  <1>3. CASE k = "advance"
    BY <1>3 DEF Program, Advance
  <1>4. CASE k = "status"
    BY <1>4 DEF Program, WriteStatus
  <1>5. CASE k = "block"
    BY <1>5 DEF Program, BlockGate
  <1>6. CASE k = "confirm"
    BY <1>6 DEF Program, Confirm
  <1>7. CASE k = "approve"
    BY <1>7 DEF Program, Approve
  <1>8. CASE k = "investigate"
    BY <1>8 DEF Program, Persist
  <1>9. CASE k = "sweep"
    BY <1>9 DEF Program, Sweep
  <1> QED
    BY <1>1, <1>2, <1>3, <1>4, <1>5, <1>6, <1>7, <1>8, <1>9 DEF Kinds, Program

\* What precedes all the rest of a chain is a chain.
LEMMA ChainPrefix ==
    ASSUME NEW S \in SUBSET Entry, NEW R \in SUBSET S,
           \A e \in R, f \in S \ R : e.id < f.id,
           NEW e \in R, Chained(e, S)
    PROVE  Chained(e, R)
  <1>1. CASE e.prev = 0 /\ \A f \in S : e.id <= f.id
    BY <1>1 DEF Chained
  <1>2. CASE \E f \in S : f.id = e.prev /\ f.id < e.id
                          /\ \A g \in S : g.id < e.id => g.id <= f.id
    <2>1. PICK f \in S : f.id = e.prev /\ f.id < e.id
                         /\ \A g \in S : g.id < e.id => g.id <= f.id
      BY <1>2
    <2>2. f \in R
      BY <2>1 DEF Entry
    <2> QED
      BY <2>1, <2>2 DEF Chained
  <1> QED
    BY <1>1, <1>2 DEF Chained

\* An entry made from the newest one continues the chain.
LEMMA ChainExtends ==
    ASSUME NEW S \in SUBSET Entry, NEW new \in Entry,
           \A e \in S : e.id < new.id, \A e \in S : Chained(e, S),
           Newest(new.prev, {e.id : e \in S}),
           NEW e \in S \cup {new}
    PROVE  Chained(e, S \cup {new})
  <1>1. CASE e \in S
    <2>1. Chained(e, S)
      BY <1>1
    <2>2. CASE e.prev = 0 /\ \A f \in S : e.id <= f.id
      BY <1>1, <2>2 DEF Chained, Entry
    <2>3. CASE \E f \in S : f.id = e.prev /\ f.id < e.id
                            /\ \A g \in S : g.id < e.id => g.id <= f.id
      BY <1>1, <2>3 DEF Chained, Entry
    <2> QED
      BY <2>1, <2>2, <2>3 DEF Chained
  <1>2. CASE e = new
    <2>1. CASE S = {}
      BY <1>2, <2>1 DEF Chained, Newest, Entry
    <2>2. CASE S # {}
      BY <1>2, <2>2 DEF Chained, Newest, Entry
    <2> QED
      BY <2>1, <2>2
  <1> QED
    BY <1>1, <1>2

-------------------------------------------------------------------------------
(***************************************************************************)
(* Who may append.                                                         *)
(***************************************************************************)

\* What the five kinds of beginnings have in common.
Begins(t, k, targets) ==
    /\ k \in Kinds /\ targets \subseteq Workspaces
    /\ k # "sweep" => \E w \in Workspaces : targets = {w}
    /\ Begin(t, k, targets)
    /\ \A w \in targets : ws[w] = "absent" <=> k = "create"
    /\ \A w \in targets, u \in Txs : k = "create" /\ w \in at[u] => ~Active(u)

\* The sweep goes through.
Sweeps(t) ==
    /\ Active(t) /\ ~AtEnd(t) /\ NextStatement(t) = "check"
    /\ state' = [state EXCEPT ![t] = "committed"]
    /\ ws' = [w \in Workspaces |-> IF w \in at[t] THEN "deleted" ELSE ws[w]]
    /\ UNCHANGED <<kind, at, pos, log, nextId, writer>>

LEMMA KindNames == /\ Kinds = {"create", "simulate", "advance", "status", "block", "confirm",
                               "approve", "investigate", "sweep"}
  BY DEF Kinds, Program

LEMMA Steps ==
    ASSUME Typed, [Next]_vars
    PROVE  \/ UNCHANGED vars
           \/ \E w \in Workspaces : Expire(w)
           \/ \E t \in Txs : \/ \E k, targets : Begins(t, k, targets)
                             \/ Execute(t) \/ Commit(t) \/ RollBack(t) \/ Sweeps(t)
  <1>1. ASSUME NEW t \in Txs, BeginCreate(t) \/ BeginSimulate(t) \/ BeginWrite(t) \/ BeginSweep(t)
        PROVE  \E k, targets : Begins(t, k, targets)
    <2>1. CASE BeginCreate(t)
      <3>1. PICK w \in Demos : /\ ws[w] = "absent"
                               /\ \A u \in Txs : w \in at[u] => state[u] = "aborted"
                               /\ Begin(t, "create", {w})
        BY <2>1 DEF BeginCreate
      <3>2. Begins(t, "create", {w})
        BY <3>1, KindNames DEF Begins, Workspaces, Active
      <3> QED
        BY <3>2
    <2>2. CASE BeginSimulate(t)
      <3>1. PICK w \in Demos : ws[w] \in {"open", "expired"} /\ Begin(t, "simulate", {w})
        BY <2>2 DEF BeginSimulate
      <3>2. Begins(t, "simulate", {w})
        BY <3>1, KindNames DEF Begins, Workspaces
      <3> QED
        BY <3>2
    <2>3. CASE BeginWrite(t)
      <3>1. PICK w \in Workspaces, k \in Kinds \ {"create", "simulate", "sweep"} :
                 ws[w] \in {"open", "expired"} /\ Begin(t, k, {w})
        BY <2>3 DEF BeginWrite
      <3>2. Begins(t, k, {w})
        BY <3>1 DEF Begins
      <3> QED
        BY <3>2
    <2>4. CASE BeginSweep(t)
      <3>1. Begins(t, "sweep", {w \in Workspaces : Expired(w)})
        BY <2>4, KindNames DEF BeginSweep, Begins, Expired
      <3> QED
        BY <3>1
    <2> QED
      BY <1>1, <2>1, <2>2, <2>3, <2>4
  <1>2. ASSUME NEW t \in Txs, Run(t) \/ Abort(t) \/ BreakDeadlock(t)
        PROVE  Execute(t) \/ Commit(t) \/ RollBack(t) \/ Sweeps(t)
    <2>1. CASE Check(t)
      BY <2>1 DEF Check, Sweeps
    <2> QED
      BY <1>2, <2>1 DEF Run, Abort, BreakDeadlock
  <1> QED
    BY <1>1, <1>2 DEF Next

LEMMA KeepsTyped ==
    ASSUME Locking, [Next]_vars
    PROVE  Typed'
  <1> USE DEF Locking, Typed
  <1>1. CASE UNCHANGED vars
    BY <1>1 DEF vars
  <1>2. ASSUME NEW w \in Workspaces, Expire(w)
        PROVE  Typed'
    BY <1>2 DEF Expire
  <1>3. ASSUME NEW t \in Txs, NEW k, NEW targets, Begins(t, k, targets)
        PROVE  Typed'
    BY <1>3 DEF Begins, Begin
  <1>4. ASSUME NEW t \in Txs, Execute(t)
        PROVE  Typed'
    <2>1. log' \subseteq Entry /\ nextId' \in Nat \ {0}
      <3>1. CASE UNCHANGED <<log, nextId>>
        BY <3>1
      <3>2. CASE \E w \in at[t] : Append1(t, w)
        <4>1. PICK w \in at[t] : Append1(t, w)
          BY <3>2
        <4>2. PICK p \in 0..nextId :
                   /\ log' = log \cup {[ws |-> w, id |-> nextId, prev |-> p, tx |-> t]}
                   /\ nextId' = nextId + 1
          BY <4>1 DEF Append1
        <4> QED
          BY <4>2 DEF Entry
      <3> QED
        BY <1>4, <3>1, <3>2 DEF Execute
    <2>2. pos' \in [Txs -> Nat]
      BY <1>4 DEF Execute
    <2> QED
      BY <1>4, <2>1, <2>2 DEF Execute
  <1>5. ASSUME NEW t \in Txs, Commit(t)
        PROVE  Typed'
    BY <1>5 DEF Commit
  <1>6. ASSUME NEW t \in Txs, RollBack(t)
        PROVE  Typed'
    BY <1>6 DEF RollBack
  <1>7. ASSUME NEW t \in Txs, Sweeps(t)
        PROVE  Typed'
    BY <1>7 DEF Sweeps
  <1> QED
    BY <1>1, <1>2, <1>3, <1>4, <1>5, <1>6, <1>7, Steps

LEMMA ProgramLengths == \A k \in Kinds : Len(Program[k]) \in Nat
  BY KindNames DEF Program, CreateDemo, Simulate, Advance, WriteStatus, BlockGate, Confirm, Approve, Persist, Sweep

LEMMA KeepsProgress ==
    ASSUME Locking, [Next]_vars
    PROVE  Progress'
  <1> USE DEF Locking, Typed, Progress, Statements
  <1>1. CASE UNCHANGED vars
    BY <1>1 DEF vars
  <1>2. ASSUME NEW w \in Workspaces, Expire(w)
        PROVE  Progress'
    BY <1>2 DEF Expire
  <1>3. ASSUME NEW t \in Txs, NEW k, NEW targets, Begins(t, k, targets)
        PROVE  Progress'
    BY <1>3, ProgramLengths DEF Begins, Begin
  <1>4. ASSUME NEW t \in Txs, Execute(t)
        PROVE  Progress'
    BY <1>4, ProgramLengths DEF Execute, Active, AtEnd
  <1>5. ASSUME NEW t \in Txs, Commit(t)
        PROVE  Progress'
    BY <1>5 DEF Commit
  <1>6. ASSUME NEW t \in Txs, RollBack(t)
        PROVE  Progress'
    BY <1>6 DEF RollBack
  <1>7. ASSUME NEW t \in Txs, Sweeps(t)
        PROVE  Progress'
    BY <1>7 DEF Sweeps
  <1> QED
    BY <1>1, <1>2, <1>3, <1>4, <1>5, <1>6, <1>7, Steps

\* A statement that does not take the advisory lock lets nobody in.
LEMMA HoldsAfter ==
    ASSUME Typed, NEW t \in Txs, Execute(t), NEW u \in Txs, Holds(u)'
    PROVE  Holds(u) \/ (u = t /\ NextStatement(t) = "advisory")
  <1> USE DEF Typed, Holds, Taken, Statements
  <1>1. CASE u # t
    BY <1>1 DEF Execute
  <1>2. CASE u = t
    <2>1. kind' = kind /\ pos'[t] = pos[t] + 1
      BY DEF Execute
    <2>2. \A i \in 1..(pos[t] + 1) : i \in 1..pos[t] \/ i = pos[t] + 1
      OBVIOUS
    <2> QED
      BY <1>2, <2>1, <2>2 DEF NextStatement
  <1> QED
    BY <1>1, <1>2

LEMMA KeepsPrivate ==
    ASSUME Locking, [Next]_vars
    PROVE  Private'
  <1> USE DEF Locking, Typed, Private, Active
  <1>1. CASE UNCHANGED vars
    BY <1>1 DEF vars
  <1>2. ASSUME NEW w \in Workspaces, Expire(w)
        PROVE  Private'
    BY <1>2 DEF Expire
  <1>3. ASSUME NEW t \in Txs, NEW k, NEW targets, Begins(t, k, targets)
        PROVE  Private'
    BY <1>3 DEF Begins, Begin
  <1>4. ASSUME NEW t \in Txs, Execute(t)
        PROVE  Private'
    BY <1>4 DEF Execute
  <1>5. ASSUME NEW t \in Txs, Commit(t)
        PROVE  Private'
    BY <1>5 DEF Commit, OneHolder, Holds
  <1>6. ASSUME NEW t \in Txs, RollBack(t)
        PROVE  Private'
    BY <1>6 DEF RollBack
  <1>7. ASSUME NEW t \in Txs, Sweeps(t)
        PROVE  Private'
    <2>1. kind[t] # "create"
      <3> SUFFICES ASSUME kind[t] = "create"
                   PROVE  FALSE
        OBVIOUS
      <3>1. Statements(t) = <<"seed", "seed">>
        BY KindNames DEF Statements, Program, CreateDemo, Simulate, Advance, WriteStatus, BlockGate, Confirm, Approve, Persist, Sweep
      <3>2. pos[t] + 1 \in 1..2
        <4>1. Len(Statements(t)) = 2
          BY <3>1
        <4>2. pos[t] <= Len(Statements(t))
          BY DEF Progress
        <4>3. pos[t] # Len(Statements(t))
          BY <1>7 DEF Sweeps, AtEnd
        <4> QED
          BY <4>1, <4>2, <4>3
      <3> QED
        BY <1>7, <3>1, <3>2 DEF Sweeps, NextStatement
    <2> QED
      BY <1>7, <2>1 DEF Sweeps
  <1> QED
    BY <1>1, <1>2, <1>3, <1>4, <1>5, <1>6, <1>7, Steps

LEMMA KeepsOneHolder ==
    ASSUME Locking, [Next]_vars
    PROVE  OneHolder'
  <1> USE DEF Locking, Typed, OneHolder, Active
  <1>1. CASE UNCHANGED vars
    BY <1>1 DEF vars, Holds, Taken, Statements
  <1>2. ASSUME NEW w \in Workspaces, Expire(w)
        PROVE  OneHolder'
    BY <1>2 DEF Expire, Holds, Taken, Statements
  <1>3. ASSUME NEW t \in Txs, NEW k, NEW targets, Begins(t, k, targets)
        PROVE  OneHolder'
    <2>1. \A u \in Txs : u # t => Holds(u)' = Holds(u) /\ Active(u)' = Active(u) /\ at'[u] = at[u]
      BY <1>3 DEF Begins, Begin, Holds, Taken, Statements
    <2>2. Holds(t)' => k = "create"
      BY <1>3 DEF Begins, Begin, Holds, Taken, Statements, Progress
    <2>3. at'[t] = targets
      BY <1>3 DEF Begins, Begin
    <2>4. \A u \in Txs, w \in Workspaces : w \in targets /\ w \in at[u] /\ k = "create" => ~Active(u)
      BY <1>3 DEF Begins
    <2> QED
      BY <2>1, <2>2, <2>3, <2>4
  <1>4. ASSUME NEW t \in Txs, Execute(t)
        PROVE  OneHolder'
    <2> SUFFICES ASSUME NEW u \in Txs, NEW v \in Txs, NEW w \in Workspaces, u # v,
                        Active(u), Active(v), Holds(u)', Holds(v)', w \in at[u], w \in at[v]
                 PROVE  FALSE
      BY <1>4 DEF Execute
    <2>1. ASSUME NEW x \in Txs, x # t, Active(x), Holds(x), w \in at[x], w \in at[t], ~Holds(t),
                 NextStatement(t) = "advisory"
          PROVE  FALSE
      <3>1. CASE kind[x] = "create"
        BY <1>4, <2>1, <3>1 DEF Private, Holds, Execute
      <3>2. CASE "advisory" \in Taken(x)
        BY <1>4, <2>1, <3>2 DEF Execute, Blocks, Conflict, Exclusive
      <3> QED
        BY <2>1, <3>1, <3>2 DEF Holds
    <2>2. CASE Holds(u) /\ Holds(v)
      BY <2>2
    <2> QED
      BY <1>4, <2>1, <2>2, HoldsAfter
  <1>5. ASSUME NEW t \in Txs, Commit(t)
        PROVE  OneHolder'
    BY <1>5 DEF Commit, Holds, Taken, Statements
  <1>6. ASSUME NEW t \in Txs, RollBack(t)
        PROVE  OneHolder'
    BY <1>6 DEF RollBack, Holds, Taken, Statements
  <1>7. ASSUME NEW t \in Txs, Sweeps(t)
        PROVE  OneHolder'
    BY <1>7 DEF Sweeps, Holds, Taken, Statements
  <1> QED
    BY <1>1, <1>2, <1>3, <1>4, <1>5, <1>6, <1>7, Steps

LEMMA KeepsLocking == Locking /\ [Next]_vars => Locking'
  BY KeepsTyped, KeepsProgress, KeepsPrivate, KeepsOneHolder DEF Locking

-------------------------------------------------------------------------------
(***************************************************************************)
(* What is in the log.                                                     *)
(***************************************************************************)

Extends(t, w, p) ==
    /\ w \in at[t] /\ p \in 0..nextId /\ Active(t) /\ Holds(t)
    /\ Newest(p, {e.id : e \in LogOf(w)})
    /\ log' = log \cup {[ws |-> w, id |-> nextId, prev |-> p, tx |-> t]}
    /\ nextId' = nextId + 1

\* Who holds the chain sees all of it.
LEMMA SeesAll ==
    ASSUME Locking, Authors, NEW t \in Txs, Active(t), Holds(t), NEW w \in at[t]
    PROVE  /\ \A e \in LogOf(w) : state[e.tx] = "committed" \/ e.tx = t
           /\ Visible(t, w) = LogOf(w)
  <1>1. ASSUME NEW e \in LogOf(w)
        PROVE  state[e.tx] = "committed" \/ e.tx = t
    <2>1. e \in log /\ e.tx \in Txs /\ e.ws = w /\ w \in Workspaces
      BY DEF Locking, Typed, LogOf, Entry
    <2> QED
      BY <2>1 DEF Locking, Authors, OneHolder
  <1> QED
    BY <1>1 DEF Visible, LogOf

LEMMA Executes ==
    ASSUME Locking, Authors, NEW t \in Txs, Execute(t)
    PROVE  UNCHANGED <<log, nextId>> \/ \E w, p : Extends(t, w, p)
  <1>1. CASE NextStatement(t) \in {"append", "seed"}
    <2>1. Holds(t)
      <3>1. kind[t] \in Kinds /\ pos[t] + 1 \in 1..Len(Program[kind[t]])
        <4>1. Len(Program[kind[t]]) \in Nat /\ pos[t] \in Nat /\ kind[t] \in Kinds
          BY ProgramLengths DEF Locking, Typed
        <4>2. pos[t] <= Len(Program[kind[t]]) /\ pos[t] # Len(Program[kind[t]])
          BY DEF Execute, AtEnd, Statements, Locking, Progress
        <4> QED
          BY <4>1, <4>2
      <3>2. /\ NextStatement(t) = "append" =>
                  \E j \in 1..pos[t] : Program[kind[t]][j] = "advisory"
            /\ NextStatement(t) = "seed" => kind[t] = "create"
        <4>1. (pos[t] + 1) - 1 = pos[t]
          BY DEF Locking, Typed
        <4> QED
          BY <3>1, <4>1, AppendsUnderLock DEF NextStatement, Statements
      <3> QED
        BY <1>1, <3>2 DEF Holds, Taken, Statements
    <2>2. PICK w \in at[t] : Append1(t, w)
      BY <1>1 DEF Execute
    <2>3. Visible(t, w) = LogOf(w)
      BY <2>1, SeesAll DEF Execute
    <2>4. PICK p \in 0..nextId :
               /\ Newest(p, {e.id : e \in LogOf(w)})
               /\ log' = log \cup {[ws |-> w, id |-> nextId, prev |-> p, tx |-> t]}
               /\ nextId' = nextId + 1
      BY <2>2, <2>3 DEF Append1
    <2>5. Extends(t, w, p)
      BY <2>1, <2>4 DEF Extends, Execute
    <2> QED
      BY <2>5
  <1>2. CASE NextStatement(t) \notin {"append", "seed"}
    BY <1>2 DEF Execute
  <1> QED
    BY <1>1, <1>2

LEMMA KeepsAuthors ==
    ASSUME IInv, [Next]_vars
    PROVE  Authors' /\ Fresh'
  <1> USE DEF IInv, Locking, Typed, Authors, Fresh, Active, Entry
  <1>1. CASE UNCHANGED vars
    BY <1>1 DEF vars, Holds, Taken, Statements
  <1>2. ASSUME NEW w \in Workspaces, Expire(w)
        PROVE  Authors' /\ Fresh'
    BY <1>2 DEF Expire, Holds, Taken, Statements
  <1>3. ASSUME NEW t \in Txs, NEW k, NEW targets, Begins(t, k, targets)
        PROVE  Authors' /\ Fresh'
    BY <1>3 DEF Begins, Begin, Holds, Taken, Statements
  <1>4. ASSUME NEW t \in Txs, Execute(t)
        PROVE  Authors' /\ Fresh'
    <2>1. \A u \in Txs : Holds(u) => Holds(u)'
      BY <1>4 DEF Execute, Holds, Taken, Statements
    <2>2. state' = state /\ at' = at
      BY <1>4 DEF Execute
    <2>3. CASE UNCHANGED <<log, nextId>>
      BY <2>1, <2>2, <2>3
    <2>4. ASSUME NEW w, NEW p, Extends(t, w, p)
          PROVE  Authors' /\ Fresh'
      BY <2>1, <2>2, <2>4 DEF Extends
    <2> QED
      BY <1>4, <2>3, <2>4, Executes
  <1>5. ASSUME NEW t \in Txs, Commit(t)
        PROVE  Authors' /\ Fresh'
    BY <1>5 DEF Commit, Holds, Taken, Statements
  <1>6. ASSUME NEW t \in Txs, RollBack(t)
        PROVE  Authors' /\ Fresh'
    BY <1>6 DEF RollBack, Holds, Taken, Statements
  <1>7. ASSUME NEW t \in Txs, Sweeps(t)
        PROVE  Authors' /\ Fresh'
    BY <1>7 DEF Sweeps, Holds, Taken, Statements
  <1> QED
    BY <1>1, <1>2, <1>3, <1>4, <1>5, <1>6, <1>7, Steps

LEMMA KeepsCommittedFirst ==
    ASSUME IInv, [Next]_vars
    PROVE  CommittedFirst'
  <1> USE DEF IInv, Locking, Typed, CommittedFirst, Active, Entry
  <1>1. CASE UNCHANGED vars
    BY <1>1 DEF vars
  <1>2. ASSUME NEW w \in Workspaces, Expire(w)
        PROVE  CommittedFirst'
    BY <1>2 DEF Expire
  <1>3. ASSUME NEW t \in Txs, NEW k, NEW targets, Begins(t, k, targets)
        PROVE  CommittedFirst'
    BY <1>3 DEF Begins, Begin
  <1>4. ASSUME NEW t \in Txs, Execute(t)
        PROVE  CommittedFirst'
    <2>1. CASE UNCHANGED <<log, nextId>>
      BY <1>4, <2>1 DEF Execute
    <2>2. ASSUME NEW w, NEW p, Extends(t, w, p)
          PROVE  CommittedFirst'
      BY <1>4, <2>2 DEF Execute, Extends, Fresh
    <2> QED
      BY <1>4, <2>1, <2>2, Executes
  <1>5. ASSUME NEW t \in Txs, Commit(t) \/ Sweeps(t)
        PROVE  CommittedFirst'
    <2>0. Active(t) /\ state' = [state EXCEPT ![t] = "committed"] /\ log' = log
      BY <1>5 DEF Commit, Sweeps
    <2> SUFFICES ASSUME NEW e \in log, NEW f \in log, e.ws = f.ws,
                        state'[e.tx] = "committed", state'[f.tx] # "committed"
                 PROVE  e.id < f.id
      BY <2>0
    <2>1. CASE e.tx = t
      <3>1. e.ws \in at[t] /\ Holds(t) /\ f.ws \in at[f.tx] /\ Holds(f.tx) /\ Active(f.tx)
        BY <2>0, <2>1 DEF Authors
      <3>2. f.tx = t
        BY <2>0, <2>1, <3>1 DEF OneHolder
      <3> QED
        BY <2>0, <3>2
    <2>2. CASE e.tx # t
      BY <2>0, <2>2
    <2> QED
      BY <2>1, <2>2
  <1>6. ASSUME NEW t \in Txs, RollBack(t)
        PROVE  CommittedFirst'
    BY <1>6 DEF RollBack
  <1> QED
    BY <1>1, <1>2, <1>3, <1>4, <1>5, <1>6, Steps

LEMMA KeepsChains ==
    ASSUME IInv, [Next]_vars
    PROVE  Chains'
  <1> USE DEF IInv, Locking, Typed, Chains
  <1>1. CASE UNCHANGED log
    BY <1>1 DEF LogOf
  <1>2. ASSUME NEW t \in Txs, NEW w, NEW p, Extends(t, w, p)
        PROVE  Chains'
    <2> SUFFICES ASSUME NEW v \in Workspaces, NEW e \in LogOf(v)'
                 PROVE  Chained(e, LogOf(v)')
      BY DEF Chained
    <2> DEFINE new == [ws |-> w, id |-> nextId, prev |-> p, tx |-> t]
    <2>1. CASE v # w
      <3>1. LogOf(v)' = LogOf(v)
        BY <1>2, <2>1 DEF Extends, LogOf
      <3> QED
        BY <3>1
    <2>2. CASE v = w
      <3>1. LogOf(v)' = LogOf(v) \cup {new} /\ new \in Entry /\ LogOf(v) \in SUBSET Entry
        BY <1>2, <2>2 DEF Extends, LogOf, Entry
      <3>2. \A f \in LogOf(v) : f.id < new.id
        BY DEF Fresh, LogOf
      <3>3. Newest(new.prev, {f.id : f \in LogOf(v)})
        BY <1>2, <2>2 DEF Extends
      <3> HIDE DEF new
      <3>4. Chained(e, LogOf(v) \cup {new})
        BY <3>1, <3>2, <3>3, ChainExtends
      <3> QED
        BY <3>1, <3>4
    <2> QED
      BY <2>1, <2>2
  <1>3. ASSUME NEW t \in Txs, RollBack(t)
        PROVE  Chains'
    <2> SUFFICES ASSUME NEW v \in Workspaces, NEW e \in LogOf(v)'
                 PROVE  Chained(e, LogOf(v)')
      BY DEF Chained
    <2>1. LogOf(v)' \in SUBSET LogOf(v) /\ LogOf(v) \in SUBSET Entry
      BY <1>3 DEF RollBack, LogOf
    <2>2. ASSUME NEW f \in LogOf(v)', NEW g \in LogOf(v) \ LogOf(v)'
          PROVE  f.id < g.id
      <3>1. g.tx = t /\ f.tx # t /\ g \in log /\ f \in log /\ f.ws = v /\ g.ws = v /\ Active(t)
        BY <1>3, <2>2 DEF RollBack, LogOf
      <3>2. v \in at[t] /\ Holds(t)
        BY <3>1 DEF Authors, Active
      <3>3. state[f.tx] = "committed"
        BY <3>1, <3>2, SeesAll DEF LogOf
      <3> QED
        BY <3>1, <3>3 DEF CommittedFirst, Active
    <2>3. Chained(e, LogOf(v))
      BY <2>1
    <2> QED
      BY <2>1, <2>2, <2>3, ChainPrefix
  <1>4. ASSUME NEW t \in Txs, Execute(t)
        PROVE  Chains'
    BY <1>1, <1>2, <1>4, Executes
  <1>5. ASSUME NEW t \in Txs, \/ \E k, targets : Begins(t, k, targets)
                              \/ Commit(t) \/ Sweeps(t)
        PROVE  UNCHANGED log
    BY <1>5 DEF Begins, Begin, Commit, Sweeps
  <1>6. (UNCHANGED vars \/ \E w \in Workspaces : Expire(w)) => UNCHANGED log
    BY DEF vars, Expire
  <1> QED
    BY <1>1, <1>3, <1>4, <1>5, <1>6, Steps

LEMMA Inductive ==
    /\ Init => IInv
    /\ IInv /\ [Next]_vars => IInv'
  <1>1. ASSUME Init
        PROVE  IInv
    <2>1. Typed
      BY <1>1, KindNames, AuditTrailAssumption DEF Init, Typed, Workspaces
    <2>2. Progress
      BY <1>1, KindNames, ProgramLengths, AuditTrailAssumption DEF Init, Progress, Statements
    <2>3. OneHolder /\ Private /\ Authors /\ Fresh /\ CommittedFirst /\ Chains
      BY <1>1 DEF Init, OneHolder, Private, Authors, Fresh, CommittedFirst, Chains, LogOf, Active
    <2> QED
      BY <2>1, <2>2, <2>3 DEF IInv, Locking
  <1>2. IInv /\ [Next]_vars => IInv'
    BY KeepsLocking, KeepsAuthors, KeepsCommittedFirst, KeepsChains DEF IInv
  <1> QED
    BY <1>1, <1>2

-------------------------------------------------------------------------------
(***************************************************************************)
(* The theorems.                                                           *)
(***************************************************************************)

\* The audit chain of every workspace is unbroken, however the transactions of
\* the API, the worker, the demo service and the sweeper interleave and abort.
THEOREM UnbrokenAlways == Spec => []ChainUnbroken
  <1>1. IInv => ChainUnbroken
    <2> SUFFICES ASSUME IInv, NEW w \in Workspaces, NEW e \in Trail(w)
                 PROVE  Chained(e, Trail(w))
      BY DEF ChainUnbroken
    <2>1. LogOf(w) \in SUBSET Entry /\ Trail(w) \in SUBSET LogOf(w)
      BY DEF IInv, Locking, Typed, LogOf, Trail, Committed
    <2>2. \A f \in Trail(w), g \in LogOf(w) \ Trail(w) : f.id < g.id
      BY DEF IInv, CommittedFirst, LogOf, Trail, Committed
    <2>3. Chained(e, LogOf(w))
      BY <2>1 DEF IInv, Chains
    <2> QED
      BY <2>1, <2>2, <2>3, ChainPrefix
  <1> QED
    BY <1>1, Inductive, PTL DEF Spec

\* No committed entry is ever lost, and whoever pages through a workspace's log
\* by id never misses one that is committed later.
THEOREM AppendOnlyAlways == Spec => AppendOnly
  <1> DEFINE Grows == /\ Committed \subseteq Committed'
                      /\ \A e \in Committed, f \in Committed' \ Committed :
                            e.ws = f.ws => e.id < f.id
  <1>1. IInv /\ [Next]_vars => Grows \/ UNCHANGED vars
    <2> SUFFICES ASSUME IInv, [Next]_vars
                 PROVE  Grows \/ UNCHANGED vars
      OBVIOUS
    <2> USE DEF IInv, Locking, Typed, Entry, Committed
    <2>1. ASSUME NEW w \in Workspaces, Expire(w)
          PROVE  Grows
      BY <2>1 DEF Expire
    <2>2. ASSUME NEW t \in Txs, NEW k, NEW targets, Begins(t, k, targets)
          PROVE  Grows
      BY <2>2 DEF Begins, Begin
    <2>3. ASSUME NEW t \in Txs, Execute(t)
          PROVE  Grows
      <3>1. CASE UNCHANGED <<log, nextId>>
        BY <2>3, <3>1 DEF Execute
      <3>2. ASSUME NEW w, NEW p, Extends(t, w, p)
            PROVE  Grows
        BY <2>3, <3>2 DEF Execute, Extends, Active
      <3> QED
        BY <2>3, <3>1, <3>2, Executes
    <2>4. ASSUME NEW t \in Txs, Commit(t) \/ Sweeps(t)
          PROVE  Grows
      <3>1. log' = log /\ \A u \in Txs : state[u] = "committed" => state'[u] = "committed"
        BY <2>4 DEF Commit, Sweeps
      <3> QED
        BY <3>1 DEF CommittedFirst
    <2>5. ASSUME NEW t \in Txs, RollBack(t)
          PROVE  Grows
      BY <2>5 DEF RollBack, Active
    <2> QED
      BY <2>1, <2>2, <2>3, <2>4, <2>5, Steps
  <1>2. IInv /\ [Next]_vars => [Grows]_vars
    BY <1>1
  <1> QED
    BY <1>2, Inductive, PTL DEF Spec, AppendOnly

-------------------------------------------------------------------------------
(***************************************************************************)
(* The trail and the rows that it is about.                                *)
(***************************************************************************)

\* A handler, a job or the engine writes to one workspace.
Targets == \A t \in Txs : Active(t) /\ kind[t] # "sweep" => \E w \in Workspaces : at[t] = {w}

\* What a transaction has appended is in the log.
Reported ==
    \A t \in Txs : Active(t) /\ (\E i \in 1..pos[t] : Statements(t)[i] \in {"append", "seed"}) =>
        \E e \in log : e.tx = t /\ e.ws \in at[t]

\* A sweep does not get past its last statement but by carrying it out.
Unswept == \A t \in Txs : kind[t] = "sweep" => ~AtEnd(t)

Writers == /\ writer \in [Workspaces -> Txs \cup {0}]
           /\ \A w \in Workspaces : writer[w] # 0 => state[writer[w]] = "committed"

TrailInv == IInv /\ Targets /\ Reported /\ Unswept /\ Writers /\ TrailOrdersWrites

\* Whoever writes the rotation's row leaves an entry, but for the gate.
LEMMA WritesAreReported ==
    ASSUME NEW k \in Kinds, k \notin {"sweep", "block"}, WritesRotation(k)
    PROVE  \E i \in 1..Len(Program[k]) : Program[k][i] \in {"append", "seed"}
  <1>1. CASE k = "create"
    <2>1. 1 \in 1..Len(Program[k]) /\ Program[k][1] = "seed"
      BY <1>1 DEF Program, CreateDemo
    <2> QED
      BY <2>1
  <1>2. CASE k = "simulate"
    <2>1. 4 \in 1..Len(Program[k]) /\ Program[k][4] = "append"
      BY <1>2 DEF Program, Simulate
    <2> QED
      BY <2>1
  <1>3. CASE k = "advance"
    <2>1. 4 \in 1..Len(Program[k]) /\ Program[k][4] = "append"
      BY <1>3 DEF Program, Advance
    <2> QED
      BY <2>1
  <1>4. CASE k = "status"
    <2>1. 3 \in 1..Len(Program[k]) /\ Program[k][3] = "append"
      BY <1>4 DEF Program, WriteStatus
    <2> QED
      BY <2>1
  <1>5. CASE k = "confirm"
    <2>1. 3 \in 1..Len(Program[k]) /\ Program[k][3] = "append"
      BY <1>5 DEF Program, Confirm
    <2> QED
      BY <2>1
  <1>6. CASE k = "approve"
    <2>1. 2 \in 1..Len(Program[k]) /\ Program[k][2] = "append"
      BY <1>6 DEF Program, Approve
    <2> QED
      BY <2>1
  <1>7. CASE k = "investigate"
    <2>1. 5 \in 1..Len(Program[k]) /\ Program[k][5] = "append"
      BY <1>7 DEF Program, Persist
    <2> QED
      BY <2>1
  <1> QED
    BY <1>1, <1>2, <1>3, <1>4, <1>5, <1>6, <1>7, KindNames

LEMMA SweepProgram ==
    /\ Len(Program["sweep"]) = 6 /\ Program["sweep"][6] = "check"
    /\ \A i \in 1..6 : Program["sweep"][i] \notin {"append", "seed", "advisory"}
  BY DEF Program, Sweep

LEMMA ChecksOfSweep ==
    ASSUME NEW k \in Kinds, NEW i \in 1..Len(Program[k]), Program[k][i] = "check"
    PROVE  k = "sweep"
  <1>1. CASE k = "create"
    BY <1>1 DEF Program, CreateDemo
  <1>2. CASE k = "simulate"
    BY <1>2 DEF Program, Simulate
  <1>3. CASE k = "advance"
    BY <1>3 DEF Program, Advance
  <1>4. CASE k = "status"
    BY <1>4 DEF Program, WriteStatus
  <1>5. CASE k = "block"
    BY <1>5 DEF Program, BlockGate
  <1>6. CASE k = "confirm"
    BY <1>6 DEF Program, Confirm
  <1>7. CASE k = "approve"
    BY <1>7 DEF Program, Approve
  <1>8. CASE k = "investigate"
    BY <1>8 DEF Program, Persist
  <1> QED
    BY <1>1, <1>2, <1>3, <1>4, <1>5, <1>6, <1>7, <1>8, KindNames

\* The check of the foreign key belongs to the sweep.
LEMMA OnlySweepChecks ==
    ASSUME IInv, NEW t \in Txs, ~AtEnd(t), NextStatement(t) = "check"
    PROVE  kind[t] = "sweep"
  <1>1. pos[t] + 1 \in 1..Len(Program[kind[t]]) /\ kind[t] \in Kinds
    <2>1. /\ kind[t] \in Kinds /\ pos[t] \in Nat
          /\ pos[t] <= Len(Program[kind[t]]) /\ pos[t] # Len(Program[kind[t]])
      BY DEF IInv, Locking, Typed, Progress, AtEnd, Statements
    <2> QED
      BY <2>1, ProgramLengths
  <1>2. Program[kind[t]][pos[t] + 1] = "check"
    BY DEF NextStatement, Statements
  <1> QED
    BY <1>1, <1>2, ChecksOfSweep

\* An active sweep has nothing in the log.
LEMMA SweepsAreSilent ==
    ASSUME IInv, NEW t \in Txs, kind[t] = "sweep", Active(t), NEW e \in log
    PROVE  e.tx # t
  <1>1. ASSUME NEW i \in 1..pos[t]
        PROVE  Statements(t)[i] # "advisory"
    <2>1. pos[t] \in Nat /\ pos[t] <= 6
      BY SweepProgram DEF IInv, Locking, Typed, Progress, Statements
    <2>2. i \in 1..6
      BY <2>1
    <2> QED
      BY <2>2, SweepProgram DEF Statements
  <1> QED
    BY <1>1 DEF IInv, Authors, Holds, Taken, Active

LEMMA KeepsTargets ==
    ASSUME IInv, Targets, [Next]_vars
    PROVE  Targets'
  <1> USE DEF IInv, Locking, Typed, Targets, Active
  <1>1. CASE UNCHANGED vars
    BY <1>1 DEF vars
  <1>2. ASSUME NEW w \in Workspaces, Expire(w)
        PROVE  Targets'
    BY <1>2 DEF Expire
  <1>3. ASSUME NEW t \in Txs, NEW k, NEW targets, Begins(t, k, targets)
        PROVE  Targets'
    BY <1>3 DEF Begins, Begin
  <1>4. ASSUME NEW t \in Txs, Execute(t) \/ Commit(t) \/ RollBack(t) \/ Sweeps(t)
        PROVE  Targets'
    BY <1>4 DEF Execute, Commit, RollBack, Sweeps
  <1> QED
    BY <1>1, <1>2, <1>3, <1>4, Steps

LEMMA KeepsReported ==
    ASSUME IInv, Reported, [Next]_vars
    PROVE  Reported'
  <1> USE DEF IInv, Locking, Typed, Reported, Active, Statements, Entry
  <1>1. CASE UNCHANGED vars
    BY <1>1 DEF vars
  <1>2. ASSUME NEW w \in Workspaces, Expire(w)
        PROVE  Reported'
    BY <1>2 DEF Expire
  <1>3. ASSUME NEW t \in Txs, NEW k, NEW targets, Begins(t, k, targets)
        PROVE  Reported'
    BY <1>3 DEF Begins, Begin, Progress
  <1>4. ASSUME NEW t \in Txs, Execute(t)
        PROVE  Reported'
    <2> SUFFICES ASSUME NEW u \in Txs, state[u] = "active",
                        NEW i \in 1..pos'[u], Statements(u)'[i] \in {"append", "seed"}
                 PROVE  \E e \in log' : e.tx = u /\ e.ws \in at[u]
      BY <1>4 DEF Execute
    <2>1. kind' = kind /\ log \subseteq log'
      BY <1>4, Executes DEF Execute, Extends
    <2>2. CASE i \in 1..pos[u]
      BY <2>1, <2>2
    <2>3. CASE i \notin 1..pos[u]
      <3>1. u = t /\ i = pos[t] + 1
        BY <1>4, <2>3 DEF Execute
      <3>2. NextStatement(t) \in {"append", "seed"}
        BY <2>1, <3>1 DEF NextStatement
      <3>3. PICK w \in at[t] : Append1(t, w)
        BY <1>4, <3>2 DEF Execute
      <3>4. PICK p \in 0..nextId :
                 log' = log \cup {[ws |-> w, id |-> nextId, prev |-> p, tx |-> t]}
        BY <3>3 DEF Append1
      <3> DEFINE e == [ws |-> w, id |-> nextId, prev |-> p, tx |-> t]
      <3>5. e \in log' /\ e.tx = u /\ e.ws \in at[u]
        BY <3>1, <3>4
      <3> QED
        BY <3>5
    <2> QED
      BY <2>2, <2>3
  <1>5. ASSUME NEW t \in Txs, Commit(t) \/ RollBack(t) \/ Sweeps(t)
        PROVE  Reported'
    BY <1>5 DEF Commit, RollBack, Sweeps
  <1> QED
    BY <1>1, <1>2, <1>3, <1>4, <1>5, Steps

LEMMA KeepsUnswept ==
    ASSUME IInv, Unswept, [Next]_vars
    PROVE  Unswept'
  <1> USE DEF IInv, Locking, Typed, Unswept, AtEnd, Statements
  <1>1. CASE UNCHANGED vars
    BY <1>1 DEF vars
  <1>2. ASSUME NEW w \in Workspaces, Expire(w)
        PROVE  Unswept'
    BY <1>2 DEF Expire
  <1>3. ASSUME NEW t \in Txs, NEW k, NEW targets, Begins(t, k, targets)
        PROVE  Unswept'
    BY <1>3, SweepProgram DEF Begins, Begin, Progress
  <1>4. ASSUME NEW t \in Txs, Execute(t)
        PROVE  Unswept'
    BY <1>4, SweepProgram DEF Execute, NextStatement
  <1>5. ASSUME NEW t \in Txs, Commit(t) \/ RollBack(t) \/ Sweeps(t)
        PROVE  Unswept'
    BY <1>5 DEF Commit, RollBack, Sweeps
  <1> QED
    BY <1>1, <1>2, <1>3, <1>4, <1>5, Steps

LEMMA KeepsWriters ==
    ASSUME IInv, Writers, [Next]_vars
    PROVE  Writers'
  <1> USE AuditTrailAssumption DEF IInv, Locking, Typed, Writers
  <1>1. CASE UNCHANGED vars
    BY <1>1 DEF vars
  <1>2. ASSUME NEW w \in Workspaces, Expire(w)
        PROVE  Writers'
    BY <1>2 DEF Expire
  <1>3. ASSUME NEW t \in Txs, NEW k, NEW targets, Begins(t, k, targets)
        PROVE  Writers'
    BY <1>3 DEF Begins, Begin
  <1>4. ASSUME NEW t \in Txs, Execute(t)
        PROVE  Writers'
    BY <1>4 DEF Execute
  <1>5. ASSUME NEW t \in Txs, Commit(t)
        PROVE  Writers'
    BY <1>5 DEF Commit
  <1>6. ASSUME NEW t \in Txs, RollBack(t) \/ Sweeps(t)
        PROVE  Writers'
    <2>1. writer' = writer /\ \A u \in Txs : state[u] = "committed" => state'[u] = "committed"
      BY <1>6 DEF RollBack, Sweeps, Active
    <2>2. ASSUME NEW w \in Workspaces, writer[w] # 0
          PROVE  state'[writer[w]] = "committed"
      <3>1. writer[w] \in Txs /\ state[writer[w]] = "committed"
        BY <2>2
      <3> QED
        BY <2>1, <3>1
    <2> QED
      BY <2>1, <2>2
  <1> QED
    BY <1>1, <1>2, <1>3, <1>4, <1>5, <1>6, Steps

\* The trail of a workspace and the kinds of those in it stay.
LEMMA SameTrail ==
    ASSUME IInv, Writers, TrailOrdersWrites, writer' = writer,
           \A w \in Workspaces : Trail(w)' = Trail(w),
           \A t \in Txs : state[t] = "committed" => kind'[t] = kind[t]
    PROVE  TrailOrdersWrites'
  <1> SUFFICES ASSUME NEW w \in Workspaces, writer[w] # 0, kind'[writer[w]] # "block",
                      NEW e \in Trail(w), WritesRotation(kind'[e.tx])
               PROVE  e.tx = writer[w] \/ \E f \in Trail(w) : f.tx = writer[w] /\ e.id < f.id
    BY DEF TrailOrdersWrites, WritesRotation
  <1>1. writer[w] \in Txs /\ state[writer[w]] = "committed"
    BY DEF Writers
  <1>2. e.tx \in Txs /\ state[e.tx] = "committed"
    BY DEF Trail, Committed, IInv, Locking, Typed, Entry
  <1> QED
    BY <1>1, <1>2 DEF TrailOrdersWrites

LEMMA KeepsOrder ==
    ASSUME TrailInv, [Next]_vars
    PROVE  TrailOrdersWrites'
  <1> USE DEF TrailInv
  <1>0. /\ log \subseteq Entry /\ state \in [Txs -> {"idle", "active", "committed", "aborted"}]
        /\ kind \in [Txs -> Kinds] /\ at \in [Txs -> SUBSET Workspaces]
        /\ writer \in [Workspaces -> Txs \cup {0}] /\ 0 \notin Txs
    BY AuditTrailAssumption DEF IInv, Locking, Typed, Writers
  <1>1. CASE UNCHANGED vars
    BY <1>1, SameTrail DEF vars, Trail, Committed
  <1>2. ASSUME NEW w \in Workspaces, Expire(w)
        PROVE  TrailOrdersWrites'
    BY <1>2, SameTrail DEF Expire, Trail, Committed
  <1>3. ASSUME NEW t \in Txs, NEW k, NEW targets, Begins(t, k, targets)
        PROVE  TrailOrdersWrites'
    <2>1. \A u \in Txs : /\ state'[u] = "committed" <=> state[u] = "committed"
                         /\ state[u] = "committed" => kind'[u] = kind[u]
      BY <1>0, <1>3 DEF Begins, Begin
    <2>2. log' = log /\ writer' = writer
      BY <1>3 DEF Begins, Begin
    <2>3. ASSUME NEW v \in Workspaces
          PROVE  Trail(v)' = Trail(v)
      BY <1>0, <2>1, <2>2 DEF Trail, Committed, Entry
    <2> QED
      BY <2>1, <2>2, <2>3, SameTrail
  <1>4. ASSUME NEW t \in Txs, Execute(t)
        PROVE  TrailOrdersWrites'
    <2>1. state' = state /\ kind' = kind /\ writer' = writer /\ state[t] = "active"
      BY <1>4 DEF Execute, Active
    <2>2. \A e \in log' \ log : e.tx = t
      <3>1. UNCHANGED log \/ \E w, p : Extends(t, w, p)
        BY <1>4, Executes DEF IInv
      <3>2. ASSUME NEW w, NEW p, Extends(t, w, p), NEW e \in log' \ log
            PROVE  e.tx = t
        <4>1. e = [ws |-> w, id |-> nextId, prev |-> p, tx |-> t]
          BY <3>2 DEF Extends
        <4> QED
          BY <4>1
      <3> QED
        BY <3>1, <3>2
    <2>3. log \subseteq log'
      BY <1>4, Executes DEF Extends, IInv
    <2>4. ASSUME NEW v \in Workspaces
          PROVE  Trail(v)' = Trail(v)
      BY <2>1, <2>2, <2>3 DEF Trail, Committed
    <2> QED
      BY <2>1, <2>4, SameTrail
  <1>5. ASSUME NEW t \in Txs, RollBack(t)
        PROVE  TrailOrdersWrites'
    <2>1. \A u \in Txs : state'[u] = "committed" <=> state[u] = "committed"
      BY <1>0, <1>5 DEF RollBack, Active
    <2>2. kind' = kind /\ writer' = writer /\ log' = {e \in log : e.tx # t}
          /\ state[t] # "committed"
      BY <1>5 DEF RollBack, Active
    <2>3. ASSUME NEW v \in Workspaces
          PROVE  Trail(v)' = Trail(v)
      BY <1>0, <2>1, <2>2 DEF Trail, Committed, Entry
    <2> QED
      BY <2>2, <2>3, SameTrail
  <1>6. ASSUME NEW t \in Txs, Sweeps(t)
        PROVE  TrailOrdersWrites'
    <2>1. kind[t] = "sweep"
      BY <1>6, OnlySweepChecks DEF Sweeps, IInv
    <2>2. \A e \in log : e.tx # t
      BY <1>6, <2>1, SweepsAreSilent DEF Sweeps
    <2>3. /\ kind' = kind /\ writer' = writer /\ log' = log
          /\ state' = [state EXCEPT ![t] = "committed"]
      BY <1>6 DEF Sweeps
    <2>4. ASSUME NEW v \in Workspaces
          PROVE  Trail(v)' = Trail(v)
      BY <1>0, <2>2, <2>3 DEF Trail, Committed, Entry
    <2> QED
      BY <2>3, <2>4, SameTrail
  <1>7. ASSUME NEW t \in Txs, Commit(t)
        PROVE  TrailOrdersWrites'
    <2>0. /\ kind' = kind /\ log' = log /\ state' = [state EXCEPT ![t] = "committed"]
          /\ writer' = [w \in Workspaces |->
                            IF WritesRotation(kind[t]) /\ w \in at[t] THEN t ELSE writer[w]]
          /\ Active(t) /\ AtEnd(t) /\ kind[t] # "sweep"
      BY <1>7 DEF Commit, Unswept
    <2>00. kind' = kind
      BY <2>0
    <2> SUFFICES ASSUME NEW w \in Workspaces, writer'[w] # 0, kind[writer'[w]] # "block",
                        NEW e \in Trail(w)', WritesRotation(kind[e.tx])
                 PROVE  e.tx = writer'[w]
                        \/ \E f \in Trail(w)' : f.tx = writer'[w] /\ e.id < f.id
      BY <2>00 DEF TrailOrdersWrites, WritesRotation
    <2>1. e \in log /\ e.tx \in Txs /\ e.ws = w /\ (e.tx = t \/ state[e.tx] = "committed")
      BY <1>0, <2>0 DEF Trail, Committed, Entry
    <2>2. \A f \in Trail(w) : f \in Trail(w)'
      BY <1>0, <2>0 DEF Trail, Committed, Entry
    <2>3. CASE WritesRotation(kind[t]) /\ w \in at[t]
      <3>1. writer'[w] = t /\ kind[t] # "block"
        BY <2>0, <2>3
      <3>2. \E i \in 1..pos[t] : Statements(t)[i] \in {"append", "seed"}
        BY <1>0, <2>0, <2>3, <3>1, WritesAreReported DEF AtEnd, Statements
      <3>3. PICK f \in log : f.tx = t /\ f.ws \in at[t]
        BY <2>0, <3>2 DEF Reported
      <3>4. f.ws = w
        BY <2>0, <2>3, <3>3 DEF Targets
      <3>5. f \in Trail(w)'
        BY <1>0, <2>0, <3>3, <3>4 DEF Trail, Committed
      <3>6. CASE e.tx # t
        <4>1. e.id < f.id
          BY <2>0, <2>1, <3>3, <3>4, <3>6 DEF IInv, CommittedFirst, Active
        <4> QED
          BY <3>1, <3>3, <3>5, <4>1
      <3> QED
        BY <3>1, <3>6
    <2>4. CASE ~(WritesRotation(kind[t]) /\ w \in at[t])
      <3>1. writer'[w] = writer[w]
        BY <2>0, <2>4
      <3>2. e.tx # t
        <4>1. e.tx = t => w \in at[t]
          BY <2>0, <2>1 DEF IInv, Authors, Active
        <4> QED
          BY <2>4, <4>1
      <3>3. e \in Trail(w)
        BY <2>1, <3>2 DEF Trail, Committed
      <3> QED
        BY <2>2, <3>1, <3>3 DEF TrailOrdersWrites
    <2> QED
      BY <2>3, <2>4
  <1> QED
    BY <1>1, <1>2, <1>3, <1>4, <1>5, <1>6, <1>7, Steps DEF IInv, Locking

\* The order of a workspace's trail is the order of the writes that it reports,
\* for any number of concurrent transactions.
THEOREM TrailOrdersAlways == Spec => []TrailOrdersWrites
  <1>1. Init => TrailInv
    BY Inductive, SweepProgram, AuditTrailAssumption
    DEF Init, TrailInv, Targets, Reported, Unswept, Writers, TrailOrdersWrites, Active
  <1>2. TrailInv /\ [Next]_vars => TrailInv'
    BY Inductive, KeepsTargets, KeepsReported, KeepsUnswept, KeepsWriters, KeepsOrder DEF TrailInv
  <1>3. TrailInv => TrailOrdersWrites
    BY DEF TrailInv
  <1> QED
    BY <1>1, <1>2, <1>3, PTL DEF Spec

\* Every statement of the model stays within its domain.
THEOREM TypeCorrect == Spec => []TypeOK
  <1>1. IInv /\ Writers => TypeOK
    BY DEF IInv, Locking, Typed, Progress, Fresh, Writers, TypeOK, Entry
  <1>2. Init => IInv /\ Writers
    BY Inductive DEF Init, Writers
  <1>3. IInv /\ Writers /\ [Next]_vars => (IInv /\ Writers)'
    BY Inductive, KeepsWriters
  <1> QED
    BY <1>1, <1>2, <1>3, PTL DEF Spec

-------------------------------------------------------------------------------
(***************************************************************************)
(* Locks are taken upwards, by everybody but the sweeper.                  *)
(***************************************************************************)

Rank(a) == CASE a \in {"steps", "secret"} -> 1
             [] a \in {"rotation", "investigation"} -> 2
             [] a = "advisory" -> 3
             [] OTHER -> 0

LEMMA TakenUpwards ==
    ASSUME NEW k \in Kinds, k # "sweep", NEW j \in 1..Len(Program[k]), NEW i \in 1..(j - 1),
           Program[k][i] \in Exclusive, Program[k][j] \in Exclusive
    PROVE  Rank(Program[k][i]) < Rank(Program[k][j])
  <1> USE DEF Exclusive, Rank
  <1>1. CASE k = "create"
    BY <1>1 DEF Program, CreateDemo
  <1>2. CASE k = "simulate"
    BY <1>2 DEF Program, Simulate
  <1>3. CASE k = "advance"
    BY <1>3 DEF Program, Advance
  <1>4. CASE k = "status"
    BY <1>4 DEF Program, WriteStatus
  <1>5. CASE k = "block"
    BY <1>5 DEF Program, BlockGate
  <1>6. CASE k = "confirm"
    BY <1>6 DEF Program, Confirm
  <1>7. CASE k = "approve"
    BY <1>7 DEF Program, Approve
  <1>8. CASE k = "investigate"
    BY <1>8 DEF Program, Persist
  <1> QED
    BY <1>1, <1>2, <1>3, <1>4, <1>5, <1>6, <1>7, <1>8, KindNames

LEMMA OnlySweepLocksWorkspaces ==
    ASSUME NEW k \in Kinds, k # "sweep", NEW i \in 1..Len(Program[k])
    PROVE  Program[k][i] # "workspace"
  <1>1. CASE k = "create"
    BY <1>1 DEF Program, CreateDemo
  <1>2. CASE k = "simulate"
    BY <1>2 DEF Program, Simulate
  <1>3. CASE k = "advance"
    BY <1>3 DEF Program, Advance
  <1>4. CASE k = "status"
    BY <1>4 DEF Program, WriteStatus
  <1>5. CASE k = "block"
    BY <1>5 DEF Program, BlockGate
  <1>6. CASE k = "confirm"
    BY <1>6 DEF Program, Confirm
  <1>7. CASE k = "approve"
    BY <1>7 DEF Program, Approve
  <1>8. CASE k = "investigate"
    BY <1>8 DEF Program, Persist
  <1> QED
    BY <1>1, <1>2, <1>3, <1>4, <1>5, <1>6, <1>7, <1>8, KindNames

\* Who waits for a transaction waits for a lock below the one that it waits for.
LEMMA WaitsUpwards ==
    ASSUME Locking, NEW t \in Txs, NEW u \in Txs, NEW v \in Txs,
           kind[t] # "sweep", kind[u] # "sweep", kind[v] # "sweep",
           WaitsFor(t, u), WaitsFor(u, v)
    PROVE  Rank(NextStatement(t)) < Rank(NextStatement(u))
  <1>1. ASSUME NEW x \in Txs, NEW y \in Txs, kind[x] # "sweep", kind[y] # "sweep", WaitsFor(x, y)
        PROVE  /\ kind[x] \in Kinds
               /\ pos[x] + 1 \in 1..Len(Program[kind[x]])
               /\ NextStatement(x) = Program[kind[x]][pos[x] + 1]
               /\ NextStatement(x) \in Exclusive
               /\ NextStatement(x) \in Taken(y)
    <2>1. kind[x] \in Kinds /\ kind[y] \in Kinds
      BY DEF Locking, Typed
    <2>2. /\ pos[x] \in Nat /\ pos[x] <= Len(Program[kind[x]]) /\ pos[x] # Len(Program[kind[x]])
          /\ pos[y] \in Nat /\ pos[y] <= Len(Program[kind[y]])
      BY <1>1 DEF Locking, Typed, Progress, WaitsFor, AtEnd, Statements
    <2>3. Len(Program[kind[x]]) \in Nat /\ Len(Program[kind[y]]) \in Nat
      BY <2>1, ProgramLengths
    <2>4. pos[x] + 1 \in 1..Len(Program[kind[x]])
      BY <2>2, <2>3
    <2>5. NextStatement(x) = Program[kind[x]][pos[x] + 1]
      BY DEF NextStatement, Statements
    <2>6. NextStatement(x) # "workspace"
      BY <1>1, <2>1, <2>4, <2>5, OnlySweepLocksWorkspaces
    <2>7. PICK a \in Taken(y) : Conflict(a, NextStatement(x))
      BY <1>1 DEF WaitsFor, Blocks
    <2>8. a # "workspace"
      <3>1. PICK i \in 1..pos[y] : a = Program[kind[y]][i]
        BY <2>7 DEF Taken, Statements
      <3>2. i \in 1..Len(Program[kind[y]])
        BY <2>2, <2>3, <3>1
      <3> QED
        BY <1>1, <2>1, <3>1, <3>2, OnlySweepLocksWorkspaces
    <2>9. a = NextStatement(x) /\ a \in Exclusive
      BY <2>6, <2>7, <2>8 DEF Conflict
    <2> QED
      BY <2>1, <2>4, <2>5, <2>7, <2>9
  <1>2. PICK i \in 1..pos[u] : NextStatement(t) = Program[kind[u]][i]
    BY <1>1 DEF Taken, Statements
  <1>3. i \in 1..((pos[u] + 1) - 1)
    BY <1>2 DEF Locking, Typed
  <1>4. /\ Program[kind[u]][i] \in Exclusive
        /\ Program[kind[u]][pos[u] + 1] \in Exclusive
        /\ pos[u] + 1 \in 1..Len(Program[kind[u]])
        /\ NextStatement(u) = Program[kind[u]][pos[u] + 1]
        /\ kind[u] \in Kinds
    BY <1>1, <1>2
  <1> QED
    BY <1>2, <1>3, <1>4, TakenUpwards

\* API handlers, engine and jobs cannot deadlock with one another, however many
\* of them write to however many workspaces.
THEOREM NoDeadlockWithoutSweep == Spec => []DeadlockNeedsSweep
  <1>1. IInv => DeadlockNeedsSweep
    <2> SUFFICES ASSUME IInv, NEW S \in SUBSET {t \in Txs : kind[t] # "sweep"}, Deadlocked(S)
                 PROVE  FALSE
      BY DEF DeadlockNeedsSweep
    <2>1. Locking
      BY DEF IInv
    <2>2. \A t \in S : \E u \in S : WaitsFor(t, u)
      BY DEF Deadlocked
    <2>3. ASSUME NEW t \in S
          PROVE  \E u \in S : Rank(NextStatement(t)) < Rank(NextStatement(u))
      <3>1. PICK u \in S : WaitsFor(t, u)
        BY <2>2
      <3>2. PICK v \in S : WaitsFor(u, v)
        BY <2>2
      <3> QED
        BY <2>1, <3>1, <3>2, WaitsUpwards
    <2>4. \A t \in S : Rank(NextStatement(t)) \in 0..3
      BY DEF Rank
    <2>5. PICK t1 \in S : TRUE
      BY DEF Deadlocked
    <2>6. PICK t2 \in S : Rank(NextStatement(t1)) < Rank(NextStatement(t2))
      BY <2>3
    <2>7. PICK t3 \in S : Rank(NextStatement(t2)) < Rank(NextStatement(t3))
      BY <2>3
    <2>8. PICK t4 \in S : Rank(NextStatement(t3)) < Rank(NextStatement(t4))
      BY <2>3
    <2>9. PICK t5 \in S : Rank(NextStatement(t4)) < Rank(NextStatement(t5))
      BY <2>3
    <2> QED
      BY <2>4, <2>5, <2>6, <2>7, <2>8, <2>9
  <1> QED
    BY <1>1, Inductive, PTL DEF Spec

===============================================================================
