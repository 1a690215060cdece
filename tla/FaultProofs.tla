------------------------------ MODULE FaultProofs ------------------------------
(***************************************************************************)
(* Theorems about Rotation however often its worker is killed, its jobs    *)
(* are cancelled and their threads live on: what a rotation keeps of the   *)
(* promises of Handover, and which calls have to succeed for it.           *)
(***************************************************************************)
EXTENDS HandoverProofs

-------------------------------------------------------------------------------
(***************************************************************************)
(* What the outcome of one step does to the others, value by value.        *)
(***************************************************************************)

\* The next step, recorded as done or as failed; revoke is next only after verify.
LEMMA NextStep ==
    ASSUME NEW ss \in [StepIdx -> StepStatus], NEW i \in StepIdx, IsNext(i, ss), StepsHold(ss)
    PROVE  /\ ss[i] = "pending" /\ ss[Revoke] = "pending"
           /\ \A k \in StepIdx : k < i => ss[k] # "pending"
           /\ \A k \in StepIdx : i < k => ss[k] = "pending"
           /\ Done(ss) # StepIdx
BY FourSteps DEF IsNext, Pending, StepsHold, Done

LEMMA Recorded ==
    ASSUME NEW ss \in [StepIdx -> StepStatus], NEW i \in StepIdx, NEW o \in StepStatus,
           NEW tt, tt = [ss EXCEPT ![i] = o]
    PROVE  tt[i] = o /\ \A k \in StepIdx : k # i => tt[k] = ss[k]
OBVIOUS

LEMMA OneMoreDone ==
    ASSUME NEW ss \in [StepIdx -> StepStatus], StepsHold(ss), NEW i \in StepIdx,
           IsNext(i, ss), i = Revoke => ss[Verify] = "done",
           NEW tt, tt = [ss EXCEPT ![i] = "done"]
    PROVE  /\ StepsHold(tt)
           /\ Provides => ~FailedLate(ss) /\ tt[Provision] = "done"
           /\ Provides /\ (\A k \in Pending(ss) : k <= i) => Done(tt) = StepIdx
<1>1. /\ ss[i] = "pending" /\ ss[Revoke] = "pending"
      /\ \A k \in StepIdx : k < i => ss[k] # "pending"
      /\ \A k \in StepIdx : i < k => ss[k] = "pending"
  BY NextStep
<1>2. tt[i] = "done" /\ \A k \in StepIdx : k # i => tt[k] = ss[k]
  BY Recorded DEF StepStatus
<1>3. ~FailedLate(ss)
  BY <1>1, FourSteps DEF FailedLate
<1>4. StepsHold(tt)
  BY <1>1, <1>2, <1>3, FourSteps DEF StepsHold, FailedLate
<1>5. ASSUME Provides
      PROVE  \A k \in StepIdx : ss[k] \in {"pending", "done"}
  BY <1>3, <1>5 DEF StepsHold, StepStatus
<1>6. Provides => tt[Provision] = "done"
  BY <1>1, <1>2, <1>5, FourSteps
<1>7. ASSUME Provides, \A k \in Pending(ss) : k <= i
      PROVE  Done(tt) = StepIdx
  <2>1. i = Revoke
    BY <1>1, <1>7, FourSteps DEF Pending
  <2>2. \A k \in StepIdx : tt[k] = "done"
    BY <1>1, <1>2, <1>5, <1>7, <2>1, FourSteps
  <2> QED
    BY <2>2 DEF Done
<1> QED
  BY <1>3, <1>4, <1>6, <1>7

LEMMA OneFails ==
    ASSUME NEW ss \in [StepIdx -> StepStatus], StepsHold(ss), NEW i \in StepIdx, IsNext(i, ss),
           Provides => i \in {Verify, Revoke}, Revokes => i # Revoke,
           i = Revoke => ss[Verify] = "done",
           NEW tt, tt = [ss EXCEPT ![i] = "failed"]
    PROVE  /\ StepsHold(tt)
           /\ Provides => FailedLate(tt)
           /\ Revokes => tt[Verify] \in {"pending", "failed"}
           /\ tt[i] = "failed" /\ \A k \in StepIdx : k # i => tt[k] = ss[k]
           /\ Done(tt) = Done(ss) /\ tt[Revoke] # "done"
<1>1. /\ ss[i] = "pending" /\ ss[Revoke] = "pending"
      /\ \A k \in StepIdx : k < i => ss[k] # "pending"
      /\ \A k \in StepIdx : i < k => ss[k] = "pending"
  BY NextStep
<1>2. tt[i] = "failed" /\ \A k \in StepIdx : k # i => tt[k] = ss[k]
  BY Recorded DEF StepStatus
<1>3. Provides => FailedLate(tt)
  BY <1>2 DEF FailedLate
<1>4. Revokes => i \in {Provision, Distribute, Verify}
  BY FourSteps
<1>5. StepsHold(tt)
  BY <1>1, <1>2, <1>3, <1>4, FourSteps DEF StepsHold
<1>6. Revokes => tt[Verify] \in {"pending", "failed"}
  BY <1>1, <1>2, <1>4, FourSteps
<1>7. Done(tt) = Done(ss) /\ tt[Revoke] # "done"
  BY <1>1, <1>2, FourSteps DEF Done
<1> QED
  BY <1>2, <1>3, <1>5, <1>6, <1>7

\* A done step that is undone, after a failure; o tells whether that succeeded.
LEMMA OneLessDone ==
    ASSUME NEW ss \in [StepIdx -> StepStatus], StepsHold(ss), NEW i \in StepIdx,
           ss[i] = "done",
           Provides => FailedLate(ss), Revokes => ss[Verify] \in {"pending", "failed"},
           NEW o \in {"compensated", "failed"}, o = "failed" => i = Provision /\ ~Revokes,
           NEW tt, tt = [ss EXCEPT ![i] = o]
    PROVE  /\ StepsHold(tt)
           /\ Provides => FailedLate(tt)
           /\ Revokes => tt[Verify] \in {"pending", "failed"}
           /\ tt[i] = o /\ \A k \in StepIdx : k # i => tt[k] = ss[k]
           /\ Done(tt) = Done(ss) \ {i}
<1>1. tt[i] = o /\ \A k \in StepIdx : k # i => tt[k] = ss[k]
  BY Recorded DEF StepStatus
<1>2. Provides => FailedLate(tt)
  BY <1>1, FourSteps DEF FailedLate
<1>3. Revokes => i # Verify /\ i # Revoke
  BY <1>1, FourSteps DEF StepsHold
<1>4. StepsHold(tt)
  BY <1>1, <1>2, <1>3, FourSteps DEF StepsHold
<1>5. Revokes => tt[Verify] \in {"pending", "failed"}
  BY <1>1, <1>3, FourSteps
<1>6. Done(tt) = Done(ss) \ {i}
  BY <1>1 DEF Done
<1> QED
  BY <1>1, <1>2, <1>4, <1>5, <1>6

-------------------------------------------------------------------------------
(***************************************************************************)
(* One step of the job in the lock.                                        *)
(***************************************************************************)

LEMMA AtWork ==
    ASSUME IInv, FaultInv, NEW j \in Jobs, Holding(j)
    PROVE  /\ rid[j] \in Rotations /\ mem[j] \in Memory
           /\ status[rid[j]] \in RotationStatus \ {"absent"}
           /\ step[rid[j]] \in [StepIdx -> StepStatus]
           /\ newRef[rid[j]] \in Nat /\ issued[rid[j]] \in Nat
           /\ RowOf(rid[j]) /\ Knows(j)
BY Literals DEF IInv, TypeOK, DbOK, CloudOK, JobsOK, AbsentInv, FaultInv, Holding

RowsAfter(j) == RowOf(rid[j])' /\ Knows(j)'

LEMMA LoadKnows ==
    ASSUME IInv, FaultInv, NEW j \in Jobs, LoadRotation(j)
    PROVE  RowsAfter(j)
<1> DEFINE r == rid[j]
<1>1. pc[j] = "load" /\ SameRow(r) /\ rid'[j] = r
  BY DEF LoadRotation, SameRow, SameStatus, SameSteps, SameKeys, SameOld, dbVars, cloudVars
<1>2. \/ pc'[j] = "release"
      \/ pc'[j] \in {"expire", "steps"} /\ status[r] \notin {"completed", "rolled_back"}
  <2>1. CASE status[r] \in Terminal
    <3>1. Goto(j, "release")
      BY <2>1 DEF LoadRotation, Terminal
    <3> QED
      BY <3>1, Went
  <2>2. CASE status[r] \notin Terminal
    <3>1. \E p \in {"expire", "steps"} : Goto(j, p)
      BY <2>2 DEF LoadRotation
    <3> QED
      BY <2>2, <3>1, Went DEF Terminal
  <2> QED
    BY <2>1, <2>2
<1>3. mem'[j].key = mem[j].key /\ mem'[j].ref = newRef[r] /\ mem'[j].bad = mem[j].bad
  BY DEF LoadRotation, IInv, TypeOK, Memory
<1>4. RowOf(r) /\ Knows(j)
  BY <1>1, AtWork, Literals DEF Holding
<1> QED
  BY <1>1, <1>2, <1>3, <1>4, SMT
  DEF RowsAfter, RowOf, Knows, SameRow, SameStatus, SameSteps, SameKeys, SameOld,
      KnowsRow, KnowsKeys, WorkPcs, UndoPcs, CompensatePcs, KeylessPcs, RefPcs, StepPcs

LEMMA GateKnows ==
    ASSUME IInv, FaultInv, NEW j \in Jobs, Gate(j)
    PROVE  RowsAfter(j)
<1> DEFINE r == rid[j]
<1>1. pc[j] = "gate" /\ SameRow(r) /\ rid'[j] = r /\ mem'[j] = mem[j]
  BY DEF Gate, SameRow, SameStatus, SameSteps, SameKeys, SameOld, dbVars, cloudVars
<1>2. pc'[j] = "await" \/ (pc'[j] = "start" /\ step[r][Verify] = "done")
  BY Went DEF Gate
<1>3. RowOf(r) /\ Knows(j)
  BY <1>1, AtWork, Literals DEF Holding
<1> QED
  BY <1>1, <1>2, <1>3, SMT
  DEF RowsAfter, RowOf, Knows, SameRow, SameStatus, SameSteps, SameKeys, SameOld,
      KnowsRow, KnowsKeys, WorkPcs, UndoPcs, CompensatePcs, KeylessPcs, RefPcs, StepPcs

LEMMA StatusGoes ==
    ASSUME IInv, FaultInv, NEW j \in Jobs, Holding(j), NEW new, NEW next,
           SetStatus(j, new, next)
    PROVE  /\ rid'[j] = rid[j] /\ SameKeys(rid[j]) /\ SameOld(rid[j])
           /\ \/ Clash(rid[j], new) /\ SameStatus(rid[j]) /\ pc'[j] = "release"
              \/ status'[rid[j]] = new /\ pc'[j] = next
BY AtWork, Went DEF SetStatus, SameKeys, SameOld, SameStatus, cloudVars, IInv, TypeOK, DbOK

LEMMA WorkWriteKnows ==
    ASSUME IInv, FaultInv, NEW j \in Jobs,
           WriteExpired(j) \/ WriteAwaiting(j) \/ WriteCompleted(j)
    PROVE  RowsAfter(j)
<1> DEFINE r == rid[j]
<1>1. pc[j] \in {"expire", "await", "complete"} /\ SameSteps(r) /\ mem'[j] = mem[j]
  BY DEF WriteExpired, WriteAwaiting, WriteCompleted, SameSteps
<1>2. PICK new \in {"needs_replan", "awaiting_confirmation", "completed"} :
        /\ SetStatus(j, new, "release")
        /\ new = "completed" => pc[j] = "complete"
  BY DEF WriteExpired, WriteAwaiting, WriteCompleted
<1>3. Holding(j)
  BY <1>1, Literals DEF Holding
<1>4. /\ rid'[j] = r /\ SameKeys(r) /\ SameOld(r) /\ pc'[j] = "release"
      /\ SameStatus(r) \/ status'[r] = new
  BY <1>2, <1>3, StatusGoes
<1>5. RowOf(r) /\ Knows(j)
  BY <1>3, AtWork
<1> QED
  BY <1>1, <1>2, <1>4, <1>5, SMT
  DEF RowsAfter, RowOf, RowHolds, Knows, SameStatus, SameSteps, SameKeys, SameOld,
      KnowsRow, KnowsKeys, WorkPcs, UndoPcs, CompensatePcs, KeylessPcs, RefPcs, StepPcs

LEMMA StartKnows ==
    ASSUME IInv, FaultInv, NEW j \in Jobs, StartStep(j)
    PROVE  RowsAfter(j)
<1> DEFINE r == rid[j]
<1>1. pc[j] = "start" /\ SameSteps(r) /\ mem'[j] = mem[j]
  BY DEF StartStep, SameSteps, dbVars
<1>2. Holding(j)
  BY <1>1, Literals DEF Holding
<1>3. mem[j].idx \in StepIdx
  BY <1>2, AtWork DEF Memory
<1>4. /\ rid'[j] = r /\ SameKeys(r) /\ SameOld(r)
      /\ \/ SameStatus(r) /\ pc'[j] = "release"
         \/ (SameStatus(r) \/ status'[r] = RunningStatus(mem[j].idx)) /\ pc'[j] = FirstCall(j)
  <2>1. CASE mem[j].status = RunningStatus(mem[j].idx)
    BY <2>1, Went DEF StartStep, SameKeys, SameOld, SameStatus, dbVars, cloudVars
  <2>2. CASE SetStatus(j, RunningStatus(mem[j].idx), FirstCall(j))
    BY <1>2, <2>2, StatusGoes
  <2> QED
    BY <2>1, <2>2 DEF StartStep
<1>5. RunningStatus(mem[j].idx) \notin {"completed", "rolled_back"}
  BY <1>3, FourSteps DEF RunningStatus
<1>6. \/ FirstCall(j) = "create" /\ mem[j].idx = Provision
      \/ FirstCall(j) \in {"distribute", "done"} /\ mem[j].idx = Distribute
      \/ FirstCall(j) \in {"verify", "done"} /\ mem[j].idx = Verify
      \/ FirstCall(j) = "disable" /\ mem[j].idx = Revoke
  BY <1>3, FourSteps DEF FirstCall
<1>7. RowOf(r) /\ Knows(j)
  BY <1>2, AtWork
<1> QED
  BY <1>1, <1>3, <1>4, <1>5, <1>6, <1>7, FourSteps, SMT
  DEF RowsAfter, RowOf, RowHolds, Knows, SameStatus, SameSteps, SameKeys, SameOld,
      KnowsRow, KnowsKeys, WorkPcs, UndoPcs, CompensatePcs, KeylessPcs, RefPcs, StepPcs

LEMMA LoadStepsKnows ==
    ASSUME IInv, FaultInv, NEW j \in Jobs, LoadSteps(j)
    PROVE  RowsAfter(j)
<1> DEFINE r == rid[j]
           ss == step[rid[j]]
<1>1. pc[j] = "steps" /\ SameRow(r) /\ rid'[j] = r
  BY DEF LoadSteps, SameRow, SameStatus, SameSteps, SameKeys, SameOld, dbVars, cloudVars
<1>2. RowOf(r) /\ Knows(j) /\ mem[j] \in Memory /\ ss \in [StepIdx -> StepStatus]
  BY <1>1, AtWork, Literals DEF Holding
<1>3. /\ mem'[j].key = mem[j].key /\ mem'[j].ref = mem[j].ref /\ mem'[j].steps = ss
      /\ mem'[j].bad = mem[j].bad
  BY DEF LoadSteps, IInv, TypeOK, Memory
<1>4. CASE Pending(ss) = {}
  <2>1. pc'[j] = "release" \/ (pc'[j] = "complete" /\ Done(ss) = StepIdx)
    BY <1>4, Went DEF LoadSteps, IsNext
  <2> QED
    BY <1>1, <1>2, <1>3, <2>1, SMT
    DEF RowsAfter, RowOf, Knows, SameRow, SameStatus, SameSteps, SameKeys, SameOld,
        KnowsRow, KnowsKeys, WorkPcs, UndoPcs, CompensatePcs, KeylessPcs, RefPcs, StepPcs
<1>5. CASE Pending(ss) # {}
  <2>1. PICK i \in StepIdx :
          /\ IsNext(i, ss)
          /\ mem' = [mem EXCEPT ![j].steps = ss, ![j].idx = i]
          /\ Goto(j, CASE MustConfirm(j, i) -> "await"
                       [] ~MustConfirm(j, i) /\ i = Revoke -> "gate"
                       [] OTHER -> "start")
    BY <1>5 DEF LoadSteps
  <2>2. mem'[j].idx = i
    BY <2>1, TwoFields DEF IInv, TypeOK
  <2>3. pc'[j] \in {"await", "gate", "start"} /\ (i = Revoke => pc'[j] # "start")
    <3>1. CASE MustConfirm(j, i)
      BY <2>1, <3>1, Went
    <3>2. CASE ~MustConfirm(j, i) /\ i = Revoke
      BY <2>1, <3>2, Went
    <3>3. CASE ~MustConfirm(j, i) /\ i # Revoke
      BY <2>1, <3>3, Went
    <3> QED
      BY <3>1, <3>2, <3>3
  <2> QED
    BY <1>1, <1>2, <1>3, <2>1, <2>2, <2>3, SMT
    DEF RowsAfter, RowOf, Knows, SameRow, SameStatus, SameSteps, SameKeys, SameOld,
        KnowsRow, KnowsKeys, WorkPcs, UndoPcs, CompensatePcs, KeylessPcs, RefPcs, StepPcs
<1> QED
  BY <1>4, <1>5

\* The calls.
LEMMA CreateKnows ==
    ASSUME IInv, FaultInv, NEW j \in Jobs, CreateCall(j)
    PROVE  RowsAfter(j)
<1> DEFINE r == rid[j]
<1>1. pc[j] = "create" /\ SameStatus(r) /\ SameSteps(r) /\ SameOld(r) /\ rid'[j] = r
      /\ newRef'[r] = newRef[r]
  BY DEF CreateCall, CreateKey, SameStatus, SameSteps, SameOld, dbVars, cloudVars
<1>2. /\ RowOf(r) /\ Knows(j) /\ mem[j] \in Memory /\ r \in Rotations
      /\ issued[r] \in Nat /\ newRef[r] \in Nat
  BY <1>1, AtWork, Literals DEF Holding
<1>3. CASE CreateKey(r) /\ mem' = [mem EXCEPT ![j].key = issued'[r]] /\ Goto(j, "write")
  <2>1. issued'[r] = issued[r] + 1 /\ live'[r] = live[r] \cup {issued[r] + 1}
    BY <1>2, <1>3 DEF CreateKey, IInv, TypeOK, CloudOK
  <2>2. /\ mem'[j].key = issued[r] + 1 /\ mem'[j].idx = mem[j].idx
        /\ mem'[j].bad = mem[j].bad /\ mem'[j].steps = mem[j].steps
        /\ mem'[j].ref = mem[j].ref
    BY <1>3, <2>1 DEF IInv, TypeOK, Memory
  <2>3. pc'[j] = "write"
    BY <1>3, Went
  <2>4. /\ newRef[r] <= issued[r] + 1 /\ live'[r] \subseteq 1..(issued[r] + 1)
        /\ issued[r] + 1 # newRef[r]
    BY <1>2, <2>1 DEF RowOf, RowHolds
  <2> QED
    BY <1>1, <1>2, <2>1, <2>2, <2>3, <2>4, SMT
    DEF RowsAfter, RowOf, RowHolds, Knows, SameStatus, SameSteps, SameOld,
        KnowsRow, KnowsKeys, WorkPcs, UndoPcs, CompensatePcs, KeylessPcs, RefPcs, StepPcs
<1>4. CASE ~Provides /\ Goto(j, "failed") /\ UNCHANGED <<cloudVars, mem>>
  <2>1. SameKeys(r) /\ mem'[j] = mem[j] /\ pc'[j] = "failed"
    BY <1>1, <1>4, Went DEF SameKeys, cloudVars
  <2> QED
    BY <1>1, <1>2, <1>4, <2>1, FourSteps, SMT
    DEF RowsAfter, RowOf, Knows, SameStatus, SameSteps, SameKeys, SameOld,
        KnowsRow, KnowsKeys, WorkPcs, UndoPcs, CompensatePcs, KeylessPcs, RefPcs, StepPcs
<1> QED
  BY <1>3, <1>4 DEF CreateCall, Provides

LEMMA WriteKnows ==
    ASSUME IInv, FaultInv, NEW j \in Jobs, WriteCall(j) \/ VerifyCall(j)
    PROVE  RowsAfter(j)
<1> DEFINE r == rid[j]
<1>1. /\ pc[j] \in {"write", "distribute", "verify"}
      /\ SameRow(r) /\ rid'[j] = r /\ mem'[j] = mem[j]
  BY DEF WriteCall, VerifyCall, WriteStore, SameRow, SameStatus, SameSteps, SameKeys, SameOld,
         dbVars, cloudVars
<1>2. RowOf(r) /\ Knows(j)
  BY <1>1, AtWork, Literals DEF Holding
<1>3. pc'[j] = "done" \/ (pc'[j] = "failed" /\ (pc[j] = "verify" \/ ~Provides))
  BY Went DEF WriteCall, VerifyCall, Provides
<1> QED
  BY <1>1, <1>2, <1>3, FourSteps, SMT
  DEF RowsAfter, RowOf, Knows, SameRow, SameStatus, SameSteps, SameKeys, SameOld,
      KnowsRow, KnowsKeys, WorkPcs, UndoPcs, CompensatePcs, KeylessPcs, RefPcs, StepPcs

LEMMA DisableKnows ==
    ASSUME IInv, FaultInv, NEW j \in Jobs, DisableCall(j) \/ DeleteCall(j)
    PROVE  RowsAfter(j)
<1> DEFINE r == rid[j]
<1>1. /\ pc[j] \in {"disable", "delete"}
      /\ SameStatus(r) /\ SameSteps(r) /\ SameKeys(r) /\ rid'[j] = r /\ mem'[j] = mem[j]
  BY DEF DisableCall, DeleteCall, DisableOld, DeleteOld, SameStatus, SameSteps, SameKeys,
         dbVars, cloudVars
<1>2. RowOf(r) /\ Knows(j) /\ r \in Rotations
  BY <1>1, AtWork, Literals DEF Holding
<1>3. \/ pc[j] = "disable" /\ DisableOld(r) /\ Goto(j, "delete")
      \/ pc[j] = "delete" /\ DeleteOld(r) /\ Goto(j, "done")
      \/ ~Revokes /\ UNCHANGED cloudVars /\ Goto(j, "failed")
  BY DEF DisableCall, DeleteCall, Revokes
<1>4. \/ pc[j] = "disable" /\ pc'[j] = "delete"
      \/ pc[j] = "delete" /\ pc'[j] = "done" /\ old'[r] = "deleted"
      \/ ~Revokes /\ pc'[j] = "failed"
  BY <1>2, <1>3, Went DEF DeleteOld, IInv, TypeOK, CloudOK
<1>5. old[r] = "deleted" => old'[r] = "deleted"
  BY <1>2, <1>3 DEF DisableOld, DeleteOld, IInv, TypeOK, CloudOK, cloudVars
<1> QED
  BY <1>1, <1>2, <1>4, <1>5, FourSteps, SMT
  DEF RowsAfter, RowOf, RowHolds, Knows, SameStatus, SameSteps, SameKeys,
      KnowsRow, KnowsKeys, WorkPcs, UndoPcs, CompensatePcs, KeylessPcs, RefPcs, StepPcs

LEMMA PersistDoneKnows ==
    ASSUME IInv, FaultInv, NEW j \in Jobs, PersistDone(j)
    PROVE  RowsAfter(j)
<1> DEFINE r == rid[j]
           i == mem[j].idx
           ss == step[r]
           tt == step'[r]
<1>1. /\ pc[j] = "done" /\ SameStatus(r) /\ SameOld(r) /\ rid'[j] = r /\ mem'[j] = mem[j]
      /\ issued'[r] = issued[r] /\ live'[r] = live[r]
  BY DEF PersistDone, SameStatus, SameOld, cloudVars
<1>2. /\ RowOf(r) /\ Knows(j) /\ mem[j] \in Memory /\ r \in Rotations
      /\ ss \in [StepIdx -> StepStatus] /\ newRef[r] \in Nat /\ issued[r] \in Nat
  BY <1>1, AtWork, Literals DEF Holding
<1>3. i \in StepIdx /\ mem[j].key \in Nat
  BY <1>2 DEF Memory
<1>4. tt = [ss EXCEPT ![i] = "done"]
  BY <1>2 DEF PersistDone, IInv, TypeOK, DbOK
<1>5. newRef'[r] = IF mem[j].key # 0 THEN mem[j].key ELSE newRef[r]
  BY <1>2 DEF PersistDone, IInv, TypeOK, DbOK
<1>6. /\ mem[j].steps = ss /\ IsNext(i, ss) /\ StepsHold(ss)
      /\ i = Revoke => ss[Verify] = "done"
  BY <1>1, <1>2 DEF Knows, KnowsRow, RowOf, RowHolds, StepPcs
<1>7. /\ StepsHold(tt)
      /\ Provides => ~FailedLate(ss) /\ tt[Provision] = "done"
      /\ Provides /\ (\A k \in Pending(ss) : k <= i) => Done(tt) = StepIdx
  BY <1>2, <1>3, <1>4, <1>6, OneMoreDone
<1>8. tt[i] = "done" /\ \A k \in StepIdx : k # i => tt[k] = ss[k]
  BY <1>2, <1>3, <1>4
<1>9. /\ pc'[j] \in {"continue", "complete"}
      /\ pc'[j] = "complete" => \A k \in Pending(ss) : k <= i
  BY <1>3, <1>6, Went, FourSteps DEF PersistDone, Pending
<1>10. pc'[j] = "complete" /\ Provides => Done(tt) = StepIdx
  BY <1>7, <1>9
<1>11. /\ newRef'[r] <= issued[r]
       /\ i = Provision => newRef'[r] \in live[r]
       /\ i # Provision => newRef'[r] = newRef[r]
       /\ i = Revoke => old[r] = "deleted"
       /\ status[r] \notin {"completed", "rolled_back"}
       /\ live[r] \subseteq 1..issued[r]
  <2>1. /\ newRef[r] <= issued[r] /\ live[r] \subseteq 1..issued[r]
        /\ status[r] \notin {"completed", "rolled_back"}
    BY <1>1, <1>2 DEF RowOf, RowHolds, Knows, KnowsRow, WorkPcs, StepPcs
  <2>2. /\ IF i = Provision THEN mem[j].key \in live[r] ELSE mem[j].key = 0
        /\ i = Revoke => old[r] = "deleted"
    BY <1>1, <1>2 DEF Knows, KnowsKeys
  <2> QED
    BY <1>2, <1>3, <1>5, <2>1, <2>2
<1>12. Revokes => ~mem[j].bad
  BY <1>2 DEF Knows, KnowsRow
<1> HIDE DEF ss, tt, i
<1>13. RowOf(r)'
  <2>0. RowHolds(ss, status[r], newRef[r], issued[r], live[r], old[r])
    BY <1>2 DEF RowOf, ss
  <2>1. /\ tt[Provision] = "done" /\ Provides => newRef'[r] \in live[r]
        /\ tt[Provision] = "pending" => newRef'[r] = 0
        /\ tt[Provision] = "failed" /\ Revokes => newRef'[r] = 0
        /\ tt[Provision] = "compensated" => newRef'[r] \notin live[r]
    <3>1. CASE i = Provision
      BY <1>8, <1>11, <3>1
    <3>2. CASE i # Provision
      <4>1. tt[Provision] = ss[Provision]
        BY <1>8, <3>2, FourSteps
      <4> QED
        BY <1>7, <1>11, <2>0, <3>2, <4>1 DEF RowHolds
    <3> QED
      BY <3>1, <3>2
  <2>2. tt[Revoke] = "done" => old[r] = "deleted"
    <3>1. ss[Revoke] = "done" => old[r] = "deleted"
      BY <2>0 DEF RowHolds
    <3> QED
      BY <1>8, <1>11, <3>1, FourSteps
  <2>3. RowHolds(tt, status[r], newRef'[r], issued[r], live[r], old[r])
    BY <1>7, <1>11, <2>1, <2>2 DEF RowHolds
  <2> QED
    BY <1>1, <2>3 DEF RowOf, SameStatus, SameOld, tt
<1>14. Knows(j)'
  BY <1>1, <1>9, <1>10, <1>11, <1>12, SMT
  DEF SameStatus, Knows, KnowsRow, KnowsKeys, WorkPcs, UndoPcs, CompensatePcs, KeylessPcs, RefPcs, StepPcs, tt
<1> QED
  BY <1>1, <1>13, <1>14 DEF RowsAfter

LEMMA PersistFailedKnows ==
    ASSUME IInv, FaultInv, NEW j \in Jobs, PersistFailed(j)
    PROVE  RowsAfter(j)
<1> DEFINE r == rid[j]
           i == mem[j].idx
           ss == step[r]
           tt == step'[r]
<1>1. /\ pc[j] = "failed" /\ pc'[j] = "rollback" /\ rid'[j] = r /\ mem'[j] = mem[j]
      /\ SameStatus(r) /\ SameOld(r) /\ SameKeys(r)
  BY Went DEF PersistFailed, SameStatus, SameOld, SameKeys, cloudVars
<1>2. /\ RowOf(r) /\ Knows(j) /\ r \in Rotations /\ ss \in [StepIdx -> StepStatus]
      /\ i \in StepIdx
  BY <1>1, AtWork, Literals DEF Holding, Memory
<1>3. /\ mem[j].steps = ss /\ IsNext(i, ss) /\ StepsHold(ss)
      /\ Provides => i \in {Verify, Revoke}
      /\ Revokes => i # Revoke
      /\ i = Revoke => ss[Verify] = "done"
      /\ status[r] \notin {"completed", "rolled_back"}
  BY <1>1, <1>2 DEF Knows, KnowsRow, RowOf, RowHolds, StepPcs, WorkPcs
<1>4. tt = [ss EXCEPT ![i] = "failed"]
  BY <1>2 DEF PersistFailed, IInv, TypeOK, DbOK
<1>5. /\ StepsHold(tt)
      /\ Provides => FailedLate(tt)
      /\ Revokes => tt[Verify] \in {"pending", "failed"}
      /\ tt[i] = "failed" /\ \A k \in StepIdx : k # i => tt[k] = ss[k]
      /\ Done(tt) = Done(ss) /\ tt[Revoke] # "done"
  BY <1>2, <1>3, <1>4, OneFails
<1>6. RowOf(r)'
  <2>1. RowHolds(ss, status[r], newRef[r], issued[r], live[r], old[r])
    BY <1>2 DEF RowOf
  <2>2. tt[Provision] = ss[Provision] \/ (ss[Provision] = "pending" /\ tt[Provision] = "failed")
    BY <1>3, <1>5, FourSteps DEF IsNext, Pending
  <2> HIDE DEF ss, tt, i
  <2>3. RowHolds(tt, status[r], newRef[r], issued[r], live[r], old[r])
    BY <1>3, <1>5, <2>1, <2>2 DEF RowHolds
  <2> QED
    BY <1>1, <2>3 DEF RowOf, SameStatus, SameOld, SameKeys, tt
<1>7. Knows(j)'
  <2>1. mem[j].ref = newRef[r] /\ (Revokes => ~mem[j].bad)
    BY <1>1, <1>2 DEF Knows, KnowsRow, KnowsKeys, RefPcs, StepPcs
  <2> HIDE DEF ss, tt, i
  <2> QED
    BY <1>1, <1>3, <1>5, <2>1, SMT
    DEF Knows, KnowsRow, KnowsKeys, WorkPcs, UndoPcs, CompensatePcs, KeylessPcs, RefPcs,
        StepPcs, SameKeys, SameStatus, tt
<1> QED
  BY <1>6, <1>7 DEF RowsAfter

LEMMA RollingBackKnows ==
    ASSUME IInv, FaultInv, NEW j \in Jobs, WriteRollingBack(j)
    PROVE  RowsAfter(j)
<1> DEFINE r == rid[j]
           todo == Done(mem[j].steps)
<1>1. pc[j] = "rollback" /\ SameSteps(r)
  BY DEF WriteRollingBack, SameSteps
<1>2. Holding(j)
  BY <1>1, Literals DEF Holding
<1>3. RowOf(r) /\ Knows(j)
  BY <1>2, AtWork
<1>4. /\ rid'[j] = r /\ SameKeys(r) /\ SameOld(r)
      /\ \/ SameStatus(r) /\ pc'[j] = "release"
         \/ status'[r] = "rolling_back" /\ pc'[j] = IF todo = {} THEN "final" ELSE "undo"
  BY <1>2, StatusGoes DEF WriteRollingBack
<1>5. mem'[j].todo = todo /\ mem'[j].ref = mem[j].ref /\ mem'[j].bad = mem[j].bad
  BY DEF WriteRollingBack, IInv, TypeOK, Memory
<1>6. /\ todo = Done(step[r])
      /\ todo # {} => step[r][Provision] # "pending"
  <2>1. todo = Done(step[r])
    BY <1>1, <1>3 DEF Knows, KnowsRow
  <2>2. Done(step[r]) # {} => step[r][Provision] # "pending"
    BY <1>3, FourSteps DEF RowOf, RowHolds, StepsHold, Done
  <2> QED
    BY <2>1, <2>2
<1> HIDE DEF todo
<1> QED
  BY <1>1, <1>3, <1>4, <1>5, <1>6, SMT
  DEF RowsAfter, RowOf, RowHolds, Knows, SameStatus, SameSteps, SameKeys, SameOld,
      KnowsRow, KnowsKeys, WorkPcs, UndoPcs, CompensatePcs, KeylessPcs, RefPcs, StepPcs

LEMMA FinalKnows ==
    ASSUME IInv, FaultInv, NEW j \in Jobs, WriteFinal(j)
    PROVE  RowsAfter(j)
<1> DEFINE r == rid[j]
<1>1. pc[j] = "final" /\ SameSteps(r) /\ mem'[j] = mem[j]
  BY DEF WriteFinal, SameSteps
<1>2. Holding(j)
  BY <1>1, Literals DEF Holding
<1>3. RowOf(r) /\ Knows(j)
  BY <1>2, AtWork
<1>4. PICK new \in {"rollback_failed", "rolled_back"} : SetStatus(j, new, "release")
  BY DEF WriteFinal
<1>5. /\ rid'[j] = r /\ SameKeys(r) /\ SameOld(r) /\ pc'[j] = "release"
      /\ SameStatus(r) \/ status'[r] = new
  BY <1>2, <1>4, StatusGoes
<1> QED
  BY <1>1, <1>3, <1>5, SMT
  DEF RowsAfter, RowOf, RowHolds, Knows, SameStatus, SameSteps, SameKeys, SameOld,
      KnowsRow, KnowsKeys, WorkPcs, UndoPcs, CompensatePcs, KeylessPcs, RefPcs, StepPcs

LEMMA UndoCallKnows ==
    ASSUME IInv, FaultInv, NEW j \in Jobs, UndoCall(j)
    PROVE  RowsAfter(j)
<1> DEFINE r == rid[j]
           m == mem[j]
           undoesKey == IsLast(Provision, m.todo) /\ m.ref # 0
<1>1. /\ pc[j] = "undo" /\ SameStatus(r) /\ SameSteps(r) /\ rid'[j] = r /\ mem'[j] = m
      /\ SameOld(r) /\ newRef'[r] = newRef[r] /\ issued'[r] = issued[r]
  BY DEF UndoCall, DeleteNew, SameStatus, SameSteps, SameOld, dbVars, cloudVars
<1>2. RowOf(r) /\ Knows(j) /\ m \in Memory /\ r \in Rotations /\ issued[r] \in Nat
  BY <1>1, AtWork, Literals DEF Holding
<1>3. m.ref = newRef[r] /\ (Provides => FailedLate(step[r]))
  BY <1>1, <1>2 DEF Knows, KnowsRow, KnowsKeys, UndoPcs, CompensatePcs, RefPcs
<1>4. \/ /\ Goto(j, "compensated")
         /\ IF undoesKey THEN DeleteNew(r, m.ref) ELSE UNCHANGED cloudVars
      \/ Goto(j, "uncompensated") /\ ~Revokes /\ UNCHANGED cloudVars
  BY DEF UndoCall, Revokes
<1>5. \/ pc'[j] = "compensated" /\ (IsLast(Provision, m.todo) => newRef[r] \notin live'[r])
      \/ pc'[j] = "uncompensated" /\ ~Revokes
  <2>1. CASE Goto(j, "compensated") /\ undoesKey /\ DeleteNew(r, m.ref)
    <3>1. live'[r] = live[r] \ {newRef[r]}
      BY <1>2, <1>3, <2>1 DEF DeleteNew, IInv, TypeOK, CloudOK
    <3> QED
      BY <2>1, <3>1, Went
  <2>2. CASE Goto(j, "compensated") /\ ~undoesKey /\ UNCHANGED cloudVars
    <3>1. live'[r] = live[r] /\ live[r] \subseteq 1..issued[r] /\ pc'[j] = "compensated"
      BY <1>2, <2>2, Went DEF cloudVars, RowOf, RowHolds
    <3> QED
      BY <1>2, <1>3, <2>2, <3>1
  <2>3. CASE Goto(j, "uncompensated") /\ ~Revokes
    BY <2>3, Went
  <2> QED
    BY <1>4, <2>1, <2>2, <2>3
<1>6. live'[r] \subseteq live[r]
  BY <1>2, <1>4 DEF DeleteNew, IInv, TypeOK, CloudOK, cloudVars
<1> HIDE DEF m, undoesKey
<1>7. RowOf(r)'
  BY <1>1, <1>2, <1>3, <1>6 DEF RowOf, RowHolds, SameStatus, SameSteps, SameOld
<1>8. Knows(j)'
  BY <1>1, <1>2, <1>3, <1>5, SMT
  DEF Knows, KnowsRow, KnowsKeys, WorkPcs, UndoPcs, CompensatePcs, KeylessPcs, RefPcs,
      StepPcs, SameSteps, SameStatus, m
<1> QED
  BY <1>7, <1>8 DEF RowsAfter

LEMMA PersistUndoKnows ==
    ASSUME IInv, FaultInv, NEW j \in Jobs, PersistUndo(j)
    PROVE  RowsAfter(j)
<1> DEFINE r == rid[j]
           m == mem[j]
           ss == step[r]
           tt == step'[r]
           o == IF pc[j] = "compensated" THEN "compensated" ELSE "failed"
<1>1. /\ pc[j] \in {"compensated", "uncompensated"}
      /\ SameStatus(r) /\ SameKeys(r) /\ SameOld(r) /\ rid'[j] = r
  BY DEF PersistUndo, SameStatus, SameKeys, SameOld, cloudVars
<1>2. /\ RowOf(r) /\ Knows(j) /\ m \in Memory /\ r \in Rotations
      /\ ss \in [StepIdx -> StepStatus] /\ JobInv(j)
  BY <1>1, AtWork, Literals DEF Holding, IInv
<1>3. /\ m.todo = Done(ss) /\ m.ref = newRef[r] /\ ss[Provision] # "pending"
      /\ Provides => FailedLate(ss)
      /\ Revokes => /\ ss[Verify] \in {"pending", "failed"}
                    /\ pc[j] = "compensated" /\ ~m.bad
      /\ status[r] \notin {"completed", "rolled_back"}
      /\ pc[j] = "compensated" /\ IsLast(Provision, m.todo) => newRef[r] \notin live[r]
  BY <1>1, <1>2 DEF Knows, KnowsRow, KnowsKeys, UndoPcs, CompensatePcs, RefPcs
<1>4. PICK i \in StepIdx :
        /\ IsLast(i, m.todo)
        /\ step' = [step EXCEPT ![r][i] = o]
        /\ mem' = [mem EXCEPT ![j].todo = @ \ {i}, ![j].bad  = @ \/ pc[j] = "uncompensated"]
        /\ Goto(j, IF m.todo = {i} THEN "final" ELSE "undo")
  BY DEF PersistUndo
<1>5. i \in Done(ss)
  BY <1>3, <1>4 DEF IsLast
<1>6. tt = [ss EXCEPT ![i] = o]
  BY <1>2, <1>4 DEF IInv, TypeOK, DbOK
<1>7. /\ o \in {"compensated", "failed"}
      /\ o = "failed" => pc[j] = "uncompensated" /\ i = Provision /\ ~Revokes
  <2>1. pc[j] = "uncompensated" => IsLast(Provision, m.todo)
    BY <1>2 DEF JobInv
  <2>2. IsLast(Provision, m.todo) => i = Provision
    BY <1>4, FourSteps DEF IsLast
  <2> QED
    BY <1>1, <1>3, <2>1, <2>2
<1>8. /\ StepsHold(tt)
      /\ Provides => FailedLate(tt)
      /\ Revokes => tt[Verify] \in {"pending", "failed"}
      /\ tt[i] = o /\ \A k \in StepIdx : k # i => tt[k] = ss[k]
      /\ Done(tt) = Done(ss) \ {i}
  <2>1. StepsHold(ss)
    BY <1>2 DEF RowOf, RowHolds
  <2>2. /\ Provides => FailedLate(ss)
        /\ Revokes => ss[Verify] \in {"pending", "failed"}
        /\ ss \in [StepIdx -> StepStatus] /\ i \in StepIdx /\ ss[i] = "done"
    BY <1>2, <1>3, <1>5 DEF Done
  <2> HIDE DEF o
  <2> QED
    BY <1>6, <1>7, <2>1, <2>2, OneLessDone
<1>9. mem'[j].todo = Done(tt)
  BY <1>3, <1>4, <1>8, TodoField DEF IInv, TypeOK
<1>10. mem'[j].ref = m.ref /\ (Revokes => ~mem'[j].bad)
  <2> DEFINE b == m.bad \/ pc[j] = "uncompensated"
  <2>1. mem' = [mem EXCEPT ![j].todo = @ \ {i}, ![j].bad = b] /\ (Revokes => b = FALSE)
    BY <1>3, <1>4
  <2> HIDE DEF b
  <2> QED
    BY <2>1 DEF IInv, TypeOK, Memory
<1>11. pc'[j] = IF Done(tt) = {} THEN "final" ELSE "undo"
  BY <1>3, <1>4, <1>5, <1>8, Went
<1>12. /\ i = Provision /\ o = "compensated" => newRef[r] \notin live[r]
       /\ i # Provision => tt[Provision] = ss[Provision]
       /\ tt[Provision] # "pending"
  BY <1>1, <1>3, <1>4, <1>7, <1>8, FourSteps
<1>13. tt[Revoke] = "done" => ss[Revoke] = "done"
  BY <1>7, <1>8, FourSteps
<1> HIDE DEF ss, tt, m, o
<1>14. RowOf(r)'
  <2>1. RowHolds(ss, status[r], newRef[r], issued[r], live[r], old[r])
    BY <1>2 DEF RowOf, ss
  <2>2. /\ tt[Provision] = "compensated" => newRef[r] \notin live[r]
        /\ tt[Provision] = "failed" /\ Revokes => newRef[r] = 0
    BY <1>7, <1>8, <1>12, <2>1 DEF RowHolds
  <2>3. RowHolds(tt, status[r], newRef[r], issued[r], live[r], old[r])
    BY <1>3, <1>8, <1>12, <1>13, <2>1, <2>2 DEF RowHolds
  <2> QED
    BY <1>1, <2>3 DEF RowOf, SameStatus, SameOld, SameKeys, tt
<1>15. Knows(j)'
  BY <1>1, <1>3, <1>8, <1>9, <1>10, <1>11, <1>12, SMT
  DEF Knows, KnowsRow, KnowsKeys, WorkPcs, UndoPcs, CompensatePcs, KeylessPcs, RefPcs,
      StepPcs, SameKeys, SameStatus, tt
<1> QED
  BY <1>14, <1>15 DEF RowsAfter

LEMMA AdvanceKnows ==
    ASSUME IInv, FaultInv, NEW j \in Jobs, AdvanceRotation(j)
    PROVE  RowsAfter(j)
BY LoadKnows, LoadStepsKnows, GateKnows, WorkWriteKnows, StartKnows, CreateKnows, WriteKnows,
   DisableKnows, PersistDoneKnows, PersistFailedKnows, RollingBackKnows, FinalKnows, UndoCallKnows,
   PersistUndoKnows
DEF AdvanceRotation

-------------------------------------------------------------------------------
(***************************************************************************)
(* The invariant.                                                          *)
(***************************************************************************)

JobOf(j) == IF Holding(j) THEN Knows(j) ELSE mem[j] = NoMemory

LEMMA SameRowHolds ==
    ASSUME NEW r, SameRow(r), RowOf(r)
    PROVE  RowOf(r)'
BY DEF RowOf, SameRow, SameStatus, SameSteps, SameKeys, SameOld

LEMMA SameJobKnows ==
    ASSUME NEW j, JobOf(j), pc'[j] = pc[j], mem'[j] = mem[j],
           Holding(j) => rid'[j] = rid[j] /\ SameRow(rid[j])
    PROVE  JobOf(j)'
BY DEF JobOf, Holding, Knows, SameRow, SameStatus, SameSteps, SameKeys, SameOld

\* The reason for taking a key back stays.
LEMMA UndoStays ==
    ASSUME IInv, [Next]_vars, NEW r \in Rotations, UndoKnows(step[r])
    PROVE  UndoKnows(step'[r])
<1>1. CASE UNCHANGED step
  BY <1>1
<1>2. ASSUME NEW j \in Jobs, NEW i \in StepIdx, NEW o \in StepStatus,
             step' = [step EXCEPT ![rid[j]][i] = o], o # "pending",
             step[rid[j]][i] \in {"pending", "done"}
      PROVE  UndoKnows(step'[r])
  <2>1. step[r] \in [StepIdx -> StepStatus] /\ step \in [Rotations -> [StepIdx -> StepStatus]]
    BY DEF IInv, TypeOK, DbOK
  <2>2. /\ step[r][Provision] # "pending" => step'[r][Provision] # "pending"
        /\ FailedLate(step[r]) => FailedLate(step'[r])
    <3>1. CASE rid[j] = r
      <4>1. /\ step'[r][i] = o /\ step[r][i] \in {"pending", "done"}
            /\ \A k \in StepIdx : k # i => step'[r][k] = step[r][k]
        BY <1>2, <2>1, <3>1
      <4> QED
        BY <1>2, <4>1, FourSteps DEF FailedLate
    <3>2. CASE rid[j] # r
      BY <1>2, <2>1, <3>2
    <3> QED
      BY <3>1, <3>2
  <2> QED
    BY <2>2 DEF UndoKnows
<1> QED
  BY <1>1, <1>2, StepWrites

LEMMA AdvanceFaults ==
    ASSUME IInv, FaultInv, NEW j \in Jobs, AdvanceRotation(j)
    PROVE  /\ \A r \in Rotations : RowOf(r)'
           /\ \A k \in Jobs : JobOf(k)'
           /\ UNCHANGED threads
<1>1. /\ Holding(j) /\ Holding(j)' /\ UNCHANGED <<rid, threads>>
      /\ \A k \in Jobs \ {j} : pc'[k] = pc[k] /\ mem'[k] = mem[k]
  <2>1. TypeOK /\ JobsOK
    BY DEF IInv, TypeOK
  <2> QED
    BY <2>1, AdvanceStays DEF Goto, Holding, JobsOK
<1>2. RowOf(rid[j])' /\ Knows(j)'
  BY <1>1, AdvanceKnows DEF RowsAfter
<1>3. ASSUME NEW r \in Rotations, r # rid[j]
      PROVE  RowOf(r)'
  BY <1>3, AdvanceElsewhere, SameRowHolds DEF FaultInv
<1>4. ASSUME NEW k \in Jobs, k # j
      PROVE  JobOf(k)'
  <2>1. Holding(k) => rid[k] \in Rotations /\ rid[k] # rid[j]
    BY <1>1, <1>4, AtWork DEF IInv, LockExclusion
  <2>2. Holding(k) => SameRow(rid[k])
    BY <2>1, AdvanceElsewhere
  <2>3. JobOf(k)
    BY DEF FaultInv, JobOf
  <2> QED
    BY <1>1, <1>4, <2>2, <2>3, SameJobKnows
<1> QED
  BY <1>1, <1>2, <1>3, <1>4 DEF JobOf

\* A job that is not in the lock remembers nothing, and rows stay as they were.
LEMMA OutsideKnows ==
    ASSUME IInv, FaultInv, NEW j \in Jobs,
           \A r \in Rotations : SameRow(r),
           \A k \in Jobs \ {j} : pc'[k] = pc[k] /\ rid'[k] = rid[k] /\ mem'[k] = mem[k],
           mem'[j] = NoMemory, ~Holding(j)' \/ pc'[j] = "load"
    PROVE  /\ \A r \in Rotations : RowOf(r)'
           /\ \A k \in Jobs : JobOf(k)'
<1>1. \A r \in Rotations : RowOf(r)'
  BY SameRowHolds DEF FaultInv
<1>2. ASSUME NEW k \in Jobs, k # j
      PROVE  JobOf(k)'
  BY <1>2, AtWork, SameJobKnows DEF FaultInv, JobOf
<1>3. JobOf(j)'
  BY DEF JobOf, Knows, KnowsRow, KnowsKeys, WorkPcs, UndoPcs, CompensatePcs, KeylessPcs,
         RefPcs, StepPcs, NoMemory
<1> QED
  BY <1>1, <1>2, <1>3

LEMMA QueueFaults ==
    ASSUME IInv, FaultInv, NEW j \in Jobs,
           StartJob(j) \/ Release(j) \/ Continue(j) \/ Redeliver(j) \/ Crash(j) \/ Interrupt(j)
    PROVE  /\ \A r \in Rotations : RowOf(r)'
           /\ \A k \in Jobs : JobOf(k)'
<1>0. TypeOK /\ JobsOK /\ \A k \in Jobs : ~Holding(k) => mem[k] = NoMemory
  BY DEF IInv, TypeOK, FaultInv
<1>1. \A r \in Rotations : SameRow(r)
  BY DEF StartJob, Release, Continue, Redeliver, Crash, Interrupt, SameRow, SameStatus,
         SameSteps, SameKeys, SameOld, dbVars, cloudVars
<1>2. \A k \in Jobs \ {j} : pc'[k] = pc[k] /\ rid'[k] = rid[k] /\ mem'[k] = mem[k]
  BY <1>0 DEF StartJob, Release, Continue, Redeliver, Crash, Interrupt, RunAgain, Leave, Goto,
              TypeOK, JobsOK
<1>3. mem'[j] = NoMemory /\ (~Holding(j)' \/ pc'[j] = "load")
  <2>1. CASE StartJob(j)
    BY <1>0, <2>1, Literals DEF StartJob, Leave, Goto, Holding, JobsOK
  <2>2. CASE Continue(j) \/ Redeliver(j)
    BY <1>0, <2>2, Literals DEF Continue, Redeliver, RunAgain, Leave, Goto, Holding, JobsOK
  <2>3. CASE Release(j)
    BY <1>0, <2>3, Literals DEF Release, Leave, Goto, Holding, TypeOK, JobsOK
  <2>4. CASE Crash(j) \/ Interrupt(j)
    BY <1>0, <2>4, Literals DEF Crash, Interrupt, RunAgain, Leave, Goto, Holding, TypeOK, JobsOK
  <2> QED
    BY <2>1, <2>2, <2>3, <2>4
<1> QED
  BY <1>1, <1>2, <1>3, OutsideKnows

\* The threads that take a key back.
LEMMA ThreadsUndo ==
    ASSUME IInv, FaultInv, [Next]_vars, NEW t \in threads', t.op = "undo"
    PROVE  UndoKnows(step'[t.rid])
<1>1. CASE t \in threads
  <2>1. t.rid \in Rotations /\ UndoKnows(step[t.rid])
    BY <1>1 DEF FaultInv, IInv, TypeOK, Threads
  <2> QED
    BY <2>1, UndoStays
<1>2. CASE t \notin threads
  <2>1. PICK j \in Jobs : Interrupt(j) /\ t.op = pc[j] /\ t.rid = rid[j]
    <3>1. ASSUME NEW u \in threads, ThreadRuns(u)
          PROVE  t \in threads
      BY <3>1 DEF ThreadRuns, IInv, TypeOK, Threads
    <3>2. ASSUME NEW j \in Jobs, Interrupt(j)
          PROVE  t \in threads \/ (t.op = pc[j] /\ t.rid = rid[j])
      BY <3>2 DEF Interrupt
    <3>3. \/ UNCHANGED threads
          \/ \E u \in threads : ThreadRuns(u)
          \/ \E j \in Jobs : Interrupt(j)
      <4>1. TypeOK
        BY DEF IInv
      <4> QED
        BY <4>1, AdvanceStays
        DEF Next, vars, workerVars, JobStep, TriggerRotation, ApproveRotation, RejectCheck,
            RejectWrite, ConfirmCheck, ConfirmWrite, PlanExpires, StartJob, Crash, Redeliver,
            LockExpires, Release, Continue
    <3> QED
      BY <1>2, <3>1, <3>2, <3>3
  <2>2. Holding(j) /\ pc[j] = "undo" /\ rid[j] \in Rotations
    BY <2>1, AtWork DEF Interrupt
  <2>3. UndoKnows(step[rid[j]])
    BY <2>2, AtWork DEF Knows, KnowsRow, UndoPcs, CompensatePcs, UndoKnows
  <2> QED
    BY <2>1, <2>2, <2>3, UndoStays
<1> QED
  BY <1>1, <1>2

\* What a thread does to the provider's keys.
LEMMA ThreadEffect ==
    ASSUME IInv, FaultInv, NEW t \in threads, ThreadRuns(t), NEW r \in Rotations
    PROVE  /\ SameStatus(r) /\ SameSteps(r) /\ newRef'[r] = newRef[r]
           /\ old[r] = "deleted" => old'[r] = "deleted"
           /\ \/ SameKeys(r)
              \/ /\ issued'[r] = issued[r] + 1
                 /\ live'[r] = live[r] \cup {issued[r] + 1}
              \/ /\ UndoKnows(step[r]) /\ issued'[r] = issued[r]
                 /\ live'[r] \subseteq live[r]
<1>0. t.rid \in Rotations /\ CloudOK
  BY DEF IInv, TypeOK, Threads
<1>1. SameStatus(r) /\ SameSteps(r) /\ newRef'[r] = newRef[r]
  BY DEF ThreadRuns, SameStatus, SameSteps, dbVars
<1>2. CASE UNCHANGED cloudVars \/ WriteStore(t.rid, t.key)
  BY <1>1, <1>2 DEF cloudVars, WriteStore, SameKeys
<1>3. CASE CreateKey(t.rid)
  BY <1>0, <1>1, <1>3 DEF CreateKey, CloudOK, SameKeys
<1>4. CASE DisableOld(t.rid) \/ DeleteOld(t.rid)
  BY <1>0, <1>1, <1>4 DEF DisableOld, DeleteOld, CloudOK, SameKeys
<1>5. CASE t.op = "undo" /\ DeleteNew(t.rid, t.key)
  <2>1. UndoKnows(step[t.rid])
    BY <1>5 DEF FaultInv
  <2> QED
    BY <1>0, <1>1, <1>5, <2>1 DEF DeleteNew, CloudOK, SameKeys
<1> QED
  BY <1>2, <1>3, <1>4, <1>5 DEF ThreadRuns

LEMMA ThreadFaults ==
    ASSUME IInv, FaultInv, NEW t \in threads, ThreadRuns(t)
    PROVE  /\ \A r \in Rotations : RowOf(r)'
           /\ \A k \in Jobs : JobOf(k)'
<1>1. ASSUME NEW r \in Rotations
      PROVE  RowOf(r)'
  <2>1. RowOf(r) /\ newRef[r] \in Nat /\ issued[r] \in Nat
    BY DEF FaultInv, IInv, TypeOK, DbOK, CloudOK
  <2>2. CASE SameKeys(r)
    BY <2>1, <2>2, ThreadEffect DEF RowOf, RowHolds, SameStatus, SameSteps, SameKeys
  <2>3. CASE issued'[r] = issued[r] + 1 /\ live'[r] = live[r] \cup {issued[r] + 1}
    <3>1. /\ newRef[r] <= issued'[r] /\ live'[r] \subseteq 1..issued'[r]
          /\ newRef[r] \in live'[r] <=> newRef[r] \in live[r]
      BY <2>1, <2>3 DEF RowOf, RowHolds
    <3> QED
      BY <2>1, <3>1, ThreadEffect DEF RowOf, RowHolds, SameStatus, SameSteps
  <2>4. CASE UndoKnows(step[r]) /\ issued'[r] = issued[r] /\ live'[r] \subseteq live[r]
    BY <2>1, <2>4, ThreadEffect DEF RowOf, RowHolds, UndoKnows, SameStatus, SameSteps
  <2> QED
    BY <2>2, <2>3, <2>4, ThreadEffect
<1>2. ASSUME NEW k \in Jobs
      PROVE  JobOf(k)'
  <2> DEFINE r == rid[k]
             m == mem[k]
  <2>0. UNCHANGED <<pc, rid, mem>> /\ JobOf(k)
    BY DEF ThreadRuns, FaultInv, JobOf
  <2>1. CASE ~Holding(k)
    BY <2>0, <2>1 DEF JobOf, Holding
  <2>2. CASE Holding(k)
    <3>1. /\ r \in Rotations /\ m \in Memory /\ RowOf(r) /\ Knows(k) /\ newRef[r] \in Nat
          /\ issued[r] \in Nat
      BY <2>2, AtWork
    <3>2. /\ SameSteps(r) /\ SameStatus(r) /\ newRef'[r] = newRef[r]
          /\ old[r] = "deleted" => old'[r] = "deleted"
      BY <3>1, ThreadEffect
    <3>3. KnowsRow(pc[k], m, step[r], status[r])
      BY <3>1 DEF Knows
    <3>4. KnowsKeys(pc[k], m, newRef[r], live'[r], old'[r])
      <4>1. CASE SameKeys(r)
        BY <3>1, <3>2, <4>1 DEF Knows, KnowsKeys, SameKeys
      <4>2. CASE issued'[r] = issued[r] + 1 /\ live'[r] = live[r] \cup {issued[r] + 1}
        <5>1. newRef[r] \in live'[r] => newRef[r] \in live[r]
          BY <3>1, <4>2 DEF RowOf, RowHolds
        <5> QED
          BY <3>1, <3>2, <4>2, <5>1 DEF Knows, KnowsKeys
      <4>3. CASE UndoKnows(step[r]) /\ live'[r] \subseteq live[r]
        <5>1. ~(pc[k] = "write" \/ (pc[k] = "done" /\ m.idx = Provision))
          <6> SUFFICES ASSUME pc[k] = "write" \/ (pc[k] = "done" /\ m.idx = Provision)
                       PROVE  FALSE
            OBVIOUS
          <6>1. IsNext(Provision, step[r])
            BY <3>3 DEF KnowsRow, StepPcs
          <6> QED
            BY <4>3, <6>1 DEF UndoKnows, IsNext, Pending
        <5> QED
          BY <3>1, <3>2, <4>3, <5>1 DEF Knows, KnowsKeys
      <4> QED
        BY <3>1, <4>1, <4>2, <4>3, ThreadEffect
    <3> QED
      BY <2>0, <2>2, <3>2, <3>3, <3>4 DEF JobOf, Holding, Knows, SameSteps, SameStatus
  <2> QED
    BY <2>1, <2>2
<1> QED
  BY <1>1, <1>2

\* The handlers of the API.
LEMMA ApiFaults ==
    ASSUME IInv, FaultInv,
           NEW q \in Rotations,
           \/ TriggerRotation(q) \/ RejectCheck(q) \/ RejectWrite(q) \/ PlanExpires(q)
           \/ ApproveRotation(q)
           \/ \E i \in StepIdx : ConfirmCheck(q, i) \/ ConfirmWrite(q, i)
    PROVE  /\ \A r \in Rotations : RowOf(r)'
           /\ \A k \in Jobs : JobOf(k)'
<1>0. /\ TypeOK /\ DbOK /\ JobsOK /\ \A r \in Rotations : RowOf(r)
      /\ \A k \in Jobs : JobOf(k) /\ (~Holding(k) => mem[k] = NoMemory)
  BY DEF IInv, TypeOK, FaultInv, JobOf
<1>1. \A r \in Rotations : SameSteps(r) /\ SameKeys(r) /\ SameOld(r)
  <2>1. CASE TriggerRotation(q)
    <3>1. \A i \in StepIdx : step[q][i] = "pending"
      BY <2>1 DEF TriggerRotation, IInv, AbsentInv, Pending
    <3>2. step[q] = [i \in StepIdx |-> "pending"]
      BY <1>0, <3>1 DEF DbOK
    <3> QED
      BY <1>0, <2>1, <3>2 DEF TriggerRotation, SameSteps, SameKeys, SameOld, DbOK, cloudVars
  <2>2. CASE ~TriggerRotation(q)
    BY <2>2 DEF RejectCheck, RejectWrite, PlanExpires, ApproveRotation, ConfirmCheck,
                ConfirmWrite, SameSteps, SameKeys, SameOld, dbVars, cloudVars
  <2> QED
    BY <2>1, <2>2
<1>2. \A r \in Rotations : SameStatus(r) \/ status'[r] \in {"pending_approval", "rejected"}
  BY <1>0 DEF TriggerRotation, RejectCheck, RejectWrite, PlanExpires, ApproveRotation,
              ConfirmCheck, ConfirmWrite, SameStatus, dbVars, DbOK
<1>3. ASSUME NEW r \in Rotations
      PROVE  RowOf(r)'
  BY <1>0, <1>1, <1>2 DEF RowOf, RowHolds, SameStatus, SameSteps, SameKeys, SameOld
<1>4. ASSUME NEW k \in Jobs
      PROVE  JobOf(k)'
  <2>1. UNCHANGED mem /\ (UNCHANGED <<pc, rid>> \/ EnqueueFor(q))
    BY DEF TriggerRotation, RejectCheck, RejectWrite, PlanExpires, ApproveRotation, ConfirmCheck,
           ConfirmWrite, workerVars
  <2>2. /\ Holding(k)' <=> Holding(k)
        /\ Holding(k) => pc'[k] = pc[k] /\ rid'[k] = rid[k] /\ rid[k] \in Rotations
    BY <1>0, <2>1, Literals DEF EnqueueFor, Holding, JobsOK
  <2> QED
    BY <1>0, <1>1, <1>2, <2>1, <2>2
    DEF JobOf, Knows, KnowsRow, SameStatus, SameSteps, SameKeys, SameOld
<1> QED
  BY <1>3, <1>4

LEMMA FaultStep ==
    ASSUME IInv, FaultInv, [Next]_vars
    PROVE  FaultInv'
<1>1. CASE UNCHANGED <<dbVars, cloudVars, pc, rid, mem>>
  <2>1. \A r \in Rotations : RowOf(r)'
    BY <1>1 DEF FaultInv, RowOf, dbVars, cloudVars
  <2>2. \A k \in Jobs : JobOf(k)'
    BY <1>1 DEF FaultInv, JobOf, Holding, Knows, dbVars, cloudVars
  <2> QED
    BY <2>1, <2>2, ThreadsUndo DEF FaultInv, JobOf
<1>2. CASE ~UNCHANGED <<dbVars, cloudVars, pc, rid, mem>>
  <2>1. /\ \A r \in Rotations : RowOf(r)'
        /\ \A k \in Jobs : JobOf(k)'
    BY <1>2, ApiFaults, AdvanceFaults, QueueFaults, ThreadFaults
    DEF Next, JobStep, LockExpires, workerVars, vars
  <2> QED
    BY <2>1, ThreadsUndo DEF FaultInv, JobOf
<1> QED
  BY <1>1, <1>2

\* The invariant from which the theorems below follow.  Whatever jobs are killed or
\* cancelled, whatever their threads still do and whichever calls fail, the rows
\* record the steps in their order, and a job knows its rotation's row.
THEOREM FaultInvariant == Spec => [](IInv /\ FaultInv)
<1>1. Init => FaultInv
  <2> SUFFICES ASSUME Init
               PROVE  FaultInv
    OBVIOUS
  <2>1. \A j \in Jobs : ~Holding(j) /\ mem[j] = NoMemory
    BY Literals DEF Init, Holding
  <2>2. ASSUME NEW r \in Rotations
        PROVE  RowOf(r)
    <3>1. /\ step[r] = [i \in StepIdx |-> "pending"] /\ status[r] = "absent"
          /\ newRef[r] = 0 /\ issued[r] = 0 /\ live[r] = {}
      BY <2>2 DEF Init
    <3>2. StepsHold(step[r]) /\ step[r][Provision] = "pending" /\ step[r][Revoke] = "pending"
      BY <3>1, FourSteps DEF StepsHold
    <3> QED
      BY <3>1, <3>2 DEF RowOf, RowHolds
  <2> QED
    BY <2>1, <2>2 DEF Init, FaultInv
<1>2. IInv /\ FaultInv /\ [Next]_vars => FaultInv'
  BY FaultStep
<1> QED
  BY <1>1, <1>2, Inductive, PTL DEF Spec

\* What the recorded outcomes say about the keys.
LEMMA RowMeans ==
    ASSUME IInv, FaultInv, NEW r \in Rotations
    PROVE  /\ Provides /\ Revokes /\ step[r][Verify] \in {"done", "compensated"} =>
                 newRef[r] \in live[r]
           /\ Provides /\ Done(step[r]) = StepIdx => old[r] = "deleted" /\ newRef[r] \in live[r]
           /\ step[r][Verify] \in {"pending", "failed"} => old[r] = "active"
           /\ Revokes /\ Done(step[r]) = {} => newRef[r] \notin live[r]
           /\ newRef[r] <= issued[r] /\ live[r] \subseteq 1..issued[r]
           /\ newRef[r] \in Nat /\ issued[r] \in Nat
<1> DEFINE ss == step[r]
<1>1. /\ RowHolds(ss, status[r], newRef[r], issued[r], live[r], old[r])
      /\ ss \in [StepIdx -> StepStatus]
      /\ newRef[r] \in Nat /\ issued[r] \in Nat
  BY DEF FaultInv, RowOf, IInv, TypeOK, DbOK, CloudOK
<1>2. ss[Verify] \in {"pending", "failed"} => old[r] = "active"
  BY DEF IInv, VerifiedBeforeRevoke
<1> HIDE DEF ss
<1>3. ASSUME Provides, ~FailedLate(ss), ss[Verify] # "pending"
      PROVE  newRef[r] \in live[r]
  <2>1. ss[Provision] # "pending"
    BY <1>1, <1>3, FourSteps DEF RowHolds, StepsHold
  <2>2. ss[Provision] \notin {"failed", "compensated"}
    BY <1>1, <1>3, FourSteps DEF RowHolds, StepsHold
  <2> QED
    BY <1>1, <1>3, <2>1, <2>2, FourSteps DEF RowHolds, StepStatus
<1>4. ASSUME Provides, Revokes, ss[Verify] \in {"done", "compensated"}
      PROVE  newRef[r] \in live[r]
  <2>1. ~FailedLate(ss)
    BY <1>1, <1>4 DEF RowHolds, StepsHold, FailedLate
  <2> QED
    BY <1>3, <1>4, <2>1
<1>5. ASSUME Provides, Done(ss) = StepIdx
      PROVE  old[r] = "deleted" /\ newRef[r] \in live[r]
  <2>1. ss[Verify] = "done" /\ ss[Revoke] = "done"
    BY <1>5, FourSteps DEF Done
  <2> QED
    BY <1>1, <1>3, <1>5, <2>1 DEF RowHolds, FailedLate
<1>6. ASSUME Revokes, Done(ss) = {}
      PROVE  newRef[r] \notin live[r]
  <2>1. ss[Provision] \in {"pending", "failed", "compensated"}
    BY <1>1, <1>6, FourSteps DEF Done, StepStatus
  <2> QED
    BY <1>1, <1>6, <2>1 DEF RowHolds
<1> QED
  BY <1>1, <1>2, <1>4, <1>5, <1>6 DEF RowHolds, ss

-------------------------------------------------------------------------------
(***************************************************************************)
(* The theorems.                                                           *)
(***************************************************************************)

\* No consumer is locked out, however often the worker dies, as long as only the
\* verification may fail.
THEOREM NoLockoutByFaults ==
    ASSUME Provides, Revokes
    PROVE  Spec => []NoLockout
<1>1. IInv /\ FaultInv => NoLockout
  BY RowMeans DEF NoLockout, IInv, VerifiedBeforeRevoke
<1> QED
  BY <1>1, FaultInvariant, PTL

\* A rotation shown as completed is, also when a redelivered job has completed it and
\* even if the old credential resisted at first, provided that no step before the
\* verification fails.
THEOREM CompletedDespiteFaults ==
    ASSUME Provides
    PROVE  Spec => []CompletedIsComplete
<1>1. IInv /\ FaultInv => CompletedIsComplete
  BY RowMeans DEF CompletedIsComplete, FaultInv, RowOf, RowHolds
<1> QED
  BY <1>1, FaultInvariant, PTL

\* A rotation shown as rolled back is, whichever step has failed, provided that
\* credentials can be deleted: a rollback that was cut short never shows as one.
THEOREM CleanDespiteFaults ==
    ASSUME Revokes
    PROVE  Spec => []RolledBackIsClean
<1>1. IInv /\ FaultInv => RolledBackIsClean
  BY RowMeans DEF RolledBackIsClean, FaultInv, RowOf, RowHolds
<1> QED
  BY <1>1, FaultInvariant, PTL

-------------------------------------------------------------------------------
(***************************************************************************)
(* The refinement.                                                         *)
(***************************************************************************)

\* A key that is created is not yet the recorded one.
LEMMA CreateOffersNothing ==
    ASSUME IInv, FaultInv, NEW r \in Rotations, CreateKey(r), newRef' = newRef
    PROVE  Stutters
<1> SUFFICES ASSUME NEW q \in Rotations
             PROVE  SameFor(q)
  BY DEF Stutters
<1>1. live'[q] = IF q = r THEN live[q] \cup {issued[q] + 1} ELSE live[q]
  BY DEF CreateKey, IInv, TypeOK, CloudOK
<1>2. newRef[q] \in live'[q] <=> newRef[q] \in live[q]
  BY <1>1, RowMeans
<1> QED
  BY <1>2 DEF CreateKey, SameFor, ValidFor, SettledFor

\* The old credential goes while the new one is there.
LEMMA RevokeRetires ==
    ASSUME IInv, FaultInv, Provides, Revokes, NEW r \in Rotations, Revoking(r),
           DisableOld(r) \/ DeleteOld(r), newRef' = newRef
    PROVE  Promise!Next \/ Stutters
<1>1. live' = live /\ CloudOK
  BY DEF DisableOld, DeleteOld, IInv, TypeOK
<1>2. newRef[r] \in live[r]
  BY RowMeans DEF IInv, VerifiedBeforeRevoke
<1>3. \A q \in Rotations \ {r} : SameFor(q)
  BY <1>1 DEF DisableOld, DeleteOld, CloudOK, SameFor, ValidFor, SettledFor
<1>4. CASE old[r] = "active"
  <2>1. old'[r] # "active"
    BY <1>1, <1>4 DEF DisableOld, DeleteOld, CloudOK
  <2>2. ValidFor(r) = {"old", "new"}
    BY <1>2, <1>4, Unsettled
  <2>3. ValidFor(r)' = {"new"} /\ SettledFor(r)'
    BY <1>1, <1>2, <2>1 DEF ValidFor, SettledFor
  <2> QED
    BY <1>3, <2>2, <2>3, OneMoves
<1>5. CASE old[r] # "active"
  <2>1. old'[r] # "active"
    BY <1>1, <1>5 DEF DisableOld, DeleteOld, CloudOK
  <2>2. SameFor(r)
    BY <1>1, <1>5, <2>1 DEF SameFor, ValidFor, SettledFor
  <2> QED
    BY <1>3, <2>2 DEF Stutters
<1> QED
  BY <1>4, <1>5

\* The new credential goes while the old one is there.
LEMMA DeleteWithdraws ==
    ASSUME IInv, FaultInv, Provides, Revokes, NEW r \in Rotations, UndoKnows(step[r]),
           NEW k, DeleteNew(r, k), newRef' = newRef
    PROVE  Promise!Next \/ Stutters
<1>1. old' = old /\ old[r] = "active"
  <2>1. step[r][Verify] = "failed"
    BY DEF UndoKnows, FailedLate, FaultInv, RowOf, RowHolds, StepsHold
  <2> QED
    BY <2>1, RowMeans DEF DeleteNew
<1>2. live' = [live EXCEPT ![r] = live[r] \ {k}] /\ live \in [Rotations -> SUBSET Nat]
  BY DEF DeleteNew, IInv, TypeOK, CloudOK
<1>3. \A q \in Rotations \ {r} : SameFor(q)
  BY <1>1, <1>2 DEF SameFor, ValidFor, SettledFor
<1>4. CASE k = newRef[r] /\ newRef[r] \in live[r]
  <2>1. newRef[r] # 0
    BY <1>4, RowMeans
  <2>2. ValidFor(r) = {"old", "new"}
    BY <1>1, <1>4, Unsettled
  <2>3. ValidFor(r)' = {"old"} /\ SettledFor(r)'
    BY <1>1, <1>2, <1>4, <2>1 DEF ValidFor, SettledFor
  <2> QED
    BY <1>3, <2>2, <2>3, OneMoves
<1>5. CASE ~(k = newRef[r] /\ newRef[r] \in live[r])
  <2>1. newRef[r] \in live'[r] <=> newRef[r] \in live[r]
    BY <1>2, <1>5
  <2>2. SameFor(r)
    BY <1>1, <2>1 DEF SameFor, ValidFor, SettledFor
  <2> QED
    BY <1>3, <2>2 DEF Stutters
<1> QED
  BY <1>4, <1>5

LEMMA PersistOffers ==
    ASSUME IInv, FaultInv, NEW j \in Jobs, PersistDone(j)
    PROVE  Promise!Next \/ Stutters
<1> DEFINE i == mem[j].idx
<1>0. PICK r \in Rotations : r = rid[j]
  BY AtWork, Literals DEF Holding, PersistDone
<1>1. pc[j] = "done" /\ live' = live /\ old' = old
  BY DEF PersistDone, cloudVars
<1>2. /\ r \in Rotations /\ RowOf(r) /\ newRef[r] \in Nat /\ mem[j] \in Memory
      /\ step[r] \in [StepIdx -> StepStatus]
      /\ KnowsRow("done", mem[j], step[r], status[r])
      /\ KnowsKeys("done", mem[j], newRef[r], live[r], old[r])
  BY <1>0, <1>1, AtWork, Literals DEF Holding, Knows
<1>3. newRef'[r] = IF mem[j].key # 0 THEN mem[j].key ELSE newRef[r]
  BY <1>0, <1>2 DEF PersistDone, IInv, TypeOK, DbOK
<1>4. CASE i = Provision
  <2>1. step[r][Provision] = "pending"
    BY <1>2, <1>4 DEF KnowsRow, StepPcs, IsNext, Pending
  <2>2. step[r][Verify] = "pending"
    BY <1>2, <2>1, FourSteps DEF RowOf, RowHolds, StepsHold
  <2>3. old[r] = "active"
    BY <1>2, <2>2 DEF IInv, VerifiedBeforeRevoke
  <2>4. /\ newRef[r] = 0 /\ newRef[r] \notin live[r]
        /\ mem[j].key \in live[r] /\ mem[j].key # 0
    BY <1>2, <1>4, <2>1, RowMeans DEF RowOf, RowHolds, KnowsKeys
  <2>5. old'[r] = "active" /\ newRef'[r] \in live'[r]
    BY <1>1, <1>3, <2>3, <2>4
  <2>6. ValidFor(r) = {"old"} /\ ~SettledFor(r)
    BY <2>3, <2>4, Unsettled
  <2>7. ValidFor(r)' = {"old", "new"} /\ ~SettledFor(r)'
    BY <2>5 DEF ValidFor, SettledFor
  <2> QED
    BY <1>0, <1>2, <2>6, <2>7, NobodyElse, OneMoves DEF AdvanceRotation
<1>5. CASE i # Provision
  <2>1. newRef'[r] = newRef[r]
    BY <1>2, <1>3, <1>5 DEF KnowsKeys
  <2>2. SameFor(r)
    BY <1>1, <2>1 DEF SameFor, ValidFor, SettledFor
  <2> QED
    BY <1>0, <2>2, NobodyElse DEF Stutters, AdvanceRotation
<1> QED
  BY <1>4, <1>5

LEMMA JobHandsOver ==
    ASSUME IInv, FaultInv, Provides, Revokes, NEW j \in Jobs,
           CreateCall(j) \/ DisableCall(j) \/ DeleteCall(j) \/ UndoCall(j)
    PROVE  Promise!Next \/ Stutters
<1>0. PICK r \in Rotations : r = rid[j]
  BY AtWork, Literals DEF Holding, CreateCall, DisableCall, DeleteCall, UndoCall
<1>1. newRef' = newRef
  BY DEF CreateCall, DisableCall, DeleteCall, UndoCall, dbVars
<1>2. CASE UNCHANGED <<newRef, old, live>>
  BY <1>2 DEF Stutters, SameFor, ValidFor, SettledFor
<1>3. CASE CreateKey(r)
  BY <1>1, <1>3, CreateOffersNothing
<1>4. CASE pc[j] \in {"disable", "delete"} /\ (DisableOld(r) \/ DeleteOld(r))
  <2>1. Revoking(r)
    BY <1>0, <1>4 DEF Revoking
  <2> QED
    BY <1>1, <1>4, <2>1, RevokeRetires
<1>5. CASE pc[j] = "undo" /\ DeleteNew(r, mem[j].ref)
  <2>1. UndoKnows(step[r])
    BY <1>0, <1>5, AtWork, Literals
    DEF Holding, Knows, KnowsRow, UndoPcs, CompensatePcs, UndoKnows
  <2> QED
    BY <1>1, <1>5, <2>1, DeleteWithdraws
<1> QED
  BY <1>0, <1>2, <1>3, <1>4, <1>5
  DEF CreateCall, DisableCall, DeleteCall, UndoCall, dbVars, cloudVars

LEMMA ThreadHandsOver ==
    ASSUME IInv, FaultInv, Provides, Revokes, NEW t \in threads, ThreadRuns(t)
    PROVE  Promise!Next \/ Stutters
<1>0. t.rid \in Rotations /\ newRef' = newRef
  BY DEF ThreadRuns, dbVars, IInv, TypeOK, Threads
<1>1. CASE UNCHANGED <<newRef, old, live>>
  BY <1>1 DEF Stutters, SameFor, ValidFor, SettledFor
<1>2. CASE CreateKey(t.rid)
  BY <1>0, <1>2, CreateOffersNothing
<1>3. CASE t.op \in {"disable", "delete"} /\ (DisableOld(t.rid) \/ DeleteOld(t.rid))
  <2>1. Revoking(t.rid)
    BY <1>3 DEF Revoking
  <2> QED
    BY <1>0, <1>3, <2>1, RevokeRetires
<1>4. CASE t.op = "undo" /\ DeleteNew(t.rid, t.key)
  <2>1. UndoKnows(step[t.rid])
    BY <1>4 DEF FaultInv
  <2> QED
    BY <1>0, <1>4, <2>1, DeleteWithdraws
<1> QED
  BY <1>0, <1>1, <1>2, <1>3, <1>4 DEF ThreadRuns, WriteStore, cloudVars

LEMMA StepKeepsPromise ==
    ASSUME IInv, FaultInv, Provides, Revokes, [Next]_vars
    PROVE  Promise!Next \/ Stutters
<1>1. CASE UNCHANGED <<newRef, old, live>>
  BY <1>1 DEF Stutters, SameFor, ValidFor, SettledFor
<1>2. ASSUME NEW j \in Jobs, AdvanceRotation(j)
      PROVE  UNCHANGED <<newRef, old, live>> \/ Promise!Next \/ Stutters
  BY <1>2, PersistOffers, JobHandsOver
  DEF AdvanceRotation, LoadRotation, LoadSteps, Gate, WriteExpired, WriteAwaiting, StartStep,
      SetStatus, WriteCall, WriteStore, VerifyCall, WriteCompleted, PersistFailed,
      WriteRollingBack, PersistUndo, WriteFinal, dbVars, cloudVars
<1> QED
  BY <1>1, <1>2, ThreadHandsOver
  DEF Next, vars, dbVars, cloudVars, JobStep, TriggerRotation, ApproveRotation, RejectCheck,
      RejectWrite, ConfirmCheck, ConfirmWrite, PlanExpires, StartJob, Redeliver, LockExpires,
      Release, Continue, Crash, Interrupt

\* Rotation implements Handover with a worker that fails at any point: jobs that are
\* run again and threads that outlive theirs change the credentials, if at all, as
\* the job that was cut short would have.
THEOREM ImplementsDespiteFaults ==
    ASSUME Provides, Revokes
    PROVE  Spec => KeepsPromise
<1>1. IInv /\ FaultInv /\ [Next]_vars => [Promise!Next]_(Promise!handoverVars)
  BY PromiseStutters, StepKeepsPromise
<1> QED
  BY <1>1, PromiseStarts, FaultInvariant, PTL DEF Spec, KeepsPromise, Promise!Spec
================================================================================
