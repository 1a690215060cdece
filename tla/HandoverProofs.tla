----------------------------- MODULE HandoverProofs -----------------------------
(***************************************************************************)
(* Theorems about Rotation as long as no job is killed or cancelled: for   *)
(* every set of rotations, secrets and jobs and every interleaving of      *)
(* requests, duplicate jobs and failing calls, a rotation keeps what       *)
(* Handover promises.                                                      *)
(***************************************************************************)
EXTENDS RotationHandover, RotationProofs

-------------------------------------------------------------------------------
(***************************************************************************)
(* What one step of a job does to what fits it, value by value.            *)
(***************************************************************************)

\* A place at which a job relies on nothing but the rows.
Idle == {"free", "load", "release", "continue"}

\* The steps as a function of the four indices.
LEMMA FourSteps ==
    /\ StepIdx = {Provision, Distribute, Verify, Revoke}
    /\ Provision = 0 /\ Distribute = 1 /\ Verify = 2 /\ Revoke = 3
BY DEF StepIdx, Provision, Distribute, Verify, Revoke

LEMMA IdleSteps ==
    ASSUME NEW p \in Idle, NEW q \in Idle, NEW m, NEW n, NEW ss, NEW st,
           FitsSteps(p, m, ss, st)
    PROVE  FitsSteps(q, n, ss, st)
BY DEF Idle, FitsSteps, WorkPcs, UndoPcs, CompensatePcs, StepPcs

LEMMA IdleKeys ==
    ASSUME NEW p \in Idle, NEW q \in Idle, NEW m, NEW n, NEW ss, NEW ref, NEW count, NEW keys,
           q = "load" => n.key = 0,
           FitsKeys(p, m, ss, ref, count, keys)
    PROVE  FitsKeys(q, n, ss, ref, count, keys)
BY DEF Idle, FitsKeys, KeylessPcs, RefPcs, CompensatePcs, StepPcs

LEMMA IdleOld ==
    ASSUME NEW p \in Idle, NEW q \in Idle, NEW m, NEW n, NEW ss, NEW key,
           FitsOld(p, m, ss, key)
    PROVE  FitsOld(q, n, ss, key)
BY DEF Idle, FitsOld

-------------------------------------------------------------------------------
(***************************************************************************)
(* One step of the job in the lock.                                        *)
(***************************************************************************)

LEMMA InPlace ==
    ASSUME IInv, HandoverInv, NEW j \in Jobs, Holding(j)
    PROVE  /\ rid[j] \in Rotations /\ mem[j] \in Memory
           /\ step[rid[j]] \in [StepIdx -> StepStatus]
           /\ status[rid[j]] \in RotationStatus \ {"absent"}
           /\ newRef[rid[j]] \in Nat /\ issued[rid[j]] \in Nat
           /\ Fits(rid[j], pc[j], mem[j])
BY Literals
DEF IInv, TypeOK, DbOK, CloudOK, JobsOK, AbsentInv, HandoverInv, Fitting, Inside, Holding

\* The rows and the credentials of r are as they were.
SameStatus(r) == status'[r] = status[r]
SameSteps(r)  == step'[r] = step[r]
SameKeys(r)   == newRef'[r] = newRef[r] /\ issued'[r] = issued[r] /\ live'[r] = live[r]
SameOld(r)    == old'[r] = old[r]
SameRow(r)    == SameStatus(r) /\ SameSteps(r) /\ SameKeys(r) /\ SameOld(r)

FitsAfter(j) == Fits(rid[j], pc[j], mem[j])'

LEMMA Went ==
    ASSUME IInv, NEW j \in Jobs, NEW p, Goto(j, p)
    PROVE  pc'[j] = p
BY DEF Goto, IInv, TypeOK, JobsOK

LEMMA LoadFits ==
    ASSUME IInv, HandoverInv, NEW j \in Jobs, LoadRotation(j)
    PROVE  FitsAfter(j)
<1> DEFINE r == rid[j]
<1>1. pc[j] = "load" /\ SameRow(r) /\ rid'[j] = r
  BY DEF LoadRotation, SameRow, SameStatus, SameSteps, SameKeys, SameOld, dbVars, cloudVars
<1>2. /\ pc'[j] \in {"release", "expire", "steps"}
      /\ pc'[j] # "release" => status[r] \notin Terminal
  <2>1. CASE status[r] \in Terminal
    <3>1. Goto(j, "release")
      BY <2>1 DEF LoadRotation, Terminal
    <3> QED
      BY <3>1, Went
  <2>2. CASE status[r] \notin Terminal /\ status[r] = "pending_approval" /\ expired[r]
    BY <2>2, Went DEF LoadRotation
  <2>3. CASE status[r] \notin Terminal /\ ~(status[r] = "pending_approval" /\ expired[r])
    <3>1. Goto(j, "steps")
      BY <2>3 DEF LoadRotation
    <3> QED
      BY <2>3, <3>1, Went
  <2> QED
    BY <2>1, <2>2, <2>3
<1>3. mem'[j].key = mem[j].key /\ mem'[j].ref = newRef[r]
  BY DEF LoadRotation, IInv, TypeOK, Memory
<1>4. Fits(r, "load", mem[j])
  BY <1>1, InPlace, Literals DEF Holding
<1> QED
  BY <1>1, <1>2, <1>3, <1>4, SMT
  DEF FitsAfter, SameRow, SameStatus, SameSteps, SameKeys, SameOld, Fits, FitsSteps, FitsKeys,
      FitsOld, WorkPcs, UndoPcs, CompensatePcs, KeylessPcs, RefPcs, StepPcs, Terminal

LEMMA GateFits ==
    ASSUME IInv, HandoverInv, NEW j \in Jobs, Gate(j)
    PROVE  FitsAfter(j)
<1> DEFINE r == rid[j]
<1>1. pc[j] = "gate" /\ SameRow(r) /\ rid'[j] = r /\ mem'[j] = mem[j]
  BY DEF Gate, SameRow, SameStatus, SameSteps, SameKeys, SameOld, dbVars, cloudVars
<1>2. pc'[j] \in {"start", "await"}
  BY Went DEF Gate
<1>3. Fits(r, "gate", mem[j])
  BY <1>1, InPlace, Literals DEF Holding
<1> QED
  BY <1>1, <1>2, <1>3, SMT
  DEF FitsAfter, SameRow, SameStatus, SameSteps, SameKeys, SameOld, Fits, FitsSteps, FitsKeys,
      FitsOld, WorkPcs, UndoPcs, CompensatePcs, KeylessPcs, RefPcs, StepPcs

LEMMA StatusSet ==
    ASSUME IInv, HandoverInv, NEW j \in Jobs, Holding(j), NEW new, NEW next,
           SetStatus(j, new, next)
    PROVE  /\ rid'[j] = rid[j] /\ SameKeys(rid[j]) /\ SameOld(rid[j])
           /\ \/ Clash(rid[j], new) /\ SameStatus(rid[j]) /\ pc'[j] = "release"
              \/ status'[rid[j]] = new /\ pc'[j] = next
BY InPlace, Went DEF SetStatus, SameKeys, SameOld, SameStatus, cloudVars, IInv, TypeOK, DbOK

LEMMA WorkWriteFits ==
    ASSUME IInv, HandoverInv, NEW j \in Jobs,
           WriteExpired(j) \/ WriteAwaiting(j) \/ WriteCompleted(j)
    PROVE  FitsAfter(j)
<1> DEFINE r == rid[j]
<1>1. pc[j] \in {"expire", "await", "complete"} /\ SameSteps(r) /\ mem'[j] = mem[j]
  BY DEF WriteExpired, WriteAwaiting, WriteCompleted, SameSteps
<1>2. PICK new \in {"needs_replan", "awaiting_confirmation", "completed"} :
        /\ SetStatus(j, new, "release")
        /\ new = "completed" => pc[j] = "complete"
  BY DEF WriteExpired, WriteAwaiting, WriteCompleted
<1>3. Holding(j)
  BY <1>1, Literals DEF Holding
<1>4. /\ rid'[j] = r /\ SameKeys(r) /\ SameOld(r) /\ pc'[j] = "release"
      /\ SameStatus(r) \/ status'[r] = new
  BY <1>2, <1>3, StatusSet
<1>5. Fits(r, pc[j], mem[j])
  BY <1>3, InPlace
<1> QED
  BY <1>1, <1>2, <1>4, <1>5, SMT
  DEF FitsAfter, SameStatus, SameSteps, SameKeys, SameOld, Fits, FitsSteps, FitsKeys,
      FitsOld, WorkPcs, UndoPcs, CompensatePcs, KeylessPcs, RefPcs, StepPcs

LEMMA StartFits ==
    ASSUME IInv, HandoverInv, NEW j \in Jobs, StartStep(j)
    PROVE  FitsAfter(j)
<1> DEFINE r == rid[j]
<1>1. pc[j] = "start" /\ SameSteps(r) /\ mem'[j] = mem[j]
  BY DEF StartStep, SameSteps, dbVars
<1>2. Holding(j)
  BY <1>1, Literals DEF Holding
<1>3. mem[j].idx \in StepIdx
  BY <1>2, InPlace DEF Memory
<1>4. /\ rid'[j] = r /\ SameKeys(r) /\ SameOld(r)
      /\ \/ SameStatus(r) /\ pc'[j] = "release"
         \/ (SameStatus(r) \/ status'[r] = RunningStatus(mem[j].idx)) /\ pc'[j] = FirstCall(j)
  <2>1. CASE mem[j].status = RunningStatus(mem[j].idx)
    BY <2>1, Went DEF StartStep, SameKeys, SameOld, SameStatus, dbVars, cloudVars
  <2>2. CASE SetStatus(j, RunningStatus(mem[j].idx), FirstCall(j))
    BY <1>2, <2>2, StatusSet
  <2> QED
    BY <2>1, <2>2 DEF StartStep
<1>5. RunningStatus(mem[j].idx) \notin Terminal
  BY <1>3, FourSteps DEF RunningStatus, Terminal
<1>6. /\ FirstCall(j) \in {"create", "distribute", "verify", "disable", "done"}
      /\ FirstCall(j) = "create" => mem[j].idx = Provision
      /\ FirstCall(j) \in {"distribute", "verify", "done"} =>
            mem[j].idx \in {Distribute, Verify}
      /\ FirstCall(j) = "disable" => mem[j].idx = Revoke
  BY <1>3, FourSteps DEF FirstCall
<1>7. Fits(r, "start", mem[j])
  BY <1>1, <1>2, InPlace
<1> QED
  BY <1>1, <1>3, <1>4, <1>5, <1>6, <1>7, FourSteps, SMT
  DEF FitsAfter, SameStatus, SameSteps, SameKeys, SameOld, Fits, FitsSteps, FitsKeys, Terminal,
      FitsOld, WorkPcs, UndoPcs, CompensatePcs, KeylessPcs, RefPcs, StepPcs

LEMMA LoadStepsFits ==
    ASSUME IInv, HandoverInv, NEW j \in Jobs, LoadSteps(j)
    PROVE  FitsAfter(j)
<1> DEFINE r == rid[j]
           ss == step[rid[j]]
<1>1. pc[j] = "steps" /\ SameRow(r) /\ rid'[j] = r
  BY DEF LoadSteps, SameRow, SameStatus, SameSteps, SameKeys, SameOld, dbVars, cloudVars
<1>2. Fits(r, "steps", mem[j]) /\ mem[j] \in Memory /\ ss \in [StepIdx -> StepStatus]
  BY <1>1, InPlace, Literals DEF Holding
<1>3. mem'[j].key = mem[j].key /\ mem'[j].ref = mem[j].ref /\ mem'[j].steps = ss
  BY DEF LoadSteps, IInv, TypeOK, Memory
<1>4. CASE Pending(ss) = {}
  <2>1. pc'[j] = "release" \/ (pc'[j] = "complete" /\ Done(ss) = StepIdx)
    BY <1>4, Went DEF LoadSteps, IsNext
  <2> QED
    BY <1>1, <1>2, <1>3, <2>1, SMT
    DEF FitsAfter, SameRow, SameStatus, SameSteps, SameKeys, SameOld, Fits, FitsSteps, FitsKeys,
        FitsOld, WorkPcs, UndoPcs, CompensatePcs, KeylessPcs, RefPcs, StepPcs
<1>5. CASE Pending(ss) # {}
  <2>1. PICK i \in StepIdx :
          /\ IsNext(i, ss)
          /\ mem' = [mem EXCEPT ![j].steps = ss, ![j].idx = i]
          /\ Goto(j, CASE MustConfirm(j, i) -> "await"
                       [] ~MustConfirm(j, i) /\ i = Revoke -> "gate"
                       [] OTHER -> "start")
    BY <1>5 DEF LoadSteps
  <2>2. mem'[j].idx = i
    BY <2>1, TwoFields DEF IInv, TypeOK
  <2>3. pc'[j] \in {"await", "gate", "start"}
    <3>1. CASE MustConfirm(j, i)
      BY <2>1, <3>1, Went
    <3>2. CASE ~MustConfirm(j, i) /\ i = Revoke
      BY <2>1, <3>2, Went
    <3>3. CASE ~MustConfirm(j, i) /\ i # Revoke
      BY <2>1, <3>3, Went
    <3> QED
      BY <3>1, <3>2, <3>3
  <2>4. ss[i] = "pending" /\ \A k \in StepIdx : k < i => ss[k] = "done"
    <3>1. ss[i] = "pending" /\ \A k \in StepIdx : k < i => ss[k] # "pending"
      BY <2>1, FourSteps DEF IsNext, Pending
    <3>2. \A k \in StepIdx : ss[k] \in {"pending", "done"}
      BY <1>2 DEF Fits, FitsSteps, WorkPcs, Broken, StepStatus
    <3> QED
      BY <3>1, <3>2
  <2> QED
    BY <1>1, <1>2, <1>3, <2>2, <2>3, <2>4, SMT
    DEF FitsAfter, SameRow, SameStatus, SameSteps, SameKeys, SameOld, Fits, FitsSteps, FitsKeys,
        FitsOld, WorkPcs, UndoPcs, CompensatePcs, KeylessPcs, RefPcs, StepPcs
<1> QED
  BY <1>4, <1>5

\* The calls.
LEMMA CreateFits ==
    ASSUME IInv, HandoverInv, NEW j \in Jobs, CreateCall(j)
    PROVE  FitsAfter(j)
<1> DEFINE r == rid[j]
<1>1. pc[j] = "create" /\ SameStatus(r) /\ SameSteps(r) /\ SameOld(r) /\ rid'[j] = r
      /\ newRef'[r] = newRef[r]
  BY DEF CreateCall, CreateKey, SameStatus, SameSteps, SameOld, dbVars, cloudVars
<1>2. Fits(r, "create", mem[j]) /\ mem[j] \in Memory /\ r \in Rotations /\ issued[r] \in Nat
  BY <1>1, InPlace, Literals DEF Holding
<1>3. issued[r] = 0 /\ live[r] = {} /\ mem[j].idx = Provision
  BY <1>2 DEF Fits, FitsSteps, FitsKeys, StepPcs
<1>4. CASE CreateKey(r) /\ mem' = [mem EXCEPT ![j].key = issued'[r]] /\ Goto(j, "write")
  <2>1. issued'[r] = 1 /\ live'[r] = {1}
    BY <1>2, <1>3, <1>4 DEF CreateKey, IInv, TypeOK, CloudOK
  <2>2. /\ mem'[j].key = 1 /\ mem'[j].idx = mem[j].idx
        /\ mem'[j].steps = mem[j].steps /\ mem'[j].ref = mem[j].ref
    BY <1>4, <2>1 DEF IInv, TypeOK, Memory
  <2>3. pc'[j] = "write"
    BY <1>4, Went
  <2> QED
    BY <1>1, <1>2, <1>3, <2>1, <2>2, <2>3, SMT
    DEF FitsAfter, SameStatus, SameSteps, SameKeys, SameOld, Fits, FitsSteps, FitsKeys,
        FitsOld, WorkPcs, UndoPcs, CompensatePcs, KeylessPcs, RefPcs, StepPcs
<1>5. CASE Goto(j, "failed") /\ UNCHANGED cloudVars /\ UNCHANGED mem
  <2>1. SameKeys(r) /\ mem'[j] = mem[j] /\ pc'[j] = "failed"
    BY <1>1, <1>5, Went DEF SameKeys, cloudVars
  <2> QED
    BY <1>1, <1>2, <2>1, SMT
    DEF FitsAfter, SameStatus, SameSteps, SameKeys, SameOld, Fits, FitsSteps, FitsKeys,
        FitsOld, WorkPcs, UndoPcs, CompensatePcs, KeylessPcs, RefPcs, StepPcs
<1> QED
  BY <1>4, <1>5 DEF CreateCall

LEMMA WriteFits ==
    ASSUME IInv, HandoverInv, NEW j \in Jobs, WriteCall(j) \/ VerifyCall(j)
    PROVE  FitsAfter(j)
<1> DEFINE r == rid[j]
<1>1. /\ pc[j] \in {"write", "distribute", "verify"}
      /\ SameRow(r) /\ rid'[j] = r /\ mem'[j] = mem[j]
  BY DEF WriteCall, VerifyCall, WriteStore, SameRow, SameStatus, SameSteps, SameKeys, SameOld,
         dbVars, cloudVars
<1>2. Fits(r, pc[j], mem[j]) /\ mem[j] \in Memory
  BY <1>1, InPlace, Literals DEF Holding
<1>3. pc'[j] \in {"done", "failed"}
  BY Went DEF WriteCall, VerifyCall
<1>4. mem[j].idx # Revoke /\ (mem[j].idx = Provision => pc[j] = "write")
  BY <1>1, <1>2, FourSteps DEF Fits, FitsKeys
<1> QED
  BY <1>1, <1>2, <1>3, <1>4, SMT
  DEF FitsAfter, SameRow, SameStatus, SameSteps, SameKeys, SameOld, Fits, FitsSteps, FitsKeys,
      FitsOld, WorkPcs, UndoPcs, CompensatePcs, KeylessPcs, RefPcs, StepPcs

LEMMA DisableFits ==
    ASSUME IInv, HandoverInv, NEW j \in Jobs, DisableCall(j) \/ DeleteCall(j)
    PROVE  FitsAfter(j)
<1> DEFINE r == rid[j]
<1>1. /\ pc[j] \in {"disable", "delete"}
      /\ SameStatus(r) /\ SameSteps(r) /\ SameKeys(r) /\ rid'[j] = r /\ mem'[j] = mem[j]
  BY DEF DisableCall, DeleteCall, DisableOld, DeleteOld, SameStatus, SameSteps, SameKeys,
         dbVars, cloudVars
<1>2. Fits(r, pc[j], mem[j]) /\ mem[j] \in Memory /\ r \in Rotations
  BY <1>1, InPlace, Literals DEF Holding
<1>3. mem[j].idx = Revoke /\ Revoke # Provision
  BY <1>1, <1>2, FourSteps DEF Fits, FitsOld
<1>4. \/ pc[j] = "disable" /\ pc'[j] = "delete"
      \/ pc[j] = "disable" /\ pc'[j] = "failed" /\ SameOld(r)
      \/ pc[j] = "delete" /\ pc'[j] = "done" /\ old'[r] = "deleted"
      \/ pc[j] = "delete" /\ pc'[j] = "failed" /\ ~Deletes
  <2>1. CASE DisableCall(j)
    BY <2>1, Went DEF DisableCall, SameOld, cloudVars
  <2>2. CASE DeleteCall(j) /\ DeleteOld(r)
    BY <1>2, <2>2, Went DEF DeleteCall, DeleteOld, IInv, TypeOK, CloudOK, Deletes
  <2>3. CASE DeleteCall(j) /\ ~DeleteOld(r)
    BY <2>3, Went DEF DeleteCall, Deletes
  <2> QED
    BY <2>1, <2>2, <2>3
<1>5. Done(step[r]) # StepIdx
  BY <1>1, <1>2, <1>3, FourSteps DEF Fits, FitsSteps, StepPcs, Done
<1> QED
  BY <1>1, <1>2, <1>3, <1>4, <1>5, SMT
  DEF FitsAfter, SameStatus, SameSteps, SameKeys, SameOld, Fits, FitsSteps, FitsKeys,
      FitsOld, WorkPcs, UndoPcs, CompensatePcs, KeylessPcs, RefPcs, StepPcs

LEMMA PersistDoneFits ==
    ASSUME IInv, HandoverInv, NEW j \in Jobs, PersistDone(j)
    PROVE  FitsAfter(j)
<1> DEFINE r == rid[j]
           i == mem[j].idx
           ss == step[r]
           tt == step'[r]
<1>1. /\ pc[j] = "done" /\ SameStatus(r) /\ SameOld(r) /\ rid'[j] = r /\ mem'[j] = mem[j]
      /\ issued'[r] = issued[r] /\ live'[r] = live[r]
  BY DEF PersistDone, SameStatus, SameOld, cloudVars
<1>2. /\ Fits(r, "done", mem[j]) /\ mem[j] \in Memory /\ r \in Rotations
      /\ ss \in [StepIdx -> StepStatus] /\ newRef[r] \in Nat /\ issued[r] \in Nat
  BY <1>1, InPlace, Literals DEF Holding
<1>3. i \in StepIdx /\ mem[j].key \in Nat
  BY <1>2 DEF Memory
<1>4. tt = [ss EXCEPT ![i] = "done"]
  BY <1>2 DEF PersistDone, IInv, TypeOK, DbOK
<1>5. newRef'[r] = IF mem[j].key # 0 THEN mem[j].key ELSE newRef[r]
  BY <1>2 DEF PersistDone, IInv, TypeOK, DbOK
<1>6. /\ mem[j].steps = ss /\ ss[i] = "pending"
      /\ \A k \in StepIdx : ss[k] \in {"pending", "done"}
      /\ \A k \in StepIdx : k < i => ss[k] = "done"
  BY <1>2 DEF Fits, FitsSteps, StepPcs, WorkPcs, Broken, StepStatus
<1>7. /\ pc'[j] \in {"continue", "complete"}
      /\ pc'[j] = "complete" => \A k \in StepIdx : k > i => ss[k] = "done"
  BY <1>6, Went DEF PersistDone, Pending
<1>8. /\ tt[i] = "done" /\ \A k \in StepIdx : k # i => tt[k] = ss[k]
      /\ \A k \in StepIdx : tt[k] \in {"pending", "done"}
  BY <1>2, <1>3, <1>4, <1>6
<1>9. pc'[j] = "complete" => Done(tt) = StepIdx
  BY <1>3, <1>6, <1>7, <1>8, FourSteps DEF Done
<1>10. Done(ss) # StepIdx /\ ~Broken(ss) /\ ~Broken(tt)
  BY <1>3, <1>6, <1>8 DEF Done, Broken
<1>11. i = Revoke => Done(tt) = StepIdx
  BY <1>3, <1>6, <1>8, FourSteps DEF Done
<1> HIDE DEF ss, tt, i
<1>12. FitsSteps(pc'[j], mem'[j], tt, status'[r])
  BY <1>1, <1>2, <1>7, <1>9, <1>10, SMT
  DEF SameStatus, Fits, FitsSteps, WorkPcs, UndoPcs, CompensatePcs, StepPcs, ss
<1>13. FitsKeys(pc'[j], mem'[j], tt, newRef'[r], issued'[r], live'[r])
  <2>1. CASE i = Provision
    <3>1. mem[j].key \in live[r]
      BY <1>2, <2>1 DEF Fits, FitsKeys, i
    <3>2. mem[j].key = 1 /\ issued[r] = 1 /\ newRef'[r] = 1
      BY <1>2, <1>5, <3>1 DEF Fits, FitsKeys
    <3> QED
      BY <1>1, <1>2, <1>7, <1>8, <2>1, <3>1, <3>2, FourSteps, SMT
      DEF Fits, FitsKeys, KeylessPcs, RefPcs, CompensatePcs, StepPcs
  <2>2. CASE i # Provision
    <3>1. newRef'[r] = newRef[r] /\ tt[Provision] = ss[Provision]
      BY <1>2, <1>5, <1>8, <2>2, FourSteps DEF Fits, FitsKeys, i
    <3>2. ss[Provision] = "done"
      BY <1>3, <1>6, <2>2, FourSteps
    <3> QED
      BY <1>1, <1>2, <1>7, <3>1, <3>2, SMT
      DEF Fits, FitsKeys, KeylessPcs, RefPcs, CompensatePcs, StepPcs, ss
  <2> QED
    BY <2>1, <2>2
<1>14. FitsOld(pc'[j], mem'[j], tt, old'[r])
  BY <1>1, <1>2, <1>7, <1>8, <1>10, <1>11, FourSteps, SMT DEF SameOld, Fits, FitsOld, ss, i
<1> QED
  BY <1>1, <1>7, <1>12, <1>13, <1>14 DEF FitsAfter, Fits, tt

LEMMA PersistFailedFits ==
    ASSUME IInv, HandoverInv, NEW j \in Jobs, PersistFailed(j)
    PROVE  FitsAfter(j)
<1> DEFINE r == rid[j]
           i == mem[j].idx
           ss == step[r]
           tt == step'[r]
<1>1. /\ pc[j] = "failed" /\ pc'[j] = "rollback" /\ rid'[j] = r /\ mem'[j] = mem[j]
      /\ SameStatus(r) /\ SameOld(r) /\ SameKeys(r)
  BY Went DEF PersistFailed, SameStatus, SameOld, SameKeys, cloudVars
<1>2. /\ Fits(r, "failed", mem[j]) /\ mem[j] \in Memory /\ r \in Rotations
      /\ ss \in [StepIdx -> StepStatus]
  BY <1>1, InPlace, Literals DEF Holding
<1>3. i \in StepIdx
  BY <1>2 DEF Memory
<1>4. tt = [ss EXCEPT ![i] = "failed"]
  BY <1>2 DEF PersistFailed, IInv, TypeOK, DbOK
<1>5. mem[j].steps = ss /\ ss[i] = "pending" /\ \A k \in StepIdx : k < i => ss[k] = "done"
  BY <1>2 DEF Fits, FitsSteps, StepPcs
<1>6. tt[i] = "failed" /\ \A k \in StepIdx : k # i => tt[k] = ss[k]
  BY <1>2, <1>3, <1>4
<1>7. Done(tt) = Done(ss) /\ Done(ss) # StepIdx
  BY <1>3, <1>5, <1>6 DEF Done
<1> HIDE DEF ss, tt, i
<1>8. FitsSteps("rollback", mem[j], tt, status[r])
  BY <1>2, <1>3, <1>5, <1>6, <1>7, SMT
  DEF Fits, FitsSteps, WorkPcs, UndoPcs, CompensatePcs, StepPcs, ss
<1>9. FitsKeys("rollback", mem[j], tt, newRef[r], issued[r], live[r])
  BY <1>2, <1>3, <1>5, <1>6, FourSteps, SMT
  DEF Fits, FitsKeys, KeylessPcs, RefPcs, CompensatePcs, StepPcs, ss
<1>10. FitsOld("rollback", mem[j], tt, old[r])
  BY <1>2, <1>3, <1>5, <1>6, <1>7, FourSteps, SMT DEF Fits, FitsOld, ss, i
<1> QED
  BY <1>1, <1>8, <1>9, <1>10 DEF FitsAfter, Fits, SameStatus, SameOld, SameKeys, tt

LEMMA NoClashAtHome ==
    ASSUME IInv, OneActiveRotation, NEW r \in Rotations, NEW new, Clash(r, new)
    PROVE  status[r] \in Terminal \cup {"absent"}
BY DEF Clash, OneActiveRotation, Active

LEMMA RollingBackFits ==
    ASSUME IInv, OneActiveRotation, HandoverInv, NEW j \in Jobs, WriteRollingBack(j)
    PROVE  FitsAfter(j)
<1> DEFINE r == rid[j]
           todo == Done(mem[j].steps)
<1>1. pc[j] = "rollback" /\ SameSteps(r)
  BY DEF WriteRollingBack, SameSteps
<1>2. Holding(j)
  BY <1>1, Literals DEF Holding
<1>3. /\ Fits(r, "rollback", mem[j]) /\ mem[j] \in Memory /\ r \in Rotations
      /\ status[r] # "absent"
  BY <1>1, <1>2, InPlace
<1>4. /\ rid'[j] = r /\ SameKeys(r) /\ SameOld(r)
      /\ \/ SameStatus(r) /\ status[r] \in Terminal /\ pc'[j] = "release"
         \/ status'[r] = "rolling_back" /\ pc'[j] = IF todo = {} THEN "final" ELSE "undo"
  BY <1>2, <1>3, StatusSet, NoClashAtHome DEF WriteRollingBack
<1>5. mem'[j].todo = todo /\ mem'[j].ref = mem[j].ref
  BY DEF WriteRollingBack, IInv, TypeOK, Memory
<1>6. todo = Done(step[r])
  BY <1>3 DEF Fits, FitsSteps
<1> HIDE DEF todo
<1> QED
  BY <1>1, <1>3, <1>4, <1>5, <1>6, SMT
  DEF FitsAfter, SameStatus, SameSteps, SameKeys, SameOld, Fits, FitsSteps, FitsKeys,
      FitsOld, WorkPcs, UndoPcs, CompensatePcs, KeylessPcs, RefPcs, StepPcs

LEMMA FinalFits ==
    ASSUME IInv, HandoverInv, NEW j \in Jobs, WriteFinal(j)
    PROVE  FitsAfter(j)
<1> DEFINE r == rid[j]
<1>1. pc[j] = "final" /\ SameSteps(r) /\ mem'[j] = mem[j]
  BY DEF WriteFinal, SameSteps
<1>2. Holding(j)
  BY <1>1, Literals DEF Holding
<1>3. PICK new \in {"rollback_failed", "rolled_back"} : SetStatus(j, new, "release")
  BY DEF WriteFinal
<1>4. new \in Terminal /\ ~Clash(r, new) /\ new # "completed"
  BY DEF Clash, Terminal
<1>5. /\ rid'[j] = r /\ SameKeys(r) /\ SameOld(r) /\ pc'[j] = "release"
      /\ status'[r] = new
  BY <1>2, <1>3, <1>4, StatusSet
<1>6. Fits(r, "final", mem[j])
  BY <1>1, <1>2, InPlace
<1> QED
  BY <1>1, <1>4, <1>5, <1>6, SMT
  DEF FitsAfter, SameStatus, SameSteps, SameKeys, SameOld, Fits, FitsSteps, FitsKeys,
      FitsOld, WorkPcs, UndoPcs, CompensatePcs, KeylessPcs, RefPcs, StepPcs

LEMMA UndoFits ==
    ASSUME IInv, HandoverInv, NEW j \in Jobs, UndoCall(j)
    PROVE  FitsAfter(j)
<1> DEFINE r == rid[j]
           m == mem[j]
           undoesKey == IsLast(Provision, m.todo) /\ m.ref # 0
<1>1. /\ pc[j] = "undo" /\ SameStatus(r) /\ SameSteps(r) /\ rid'[j] = r /\ mem'[j] = m
      /\ SameOld(r) /\ newRef'[r] = newRef[r] /\ issued'[r] = issued[r]
  BY DEF UndoCall, DeleteNew, SameStatus, SameSteps, SameOld, dbVars, cloudVars
<1>2. Fits(r, "undo", m) /\ m \in Memory /\ r \in Rotations
  BY <1>1, InPlace, Literals DEF Holding
<1>3. m.todo = Done(step[r]) /\ m.ref = newRef[r] /\ m.todo \subseteq StepIdx
  BY <1>2 DEF Fits, FitsSteps, FitsKeys, CompensatePcs, RefPcs, Done
<1>4. IsLast(Provision, m.todo) <=> Done(step[r]) = {Provision}
  BY <1>3, FourSteps DEF IsLast
<1>5. \/ undoesKey /\ DeleteNew(r, m.ref) /\ Goto(j, "compensated")
      \/ ~undoesKey /\ UNCHANGED cloudVars /\ Goto(j, "compensated")
      \/ undoesKey /\ ~Deletes /\ UNCHANGED cloudVars /\ Goto(j, "uncompensated")
  BY DEF UndoCall, Deletes
<1>6. CASE undoesKey /\ DeleteNew(r, m.ref) /\ Goto(j, "compensated")
  <2>1. live'[r] = live[r] \ {newRef[r]} /\ pc'[j] = "compensated"
    BY <1>2, <1>3, <1>6, Went DEF DeleteNew, IInv, TypeOK, CloudOK
  <2>2. Done(step[r]) = {Provision}
    BY <1>4, <1>6
  <2> QED
    BY <1>1, <1>2, <2>1, <2>2, FourSteps, SMT
    DEF FitsAfter, SameStatus, SameSteps, SameOld, Fits, FitsSteps, FitsKeys, Done,
        FitsOld, WorkPcs, UndoPcs, CompensatePcs, KeylessPcs, RefPcs, StepPcs
<1>7. CASE ~undoesKey /\ UNCHANGED cloudVars /\ Goto(j, "compensated")
  <2>1. live'[r] = live[r] /\ pc'[j] = "compensated"
    BY <1>7, Went DEF cloudVars
  <2>2. Done(step[r]) = {Provision} => newRef[r] \notin live[r]
    BY <1>2, <1>3, <1>4, <1>7, SMT DEF Fits, FitsKeys
  <2> HIDE DEF undoesKey
  <2> QED
    BY <1>1, <1>2, <2>1, <2>2, SMT
    DEF FitsAfter, SameStatus, SameSteps, SameOld, Fits, FitsSteps, FitsKeys,
        FitsOld, WorkPcs, UndoPcs, CompensatePcs, KeylessPcs, RefPcs, StepPcs
<1>8. CASE undoesKey /\ ~Deletes /\ UNCHANGED cloudVars /\ Goto(j, "uncompensated")
  <2>1. live'[r] = live[r] /\ pc'[j] = "uncompensated" /\ ~Deletes
    BY <1>8, Went DEF cloudVars
  <2>2. Done(step[r]) = {Provision}
    BY <1>4, <1>8
  <2> HIDE DEF undoesKey
  <2>3. FitsSteps("uncompensated", m, step[r], status[r])
    BY <1>2, <2>2, SMT DEF Fits, FitsSteps, WorkPcs, UndoPcs, CompensatePcs, StepPcs
  <2>4. FitsKeys("uncompensated", m, step[r], newRef[r], issued[r], live[r])
    BY <1>2, <2>2, SMT DEF Fits, FitsKeys, KeylessPcs, RefPcs, CompensatePcs, StepPcs
  <2>5. FitsOld("uncompensated", m, step[r], old[r])
    BY <1>2, SMT DEF Fits, FitsOld
  <2> QED
    BY <1>1, <2>1, <2>3, <2>4, <2>5 DEF FitsAfter, Fits, SameStatus, SameSteps, SameOld
<1> QED
  BY <1>5, <1>6, <1>7, <1>8

LEMMA PersistUndoFits ==
    ASSUME IInv, HandoverInv, NEW j \in Jobs, PersistUndo(j)
    PROVE  FitsAfter(j)
<1> DEFINE r == rid[j]
           m == mem[j]
           ss == step[r]
           tt == step'[r]
           o == IF pc[j] = "compensated" THEN "compensated" ELSE "failed"
<1>1. /\ pc[j] \in {"compensated", "uncompensated"}
      /\ SameStatus(r) /\ SameKeys(r) /\ SameOld(r) /\ rid'[j] = r
  BY DEF PersistUndo, SameStatus, SameKeys, SameOld, cloudVars
<1>2. /\ Fits(r, pc[j], m) /\ m \in Memory /\ r \in Rotations
      /\ ss \in [StepIdx -> StepStatus]
  BY <1>1, InPlace, Literals DEF Holding
<1>3. m.todo = Done(ss)
  BY <1>1, <1>2 DEF Fits, FitsSteps, CompensatePcs
<1>4. PICK i \in StepIdx :
        /\ IsLast(i, m.todo)
        /\ step' = [step EXCEPT ![r][i] = o]
        /\ mem' = [mem EXCEPT ![j].todo = @ \ {i}, ![j].bad  = @ \/ pc[j] = "uncompensated"]
        /\ Goto(j, IF m.todo = {i} THEN "final" ELSE "undo")
  BY DEF PersistUndo
<1>5. tt = [ss EXCEPT ![i] = o]
  BY <1>2, <1>4 DEF IInv, TypeOK, DbOK
<1>6. tt[i] = o /\ \A k \in StepIdx : k # i => tt[k] = ss[k]
  BY <1>2, <1>5
<1>7. i \in Done(ss) /\ Done(tt) = Done(ss) \ {i}
  BY <1>3, <1>4, <1>6 DEF IsLast, Done
<1>8. mem'[j].todo = Done(tt)
  BY <1>3, <1>4, <1>7, TodoField DEF IInv, TypeOK
<1>9. mem'[j].ref = m.ref
  <2> DEFINE b == m.bad \/ pc[j] = "uncompensated"
  <2>1. mem' = [mem EXCEPT ![j].todo = @ \ {i}, ![j].bad = b]
    BY <1>4
  <2> HIDE DEF b
  <2> QED
    BY <2>1 DEF IInv, TypeOK, Memory
<1>10. pc'[j] = IF Done(tt) = {} THEN "final" ELSE "undo"
  BY <1>3, <1>4, <1>7, Went
<1>11. o = "failed" => i = Provision /\ ~Deletes /\ pc[j] = "uncompensated"
  BY <1>1, <1>2, <1>7 DEF Fits, FitsSteps
<1>12. o \in {"compensated", "failed"} /\ (o = "compensated" => pc[j] = "compensated")
  OBVIOUS
<1> HIDE DEF ss, tt, o, m
<1>13. FitsSteps(pc'[j], mem'[j], tt, status[r])
  BY <1>1, <1>2, <1>6, <1>7, <1>8, <1>10, <1>12, SMT
  DEF Fits, FitsSteps, WorkPcs, UndoPcs, CompensatePcs, StepPcs, Broken, Done, ss
<1>14. FitsKeys(pc'[j], mem'[j], tt, newRef[r], issued[r], live[r])
  <2>1. i = Provision => Done(ss) = {Provision}
    BY <1>3, <1>4, FourSteps DEF IsLast, Done
  <2>2. i # Provision => tt[Provision] = ss[Provision] /\ Done(ss) # {Provision}
    BY <1>6, <1>7, FourSteps
  <2> QED
    BY <1>1, <1>2, <1>6, <1>9, <1>10, <1>11, <1>12, <2>1, <2>2, SMT
    DEF Fits, FitsKeys, KeylessPcs, RefPcs, CompensatePcs, StepPcs, ss, m
<1>15. FitsOld(pc'[j], mem'[j], tt, old[r])
  <2>1. Broken(ss)
    BY <1>1, <1>2 DEF Fits, FitsSteps, CompensatePcs, Broken, ss
  <2>2. Done(ss) # StepIdx
    BY <2>1 DEF Broken, Done
  <2> QED
    BY <1>1, <1>2, <1>6, <1>10, <1>12, <2>2, FourSteps, SMT DEF Fits, FitsOld, ss
<1> QED
  BY <1>1, <1>10, <1>13, <1>14, <1>15 DEF FitsAfter, Fits, SameStatus, SameOld, SameKeys, tt

LEMMA AdvanceFits ==
    ASSUME IInv, OneActiveRotation, HandoverInv, NEW j \in Jobs, AdvanceRotation(j)
    PROVE  FitsAfter(j)
BY LoadFits, LoadStepsFits, GateFits, WorkWriteFits, StartFits, CreateFits, WriteFits,
   DisableFits, PersistDoneFits, PersistFailedFits, RollingBackFits, FinalFits, UndoFits,
   PersistUndoFits
DEF AdvanceRotation

\* It writes nothing of another rotation.
LEMMA AdvanceElsewhere ==
    ASSUME IInv, NEW j \in Jobs, AdvanceRotation(j), NEW r \in Rotations, r # rid[j]
    PROVE  SameRow(r)
<1> USE DEF SameRow, SameStatus, SameSteps, SameKeys, SameOld
<1>0. TypeOK /\ DbOK /\ CloudOK
  BY DEF IInv, TypeOK
<1>1. SameStatus(r)
  BY <1>0, StatusWrites DEF DbOK
<1>2. CASE UNCHANGED <<step, newRef, cloudVars>>
  BY <1>1, <1>2 DEF cloudVars
<1>3. CASE UNCHANGED <<newRef, cloudVars>> /\ (PersistFailed(j) \/ PersistUndo(j))
  BY <1>0, <1>1, <1>3 DEF PersistFailed, PersistUndo, cloudVars, DbOK
<1>4. CASE PersistDone(j)
  BY <1>0, <1>1, <1>4 DEF PersistDone, cloudVars, DbOK
<1>5. CASE /\ UNCHANGED dbVars
           /\ \/ CreateCall(j) \/ WriteCall(j) \/ DisableCall(j)
              \/ DeleteCall(j) \/ UndoCall(j)
  BY <1>0, <1>5
  DEF CreateCall, WriteCall, DisableCall, DeleteCall, UndoCall, CreateKey, WriteStore, DisableOld,
      DeleteOld, DeleteNew, cloudVars, dbVars, CloudOK
<1> QED
  BY <1>2, <1>3, <1>4, <1>5
  DEF AdvanceRotation, LoadRotation, LoadSteps, Gate, WriteExpired, WriteAwaiting, StartStep,
      SetStatus, CreateCall, WriteCall, VerifyCall, DisableCall, DeleteCall, UndoCall,
      WriteCompleted, PersistFailed, WriteRollingBack, PersistUndo, WriteFinal, dbVars, cloudVars

-------------------------------------------------------------------------------
(***************************************************************************)
(* The invariant.                                                          *)
(***************************************************************************)

\* No two jobs are inside for one rotation.
LEMMA AloneInside ==
    ASSUME IInv, NEW j \in Jobs, NEW k \in Jobs, NEW r, Inside(j, r), Inside(k, r)
    PROVE  j = k
BY DEF IInv, LockExclusion, Inside

LEMMA StaysFitting ==
    ASSUME NEW r \in Rotations, Fitting(r), SameRow(r),
           \A k \in Jobs : Inside(k, r)' <=> Inside(k, r),
           \A k \in Jobs : Inside(k, r) => pc'[k] = pc[k] /\ mem'[k] = mem[k]
    PROVE  Fitting(r)'
BY DEF Fitting, Fits, SameRow, SameStatus, SameSteps, SameKeys, SameOld

LEMMA AdvanceFitting ==
    ASSUME IInv, OneActiveRotation, HandoverInv, NEW j \in Jobs, AdvanceRotation(j),
           NEW r \in Rotations
    PROVE  Fitting(r)'
<1>1. /\ Holding(j) /\ Holding(j)' /\ UNCHANGED rid
      /\ \A k \in Jobs \ {j} : pc'[k] = pc[k] /\ mem'[k] = mem[k]
  <2>1. TypeOK /\ JobsOK
    BY DEF IInv, TypeOK
  <2> QED
    BY <2>1, AdvanceStays DEF Goto, Holding, JobsOK
<1>2. \A k \in Jobs, q \in Rotations : Inside(k, q)' <=> Inside(k, q)
  BY <1>1 DEF Inside, Holding
<1>3. CASE r = rid[j]
  <2>1. Inside(j, r)
    BY <1>1, <1>3 DEF Inside
  <2>2. \A k \in Jobs : Inside(k, r)' => k = j
    BY <1>2, <2>1, AloneInside
  <2>3. Fits(r, pc[j], mem[j])'
    BY <1>1, <1>3, AdvanceFits DEF FitsAfter
  <2> QED
    BY <1>2, <2>1, <2>2, <2>3 DEF Fitting
<1>4. CASE r # rid[j]
  <2>1. SameRow(r)
    BY <1>4, AdvanceElsewhere
  <2>2. \A k \in Jobs : Inside(k, r) => k # j
    BY <1>4 DEF Inside
  <2> QED
    BY <1>1, <1>2, <2>1, <2>2, StaysFitting DEF HandoverInv
<1> QED
  BY <1>3, <1>4

LEMMA StartFitting ==
    ASSUME IInv, HandoverInv, NEW j \in Jobs, StartJob(j), NEW r \in Rotations
    PROVE  Fitting(r)'
<1>0. TypeOK /\ JobsOK /\ ~Holding(j) /\ mem' = mem /\ SameRow(r) /\ Fitting(r)
  BY Literals DEF StartJob, Holding, IInv, TypeOK, HandoverInv, SameRow, SameStatus, SameSteps,
                  SameKeys, SameOld, dbVars, cloudVars
<1>1. CASE Leave(j)
  <2>1. ~Holding(j)' /\ \A k \in Jobs \ {j} : pc'[k] = pc[k] /\ rid'[k] = rid[k]
    BY <1>0, <1>1, Literals DEF Leave, Goto, Holding, JobsOK
  <2> QED
    BY <1>0, <2>1, StaysFitting DEF Inside, Holding
<1>2. CASE lock[SecretOf[rid[j]]] = None /\ Goto(j, "load") /\ UNCHANGED rid
  <2>1. pc'[j] = "load" /\ \A k \in Jobs \ {j} : pc'[k] = pc[k] /\ rid'[k] = rid[k]
    BY <1>0, <1>2 DEF Goto, JobsOK
  <2>2. CASE r # rid[j]
    BY <1>0, <1>2, <2>1, <2>2, StaysFitting DEF Inside, Holding
  <2>3. CASE r = rid[j]
    <3>1. \A k \in Jobs : ~Inside(k, r)
      BY <1>2, <2>3, RotationAssumption DEF IInv, LockExclusion, Inside
    <3>2. Fits(r, "free", NoMemory) /\ mem[j] = NoMemory
      BY <1>0, <3>1 DEF Fitting, HandoverInv
    <3>3. Fits(r, "load", NoMemory)
      BY <3>2, IdleSteps, IdleKeys, IdleOld DEF Fits, Idle, NoMemory
    <3>4. Fits(r, pc[j], mem[j])'
      BY <1>0, <2>1, <3>2, <3>3 DEF Fits, SameRow, SameStatus, SameSteps, SameKeys, SameOld
    <3>5. \A k \in Jobs \ {j} : ~Inside(k, r)'
      BY <2>1, <3>1 DEF Inside, Holding
    <3>6. Inside(j, r)'
      BY <1>2, <2>1, <2>3, Literals DEF Inside, Holding
    <3> QED
      BY <3>4, <3>5, <3>6 DEF Fitting
  <2> QED
    BY <2>2, <2>3
<1> QED
  BY <1>1, <1>2 DEF StartJob

LEMMA ReleaseFitting ==
    ASSUME IInv, HandoverInv, NEW j \in Jobs, Release(j), NEW r \in Rotations
    PROVE  Fitting(r)'
<1>0. TypeOK /\ JobsOK /\ SameRow(r) /\ Fitting(r)
  BY DEF Release, IInv, TypeOK, HandoverInv, SameRow, SameStatus, SameSteps, SameKeys, SameOld,
         dbVars, cloudVars
<1>1. /\ pc[j] \in {"release", "continue"} /\ ~Holding(j)'
      /\ \A k \in Jobs \ {j} : pc'[k] = pc[k] /\ rid'[k] = rid[k] /\ mem'[k] = mem[k]
  BY <1>0, Literals DEF Release, Leave, Goto, Holding, TypeOK, JobsOK
<1>2. CASE Inside(j, r)
  <2>1. Fits(r, pc[j], mem[j])
    BY <1>0, <1>2 DEF Fitting
  <2>2. Fits(r, "free", NoMemory)
    BY <1>1, <2>1, IdleSteps, IdleKeys, IdleOld DEF Fits, Idle
  <2>3. \A k \in Jobs : ~Inside(k, r)'
    BY <1>1, <1>2, AloneInside DEF Inside, Holding
  <2> QED
    BY <1>0, <2>2, <2>3 DEF Fitting, Fits, SameRow, SameStatus, SameSteps, SameKeys, SameOld
<1>3. CASE ~Inside(j, r)
  BY <1>0, <1>1, <1>3, StaysFitting DEF Inside, Holding
<1> QED
  BY <1>2, <1>3

\* The two handlers that write a status.
LEMMA ApiFitting ==
    ASSUME IInv, HandoverInv, NEW q \in Rotations, TriggerRotation(q) \/ RejectWrite(q),
           NEW r \in Rotations
    PROVE  Fitting(r)'
<1>0. TypeOK /\ DbOK /\ Fitting(r) /\ UNCHANGED <<pc, rid, mem>>
  BY DEF IInv, TypeOK, HandoverInv, TriggerRotation, RejectWrite, workerVars
<1>1. SameSteps(r) /\ SameKeys(r) /\ SameOld(r)
  <2>1. CASE RejectWrite(q)
    BY <2>1 DEF RejectWrite, SameSteps, SameKeys, SameOld, cloudVars
  <2>2. CASE TriggerRotation(q)
    <3>1. SameKeys(r) /\ SameOld(r)
      BY <2>2 DEF TriggerRotation, SameKeys, SameOld, cloudVars
    <3>2. \A i \in StepIdx : step[q][i] = "pending"
      BY <2>2 DEF TriggerRotation, IInv, AbsentInv, Pending
    <3>3. step[q] = [i \in StepIdx |-> "pending"]
      BY <1>0, <3>2 DEF DbOK
    <3> QED
      BY <1>0, <2>2, <3>1, <3>3 DEF TriggerRotation, SameSteps, DbOK
  <2> QED
    BY <2>1, <2>2
<1>2. CASE r # q
  <2>1. SameRow(r)
    BY <1>0, <1>1, <1>2 DEF TriggerRotation, RejectWrite, SameRow, SameStatus, DbOK
  <2> QED
    BY <1>0, <2>1, StaysFitting DEF Inside, Holding
<1>3. CASE r = q /\ RejectWrite(q)
  <2>1. status'[r] = "rejected"
    BY <1>0, <1>3 DEF RejectWrite, DbOK
  <2>2. ASSUME NEW p, NEW m, Fits(r, p, m)
        PROVE  FitsSteps(p, m, step[r], "rejected")
    BY <2>2 DEF Fits, FitsSteps, Terminal
  <2>3. ASSUME NEW p, NEW m, Fits(r, p, m)
        PROVE  Fits(r, p, m)'
    BY <1>1, <2>1, <2>2, <2>3 DEF Fits, SameSteps, SameKeys, SameOld
  <2> QED
    BY <1>0, <2>3 DEF Fitting, Inside, Holding
<1>4. CASE r = q /\ TriggerRotation(q)
  <2>1. status'[r] = "pending_approval"
    BY <1>0, <1>4 DEF TriggerRotation, DbOK
  <2>2. ~Broken(step[r]) /\ \A j \in Jobs : ~Inside(j, r)
    BY <1>4 DEF TriggerRotation, IInv, AbsentInv, Pending, Broken, Inside
  <2>3. FitsSteps("free", NoMemory, step[r], "pending_approval")
    BY <1>0, <2>2 DEF Fitting, Fits, FitsSteps, WorkPcs, UndoPcs, CompensatePcs, StepPcs
  <2> QED
    BY <1>0, <1>1, <2>1, <2>2, <2>3
    DEF Fitting, Fits, SameSteps, SameKeys, SameOld, Inside, Holding
<1> QED
  BY <1>2, <1>3, <1>4

\* A job that is not in the lock remembers nothing.
LEMMA NothingKept ==
    ASSUME IInv, HandoverInv, [Next]_vars, Uninterrupted
    PROVE  /\ faults' = 0 /\ threads' = {}
           /\ \A k \in Jobs : ~Holding(k)' => mem'[k] = NoMemory
<1>0. TypeOK /\ JobsOK /\ faults = 0 /\ threads = {} /\ MaxFaults = 0
      /\ \A k \in Jobs : ~Holding(k) => mem[k] = NoMemory
  BY DEF IInv, TypeOK, HandoverInv, Uninterrupted
<1>1. ASSUME NEW j \in Jobs, AdvanceRotation(j), NEW k \in Jobs, ~Holding(k)'
      PROVE  mem'[k] = NoMemory
  BY <1>0, <1>1, AdvanceStays DEF Holding, Goto, JobsOK
<1>2. ASSUME NEW j \in Jobs, Release(j), NEW k \in Jobs, ~Holding(k)'
      PROVE  mem'[k] = NoMemory
  BY <1>0, <1>2, Literals DEF Release, Leave, Holding, Goto, TypeOK, JobsOK
<1>3. ASSUME NEW j \in Jobs, StartJob(j) \/ Continue(j) \/ Redeliver(j),
             NEW k \in Jobs, ~Holding(k)'
      PROVE  mem'[k] = NoMemory
  BY <1>0, <1>3, Literals DEF StartJob, Continue, Redeliver, RunAgain, Leave, Holding, Goto, JobsOK
<1>4. ASSUME NEW r \in Rotations, EnqueueFor(r), UNCHANGED mem, NEW k \in Jobs, ~Holding(k)'
      PROVE  mem'[k] = NoMemory
  BY <1>0, <1>4, Literals DEF EnqueueFor, Holding, JobsOK
<1>5. ASSUME UNCHANGED <<pc, mem>>, NEW k \in Jobs, ~Holding(k)'
      PROVE  mem'[k] = NoMemory
  BY <1>0, <1>5 DEF Holding
<1>6. \A j \in Jobs : ~Crash(j) /\ ~Interrupt(j)
  BY <1>0 DEF Crash, Interrupt, Fault
<1>7. UNCHANGED <<faults, threads>>
  BY <1>0, <1>6, AdvanceStays
  DEF Next, vars, workerVars, JobStep, TriggerRotation, ApproveRotation, RejectCheck, RejectWrite,
      ConfirmCheck, ConfirmWrite, PlanExpires, StartJob, Redeliver, LockExpires, Release, Continue
<1>8. \A k \in Jobs : ~Holding(k)' => mem'[k] = NoMemory
  BY <1>0, <1>1, <1>2, <1>3, <1>4, <1>5, <1>6
  DEF Next, vars, workerVars, JobStep, TriggerRotation, ApproveRotation, RejectCheck, RejectWrite,
      ConfirmCheck, ConfirmWrite, PlanExpires, LockExpires
<1> QED
  BY <1>0, <1>7, <1>8

LEMMA HandoverStep ==
    ASSUME IInv, OneActiveRotation, HandoverInv, [Next]_vars, Uninterrupted
    PROVE  HandoverInv'
<1>0. TypeOK /\ JobsOK /\ threads = {} /\ faults = 0 /\ MaxFaults = 0
  BY DEF IInv, TypeOK, HandoverInv, Uninterrupted
<1> SUFFICES ASSUME NEW r \in Rotations
             PROVE  Fitting(r)'
  BY NothingKept DEF HandoverInv
<1>1. Fitting(r)
  BY DEF HandoverInv
<1>2. ASSUME NEW q \in Rotations, EnqueueFor(q), UNCHANGED mem, SameRow(r)
      PROVE  Fitting(r)'
  BY <1>0, <1>1, <1>2, StaysFitting, Literals DEF EnqueueFor, Inside, Holding, JobsOK
<1>3. ASSUME NEW j \in Jobs, Continue(j) \/ Redeliver(j)
      PROVE  Fitting(r)'
  <2>1. SameRow(r) /\ UNCHANGED mem
    BY <1>3
    DEF Continue, Redeliver, SameRow, SameStatus, SameSteps, SameKeys, SameOld, dbVars, cloudVars
  <2> QED
    BY <1>0, <1>1, <1>3, <2>1, StaysFitting, Literals
    DEF Continue, Redeliver, RunAgain, Leave, Goto, Inside, Holding, JobsOK
<1>4. CASE UNCHANGED <<pc, rid, mem>> /\ SameRow(r)
  BY <1>1, <1>4, StaysFitting DEF Inside, Holding
<1>5. ASSUME NEW q \in Rotations, ApproveRotation(q) \/ \E i \in StepIdx : ConfirmWrite(q, i)
      PROVE  Fitting(r)'
  <2>1. EnqueueFor(q) /\ UNCHANGED mem /\ SameRow(r)
    BY <1>5 DEF ApproveRotation, ConfirmWrite, SameRow, SameStatus, SameSteps, SameKeys, SameOld,
                dbVars, cloudVars
  <2> QED
    BY <1>2, <2>1
<1>6. ASSUME \/ \E q \in Rotations : \/ RejectCheck(q) \/ PlanExpires(q)
                                      \/ \E i \in StepIdx : ConfirmCheck(q, i)
             \/ \E s \in Secrets : LockExpires(s)
             \/ UNCHANGED vars
      PROVE  Fitting(r)'
  <2>1. UNCHANGED <<pc, rid, mem>> /\ SameRow(r)
    BY <1>6 DEF RejectCheck, PlanExpires, ConfirmCheck, LockExpires, vars, workerVars, SameRow,
                SameStatus, SameSteps, SameKeys, SameOld, dbVars, cloudVars
  <2> QED
    BY <1>4, <2>1
<1>7. \A j \in Jobs : ~Crash(j) /\ ~Interrupt(j)
  BY <1>0 DEF Crash, Interrupt, Fault
<1> QED
  BY <1>0, <1>3, <1>5, <1>6, <1>7, ApiFitting, AdvanceFitting, StartFitting, ReleaseFitting
  DEF Next, JobStep

\* The invariant from which the theorems below follow: as long as no job is killed
\* or cancelled, what a job inside the lock knows of its rotation's steps, of the
\* recorded key and of the provider's keys is true, and what a finished job leaves
\* is what the next one relies on.
THEOREM HandoverInvariant ==
    ASSUME Uninterrupted
    PROVE  Spec => [](IInv /\ OneActiveRotation /\ HandoverInv)
<1>1. Init => HandoverInv
  <2> SUFFICES ASSUME Init
               PROVE  HandoverInv
    OBVIOUS
  <2>1. \A j \in Jobs : ~Holding(j) /\ mem[j] = NoMemory
    BY Literals DEF Init, Holding
  <2>2. ASSUME NEW r \in Rotations
        PROVE  Fits(r, "free", NoMemory)
    <3>1. /\ step[r] = [i \in StepIdx |-> "pending"] /\ status[r] = "absent"
          /\ newRef[r] = 0 /\ issued[r] = 0 /\ live[r] = {} /\ old[r] = "active"
      BY <2>2 DEF Init
    <3>2. ~Broken(step[r]) /\ step[r][Provision] = "pending" /\ step[r][Revoke] = "pending"
      BY <3>1, FourSteps DEF Broken
    <3> QED
      BY <3>1, <3>2 DEF Fits, FitsSteps, FitsKeys, FitsOld, WorkPcs, UndoPcs, CompensatePcs,
                        KeylessPcs, RefPcs, StepPcs
  <2> QED
    BY <2>1, <2>2 DEF Init, HandoverInv, Fitting, Inside
<1>2. IInv /\ OneActiveRotation /\ HandoverInv /\ [Next]_vars => HandoverInv'
  BY HandoverStep
<1> QED
  BY <1>1, <1>2, Inductive, OneActive, PTL DEF Spec

\* What fits the row of r at this instant.
LEMMA FitsSomeone ==
    ASSUME HandoverInv, NEW r \in Rotations
    PROVE  \E p, m : /\ Fits(r, p, m)
                     /\ p = "free" \/ \E j \in Jobs : Inside(j, r) /\ p = pc[j] /\ m = mem[j]
BY DEF HandoverInv, Fitting

LEMMA RowFits ==
    ASSUME IInv, HandoverInv, NEW r \in Rotations
    PROVE  /\ issued[r] <= 1
           /\ status[r] = "completed" =>
                 Done(step[r]) = StepIdx /\ old[r] = "deleted" /\ newRef[r] \in live[r]
           /\ Deletes /\ status[r] = "rolled_back" =>
                 old[r] = "active" /\ newRef[r] \notin live[r] /\ Done(step[r]) = {}
           /\ Deletes /\ old[r] # "active" => newRef[r] \in live[r]
<1>1. PICK p, m : Fits(r, p, m)
  BY FitsSomeone
<1>2. step[r] \in [StepIdx -> StepStatus]
  BY DEF IInv, TypeOK, DbOK
<1>3. issued[r] <= 1
  BY <1>1 DEF Fits, FitsKeys
<1>4. Done(step[r]) = StepIdx => old[r] = "deleted" /\ newRef[r] \in live[r]
  <2>1. Done(step[r]) = StepIdx =>
           /\ step[r][Provision] = "done" /\ step[r][Revoke] = "done"
           /\ Done(step[r]) # {Provision}
    BY FourSteps DEF Done
  <2> QED
    BY <1>1, <2>1 DEF Fits, FitsKeys, FitsOld
<1>5. ASSUME Deletes, status[r] = "rolled_back"
      PROVE  old[r] = "active" /\ newRef[r] \notin live[r] /\ Done(step[r]) = {}
  <2>1. Done(step[r]) = {} /\ p \notin StepPcs
    BY <1>1, <1>5 DEF Fits, FitsSteps, WorkPcs
  <2>2. old[r] = "active"
    BY <1>1, <1>5, <2>1, FourSteps DEF Fits, FitsOld, StepPcs
  <2>3. step[r][Provision] \in {"pending", "failed", "compensated"}
    BY <1>2, <2>1, FourSteps DEF Done, StepStatus
  <2>4. newRef[r] \notin live[r]
    BY <1>1, <1>5, <2>3 DEF Fits, FitsKeys
  <2> QED
    BY <2>1, <2>2, <2>4
<1>6. ASSUME Deletes, old[r] # "active"
      PROVE  newRef[r] \in live[r]
  <2>1. Done(step[r]) = StepIdx \/ (p \in {"delete", "done"} /\ m.idx = Revoke)
    BY <1>1, <1>6 DEF Fits, FitsOld
  <2>2. CASE p \in {"delete", "done"} /\ m.idx = Revoke
    <3>1. step[r][Provision] = "done"
      BY <1>1, <2>2, FourSteps DEF Fits, FitsSteps, StepPcs
    <3> QED
      BY <1>1, <2>2, <3>1 DEF Fits, FitsKeys
  <2> QED
    BY <1>4, <2>1, <2>2
<1>7. status[r] = "completed" => Done(step[r]) = StepIdx
  BY <1>1 DEF Fits, FitsSteps
<1> QED
  BY <1>3, <1>4, <1>5, <1>6, <1>7

-------------------------------------------------------------------------------
(***************************************************************************)
(* The theorems.                                                           *)
(***************************************************************************)

\* Duplicate approvals, confirmations and jobs, and calls that raise, never make
\* provision create a second key: only a killed or cancelled job can.
THEOREM OneKey ==
    ASSUME Uninterrupted
    PROVE  Spec => []ProvisionOnce
<1>1. IInv /\ HandoverInv => ProvisionOnce
  BY RowFits DEF ProvisionOnce
<1> QED
  BY <1>1, HandoverInvariant, PTL

\* A rotation shown as completed has run every step and exchanged the keys, even
\* when the provider refuses to delete some.
THEOREM CompletedMeansDone ==
    ASSUME Uninterrupted
    PROVE  Spec => []CompletedIsComplete
<1>1. IInv /\ HandoverInv => CompletedIsComplete
  BY RowFits DEF CompletedIsComplete
<1> QED
  BY <1>1, HandoverInvariant, PTL

\* No consumer is locked out, whichever of the other calls fail.
THEOREM NeverLockedOut ==
    ASSUME Uninterrupted, Deletes
    PROVE  Spec => []NoLockout
<1>1. IInv /\ HandoverInv => NoLockout
  BY RowFits DEF NoLockout
<1> QED
  BY <1>1, HandoverInvariant, PTL

\* A rolled back rotation has left nothing but the old credential.
THEOREM RolledBackMeansClean ==
    ASSUME Uninterrupted, Deletes
    PROVE  Spec => []RolledBackIsClean
<1>1. IInv /\ HandoverInv => RolledBackIsClean
  BY RowFits DEF RolledBackIsClean
<1> QED
  BY <1>1, HandoverInvariant, PTL

-------------------------------------------------------------------------------
(***************************************************************************)
(* The refinement: every step of Rotation is one of Handover, or none.     *)
(***************************************************************************)

\* The credentials of r, for its consumers, are as they were.
SameFor(r) == ValidFor(r)' = ValidFor(r) /\ SettledFor(r)' = SettledFor(r)

LEMMA Unsettled ==
    ASSUME NEW r
    PROVE  /\ old[r] = "active" /\ newRef[r] \in live[r] =>
                 ValidFor(r) = {"old", "new"} /\ ~SettledFor(r)
           /\ old[r] = "active" /\ newRef[r] \notin live[r] /\ newRef[r] = 0 =>
                 ValidFor(r) = {"old"} /\ ~SettledFor(r)
BY DEF ValidFor, SettledFor

LEMMA NobodyElse ==
    ASSUME IInv, NEW j \in Jobs, AdvanceRotation(j)
    PROVE  \A r \in Rotations \ {rid[j]} : SameFor(r)
BY AdvanceElsewhere DEF SameRow, SameKeys, SameOld, SameFor, ValidFor, SettledFor

\* A step that changes the credentials of r alone, as Handover does.
LEMMA OneMoves ==
    ASSUME NEW r \in Rotations, \A q \in Rotations \ {r} : SameFor(q),
           \/ /\ ValidFor(r) = {"old"} /\ ~SettledFor(r)
              /\ ValidFor(r)' = {"old", "new"} /\ ~SettledFor(r)'
           \/ /\ ValidFor(r) = {"old", "new"}
              /\ ValidFor(r)' \in {{"new"}, {"old"}} /\ SettledFor(r)'
    PROVE  Promise!Next
<1> DEFINE valid == [q \in Rotations |-> ValidFor(q)]
           settled == [q \in Rotations |-> SettledFor(q)]
<1>1. valid' = [valid EXCEPT ![r] = ValidFor(r)'] /\ valid[r] = ValidFor(r)
  BY DEF SameFor
<1>2. settled' = [settled EXCEPT ![r] = SettledFor(r)'] /\ settled[r] = SettledFor(r)
  BY DEF SameFor
<1>3. CASE /\ ValidFor(r) = {"old"} /\ ~SettledFor(r)
           /\ ValidFor(r)' = {"old", "new"} /\ ~SettledFor(r)'
  <2>1. settled' = settled
    BY <1>3 DEF SameFor, SettledFor
  <2>2. Promise!Offer(r)
    BY <1>1, <1>2, <1>3, <2>1 DEF Promise!Offer
  <2> QED
    BY <2>2 DEF Promise!Next
<1>4. CASE ValidFor(r) = {"old", "new"} /\ ValidFor(r)' = {"new"} /\ SettledFor(r)'
  <2>1. SettledFor(r)' = TRUE
    BY <1>4 DEF SettledFor
  <2>2. Promise!Retire(r)
    BY <1>1, <1>2, <1>4, <2>1 DEF Promise!Retire
  <2> QED
    BY <2>2 DEF Promise!Next
<1>5. CASE ValidFor(r) = {"old", "new"} /\ ValidFor(r)' = {"old"} /\ SettledFor(r)'
  <2>1. SettledFor(r)' = TRUE
    BY <1>5 DEF SettledFor
  <2>2. Promise!Withdraw(r)
    BY <1>1, <1>2, <1>5, <2>1 DEF Promise!Withdraw
  <2> QED
    BY <2>2 DEF Promise!Next
<1> QED
  BY <1>3, <1>4, <1>5

Stutters == \A r \in Rotations : SameFor(r)

LEMMA CreateHandsOver ==
    ASSUME IInv, HandoverInv, NEW j \in Jobs, CreateCall(j)
    PROVE  Stutters
<1>0. PICK r \in Rotations : r = rid[j]
  BY InPlace, Literals DEF Holding, CreateCall
<1>1. /\ pc[j] = "create" /\ newRef' = newRef /\ old' = old
      /\ CreateKey(r) \/ live' = live
  BY <1>0 DEF CreateCall, CreateKey, dbVars, cloudVars
<1>2. r \in Rotations /\ Fits(r, "create", mem[j]) /\ issued[r] \in Nat
  BY <1>0, <1>1, InPlace, Literals DEF Holding
<1>3. newRef[r] = 0 /\ 0 \notin live[r] /\ issued[r] = 0
  BY <1>2 DEF Fits, FitsSteps, FitsKeys, StepPcs
<1>4. newRef[r] \notin live'[r]
  BY <1>1, <1>2, <1>3 DEF CreateKey, IInv, TypeOK, CloudOK
<1>5. SameFor(r)
  BY <1>1, <1>3, <1>4 DEF SameFor, ValidFor, SettledFor
<1> QED
  BY <1>0, <1>5, NobodyElse DEF Stutters, AdvanceRotation

LEMMA PersistHandsOver ==
    ASSUME IInv, HandoverInv, Deletes, NEW j \in Jobs, PersistDone(j)
    PROVE  Promise!Next \/ Stutters
<1> DEFINE i == mem[j].idx
<1>0. PICK r \in Rotations : r = rid[j]
  BY InPlace, Literals DEF Holding, PersistDone
<1>1. pc[j] = "done" /\ live' = live /\ old' = old
  BY DEF PersistDone, cloudVars
<1>2. /\ r \in Rotations /\ Fits(r, "done", mem[j]) /\ newRef[r] \in Nat
      /\ step[r] \in [StepIdx -> StepStatus] /\ mem[j] \in Memory
  BY <1>0, <1>1, InPlace, Literals DEF Holding
<1>3. newRef'[r] = IF mem[j].key # 0 THEN mem[j].key ELSE newRef[r]
  BY <1>0, <1>2 DEF PersistDone, IInv, TypeOK, DbOK
<1>4. CASE i = Provision
  <2>1. step[r][Provision] = "pending" /\ i # Revoke
    BY <1>2, <1>4, FourSteps DEF Fits, FitsSteps, StepPcs
  <2>2. old[r] = "active"
    BY <1>2, <2>1, FourSteps DEF Fits, FitsOld, Done
  <2>3. /\ newRef[r] = 0 /\ newRef[r] \notin live[r]
        /\ mem[j].key \in live[r] /\ mem[j].key # 0
    BY <1>2, <1>4, <2>1 DEF Fits, FitsKeys
  <2>4. old'[r] = "active" /\ newRef'[r] \in live'[r]
    BY <1>1, <1>3, <2>2, <2>3
  <2>5. ValidFor(r) = {"old"} /\ ~SettledFor(r)
    BY <2>2, <2>3, Unsettled
  <2>6. ValidFor(r)' = {"old", "new"} /\ ~SettledFor(r)'
    BY <2>4 DEF ValidFor, SettledFor
  <2> QED
    BY <1>0, <1>2, <2>5, <2>6, NobodyElse, OneMoves DEF AdvanceRotation
<1>5. CASE i # Provision
  <2>1. newRef'[r] = newRef[r]
    BY <1>2, <1>3, <1>5 DEF Fits, FitsKeys
  <2>2. SameFor(r)
    BY <1>1, <2>1 DEF SameFor, ValidFor, SettledFor
  <2> QED
    BY <1>0, <2>2, NobodyElse DEF Stutters, AdvanceRotation
<1> QED
  BY <1>4, <1>5

LEMMA RevokeHandsOver ==
    ASSUME IInv, HandoverInv, NEW j \in Jobs, DisableCall(j) \/ DeleteCall(j)
    PROVE  Promise!Next \/ Stutters
<1>0. PICK r \in Rotations : r = rid[j]
  BY InPlace, Literals DEF Holding, DisableCall, DeleteCall
<1>1. /\ pc[j] \in {"disable", "delete"} /\ live' = live /\ newRef' = newRef
      /\ DisableOld(r) \/ DeleteOld(r) \/ old' = old
  BY <1>0 DEF DisableCall, DeleteCall, DisableOld, DeleteOld, dbVars, cloudVars
<1>2. /\ r \in Rotations /\ Fits(r, pc[j], mem[j])
      /\ step[r] \in [StepIdx -> StepStatus] /\ mem[j] \in Memory
  BY <1>0, <1>1, InPlace, Literals DEF Holding
<1>3. step[r][Provision] = "done"
  BY <1>1, <1>2, FourSteps DEF Fits, FitsSteps, FitsOld, StepPcs
<1>4. newRef[r] \in live[r]
  BY <1>1, <1>2, <1>3 DEF Fits, FitsKeys
<1>5. CASE old[r] = "active" /\ (DisableOld(r) \/ DeleteOld(r))
  <2>1. old'[r] # "active"
    BY <1>2, <1>5 DEF DisableOld, DeleteOld, IInv, TypeOK, CloudOK
  <2>2. ValidFor(r) = {"old", "new"}
    BY <1>4, <1>5, Unsettled
  <2>3. ValidFor(r)' = {"new"} /\ SettledFor(r)'
    BY <1>1, <1>4, <2>1 DEF ValidFor, SettledFor
  <2> QED
    BY <1>0, <1>2, <2>2, <2>3, NobodyElse, OneMoves DEF AdvanceRotation
<1>6. CASE old[r] # "active" \/ old' = old
  <2>1. old'[r] = "active" <=> old[r] = "active"
    BY <1>1, <1>2, <1>6 DEF DisableOld, DeleteOld, IInv, TypeOK, CloudOK
  <2>2. SameFor(r)
    BY <1>1, <2>1 DEF SameFor, ValidFor, SettledFor
  <2> QED
    BY <1>0, <2>2, NobodyElse DEF Stutters, AdvanceRotation
<1> QED
  BY <1>1, <1>5, <1>6

LEMMA UndoHandsOver ==
    ASSUME IInv, HandoverInv, Deletes, NEW j \in Jobs, UndoCall(j)
    PROVE  Promise!Next \/ Stutters
<1> DEFINE ref == mem[j].ref
<1>0. PICK r \in Rotations : r = rid[j]
  BY InPlace, Literals DEF Holding, UndoCall
<1>1. /\ pc[j] = "undo" /\ newRef' = newRef /\ old' = old
      /\ \/ live' = live
         \/ IsLast(Provision, mem[j].todo) /\ ref # 0 /\ DeleteNew(r, ref)
  BY <1>0 DEF UndoCall, DeleteNew, dbVars, cloudVars
<1>2. r \in Rotations /\ Fits(r, "undo", mem[j]) /\ mem[j] \in Memory
  BY <1>0, <1>1, InPlace, Literals DEF Holding
<1>3. CASE live' = live
  BY <1>1, <1>3 DEF Stutters, SameFor, ValidFor, SettledFor
<1>4. CASE IsLast(Provision, mem[j].todo) /\ ref # 0 /\ DeleteNew(r, ref)
  <2>1. Provision \in Done(step[r]) /\ Revoke \notin Done(step[r])
    BY <1>2, <1>4, FourSteps DEF Fits, FitsSteps, CompensatePcs, IsLast, Memory
  <2>2. old[r] = "active"
    BY <1>2, <2>1, FourSteps DEF Fits, FitsOld
  <2>3. newRef[r] = ref /\ newRef[r] \in live[r]
    BY <1>2, <2>1 DEF Fits, FitsKeys, RefPcs, CompensatePcs, Done
  <2>4. live'[r] = live[r] \ {ref}
    BY <1>2, <1>4 DEF DeleteNew, IInv, TypeOK, CloudOK
  <2>5. ValidFor(r) = {"old", "new"}
    BY <2>2, <2>3, Unsettled
  <2>6. ValidFor(r)' = {"old"} /\ SettledFor(r)'
    BY <1>1, <1>4, <2>2, <2>3, <2>4 DEF ValidFor, SettledFor
  <2> QED
    BY <1>0, <1>2, <2>5, <2>6, NobodyElse, OneMoves DEF AdvanceRotation
<1> QED
  BY <1>1, <1>3, <1>4

LEMMA StepHandsOver ==
    ASSUME IInv, HandoverInv, Uninterrupted, Deletes, [Next]_vars
    PROVE  Promise!Next \/ Stutters
<1>1. CASE UNCHANGED <<newRef, old, live>>
  BY <1>1 DEF Stutters, SameFor, ValidFor, SettledFor
<1>2. ASSUME NEW j \in Jobs, AdvanceRotation(j)
      PROVE  UNCHANGED <<newRef, old, live>> \/ Promise!Next \/ Stutters
  BY <1>2, CreateHandsOver, PersistHandsOver, RevokeHandsOver, UndoHandsOver
  DEF AdvanceRotation, LoadRotation, LoadSteps, Gate, WriteExpired, WriteAwaiting, StartStep,
      SetStatus, WriteCall, WriteStore, VerifyCall, WriteCompleted, PersistFailed,
      WriteRollingBack, PersistUndo, WriteFinal, dbVars, cloudVars
<1>3. threads = {} /\ \A j \in Jobs : ~Crash(j) /\ ~Interrupt(j)
  BY DEF HandoverInv, Uninterrupted, Crash, Interrupt, Fault
<1> QED
  BY <1>1, <1>2, <1>3
  DEF Next, vars, dbVars, cloudVars, JobStep, TriggerRotation, ApproveRotation, RejectCheck,
      RejectWrite, ConfirmCheck, ConfirmWrite, PlanExpires, StartJob, Redeliver, LockExpires,
      Release, Continue

\* It starts as Handover does, and where no credential changes, Handover stutters.
LEMMA PromiseStarts == Init => Promise!Init
<1> SUFFICES ASSUME Init
             PROVE  Promise!Init
  OBVIOUS
<1>1. \A r \in Rotations : old[r] = "active" /\ newRef[r] \notin live[r] /\ newRef[r] = 0
  BY DEF Init
<1>2. \A r \in Rotations : ValidFor(r) = {"old"} /\ SettledFor(r) = FALSE
  BY <1>1, Unsettled DEF SettledFor
<1> QED
  BY <1>2 DEF Promise!Init

LEMMA PromiseStutters == Stutters => UNCHANGED Promise!handoverVars
BY DEF Stutters, SameFor, Promise!handoverVars

\* Rotation implements Handover: the new credential is offered beside the old
\* one, and then one of them goes, once and for all.
THEOREM Implements ==
    ASSUME Uninterrupted, Deletes
    PROVE  Spec => KeepsPromise
<1>1. IInv /\ HandoverInv /\ [Next]_vars => [Promise!Next]_(Promise!handoverVars)
  BY PromiseStutters, StepHandsOver
<1> QED
  BY <1>1, PromiseStarts, HandoverInvariant, PTL DEF Spec, KeepsPromise, Promise!Spec
================================================================================
