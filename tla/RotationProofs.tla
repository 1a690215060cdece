---------------------------- MODULE RotationProofs ----------------------------
(***************************************************************************)
(* Theorems about Rotation: they hold for every set of rotations, secrets  *)
(* and jobs, every set of calls that may fail and any number of faults.    *)
(***************************************************************************)
EXTENDS Rotation, TLAPS

USE RotationAssumption

-------------------------------------------------------------------------------
(***************************************************************************)
(* Types, one part of TypeOK at a time.                                    *)
(***************************************************************************)

\* The literals that the actions write belong to the types of their variables.
LEMMA Literals ==
    /\ CallPcs \subseteq HoldPcs
    /\ HoldPcs \subseteq RunPcs
    /\ RunPcs \subseteq Pc
    /\ {"idle", "queued", "crashed", "enqueue"} \subseteq Pc \ HoldPcs
    /\ {"idle", "queued", "crashed"} \cap RunPcs = {}
    /\ {"load", "expire", "steps", "await", "gate", "start", "done", "complete",
        "failed", "rollback", "compensated", "uncompensated", "final", "release",
        "continue"} \subseteq HoldPcs \ CallPcs
    /\ {"create", "write", "distribute", "verify", "disable", "delete", "undo"}
          = CallPcs
    /\ {"pending_approval", "awaiting_confirmation", "rolling_back", "needs_replan",
        "completed", "rolled_back", "rollback_failed", "rejected"}
          \subseteq RotationStatus
    /\ \A i \in StepIdx : RunningStatus(i) \in RotationStatus
    /\ {"pending", "done", "failed", "compensated"} \subseteq StepStatus
    /\ {Provision, Distribute, Verify, Revoke} = StepIdx
  BY DEF CallPcs, HoldPcs, RunPcs, Pc, RotationStatus, Terminal, Running,
         RunningStatus, StepStatus, StepIdx, Provision, Distribute, Verify, Revoke

\* A step of advance_rotation keeps its job inside the lock, and leaves alone the
\* lock, the queue, the requests and the threads.
LEMMA AdvanceStays ==
    ASSUME TypeOK, NEW j \in Jobs, AdvanceRotation(j)
    PROVE  /\ Holding(j)
           /\ \E p \in HoldPcs : Goto(j, p)
           /\ UNCHANGED <<lock, apiVars, rid, tries, threads, faults>>
           /\ \A k \in Jobs \ {j} : mem'[k] = mem[k]
<1> USE Literals DEF Holding, Goto, TypeOK, apiVars
<1>1. CASE LoadRotation(j)
  BY <1>1 DEF LoadRotation
<1>2. CASE LoadSteps(j)
  BY <1>2 DEF LoadSteps
<1>3. CASE Gate(j)
  BY <1>3 DEF Gate
<1>4. CASE WriteExpired(j)
  BY <1>4 DEF WriteExpired, SetStatus
<1>5. CASE WriteAwaiting(j)
  BY <1>5 DEF WriteAwaiting, SetStatus
<1>6. CASE StartStep(j)
  <2>1. FirstCall(j) \in HoldPcs
    BY DEF FirstCall, Memory
  <2>2. QED
    BY <1>6, <2>1 DEF StartStep, SetStatus
<1>7. CASE CreateCall(j)
  BY <1>7 DEF CreateCall
<1>8. CASE WriteCall(j)
  BY <1>8 DEF WriteCall
<1>9. CASE VerifyCall(j)
  BY <1>9 DEF VerifyCall
<1>10. CASE DisableCall(j)
  BY <1>10 DEF DisableCall
<1>11. CASE DeleteCall(j)
  BY <1>11 DEF DeleteCall
<1>12. CASE UndoCall(j)
  BY <1>12 DEF UndoCall
<1>13. CASE PersistDone(j)
  BY <1>13 DEF PersistDone
<1>14. CASE WriteCompleted(j)
  BY <1>14 DEF WriteCompleted, SetStatus
<1>15. CASE PersistFailed(j)
  BY <1>15 DEF PersistFailed
<1>16. CASE WriteRollingBack(j)
  BY <1>16 DEF WriteRollingBack, SetStatus
<1>17. CASE PersistUndo(j)
  BY <1>17 DEF PersistUndo
<1>18. CASE WriteFinal(j)
  BY <1>18 DEF WriteFinal, SetStatus
<1>19. QED
  BY <1>1, <1>2, <1>3, <1>4, <1>5, <1>6, <1>7, <1>8, <1>9, <1>10, <1>11, <1>12,
     <1>13, <1>14, <1>15, <1>16, <1>17, <1>18 DEF AdvanceRotation

\* Where the rows change: by a handler of the API, or by one of the engine's
\* writes, of the rotation of its job.
LEMMA DbTyped ==
    ASSUME TypeOK, [Next]_vars
    PROVE  DbOK'
<1> USE Literals DEF TypeOK, DbOK, JobsOK
<1>1. ASSUME NEW r \in Rotations, TriggerRotation(r)
      PROVE  DbOK'
  BY <1>1 DEF TriggerRotation, Gated
<1>2. ASSUME NEW r \in Rotations, RejectWrite(r)
      PROVE  DbOK'
  BY <1>2 DEF RejectWrite
<1>3. ASSUME NEW r \in Rotations, NEW i \in StepIdx, ConfirmWrite(r, i)
      PROVE  DbOK'
  BY <1>3 DEF ConfirmWrite
<1>4. ASSUME NEW r \in Rotations, PlanExpires(r)
      PROVE  DbOK'
  BY <1>4 DEF PlanExpires
<1>5. ASSUME NEW j \in Jobs, NEW new \in RotationStatus, NEW next,
             SetStatus(j, new, next), UNCHANGED step, pc[j] # "idle"
      PROVE  DbOK'
  BY <1>5 DEF SetStatus
<1>6. ASSUME NEW j \in Jobs, StartStep(j)
      PROVE  DbOK'
  <2>1. RunningStatus(mem[j].idx) \in RotationStatus
    BY DEF Memory
  <2>2. CASE SetStatus(j, RunningStatus(mem[j].idx), FirstCall(j)) /\ UNCHANGED step
    BY <1>5, <1>6, <2>1, <2>2 DEF StartStep
  <2>3. CASE UNCHANGED dbVars
    BY <2>3 DEF dbVars
  <2>4. QED
    BY <1>6, <2>2, <2>3 DEF StartStep
<1>7. ASSUME NEW j \in Jobs, WriteExpired(j) \/ WriteAwaiting(j) \/ WriteCompleted(j)
                               \/ WriteRollingBack(j) \/ WriteFinal(j)
      PROVE  DbOK'
  <2>1. PICK new \in RotationStatus, next \in Pc : SetStatus(j, new, next)
    BY <1>7 DEF WriteExpired, WriteAwaiting, WriteCompleted, WriteRollingBack, WriteFinal
  <2>2. UNCHANGED step /\ pc[j] # "idle"
    BY <1>7 DEF WriteExpired, WriteAwaiting, WriteCompleted, WriteRollingBack, WriteFinal
  <2>3. QED
    BY <1>5, <2>1, <2>2
<1>8. ASSUME NEW j \in Jobs, PersistDone(j)
      PROVE  DbOK'
  <2>1. rid[j] \in Rotations /\ mem[j].idx \in StepIdx /\ mem[j].key \in Nat
    BY <1>8 DEF PersistDone, Memory
  <2>2. step' \in [Rotations -> [StepIdx -> StepStatus]]
    BY <1>8, <2>1 DEF PersistDone
  <2>3. newRef' \in [Rotations -> Nat]
    BY <1>8, <2>1 DEF PersistDone
  <2>4. QED
    BY <1>8, <2>2, <2>3 DEF PersistDone
<1>9. ASSUME NEW j \in Jobs, PersistFailed(j) \/ PersistUndo(j)
      PROVE  DbOK'
  <2>1. PICK i \in StepIdx, o \in StepStatus : step' = [step EXCEPT ![rid[j]][i] = o]
    <3>1. CASE PersistFailed(j)
      BY <3>1 DEF PersistFailed, Memory
    <3>2. CASE PersistUndo(j)
      BY <3>2 DEF PersistUndo
    <3>3. QED
      BY <1>9, <3>1, <3>2
  <2>2. rid[j] \in Rotations
    BY <1>9 DEF PersistFailed, PersistUndo
  <2>3. UNCHANGED <<status, confirm, newRef, expired>>
    BY <1>9 DEF PersistFailed, PersistUndo
  <2>4. QED
    BY <2>1, <2>2, <2>3
<1>10. CASE UNCHANGED dbVars
  BY <1>10 DEF dbVars
<1>11. QED
  BY <1>1, <1>2, <1>3, <1>4, <1>6, <1>7, <1>8, <1>9, <1>10
  DEF Next, vars, JobStep, AdvanceRotation, ApproveRotation, RejectCheck, ConfirmCheck,
      StartJob, Crash, Interrupt, Redeliver, LockExpires, ThreadRuns, Release, Continue,
      LoadRotation, LoadSteps, Gate, CreateCall, WriteCall, VerifyCall, DisableCall,
      DeleteCall, UndoCall

\* Where the credentials change: in a connector call, of a job or of a thread.
LEMMA CloudTyped ==
    ASSUME TypeOK, [Next]_vars
    PROVE  CloudOK'
<1> USE Literals DEF TypeOK, CloudOK, JobsOK
<1>1. ASSUME NEW r \in Rotations, CreateKey(r)
      PROVE  CloudOK'
  BY <1>1 DEF CreateKey
<1>2. ASSUME NEW r \in Rotations, NEW k \in Nat, WriteStore(r, k)
      PROVE  CloudOK'
  BY <1>2 DEF WriteStore
<1>3. ASSUME NEW r \in Rotations, DisableOld(r) \/ DeleteOld(r)
      PROVE  CloudOK'
  BY <1>3 DEF DisableOld, DeleteOld
<1>4. ASSUME NEW r \in Rotations, NEW k \in Nat, DeleteNew(r, k)
      PROVE  CloudOK'
  BY <1>4 DEF DeleteNew
<1>5. CASE UNCHANGED cloudVars
  BY <1>5 DEF cloudVars
<1>6. ASSUME NEW j \in Jobs, CreateCall(j) \/ WriteCall(j) \/ DisableCall(j)
                               \/ DeleteCall(j) \/ UndoCall(j)
      PROVE  CloudOK'
  <2>1. rid[j] \in Rotations /\ mem[j].key \in Nat /\ mem[j].ref \in Nat
    BY <1>6 DEF CreateCall, WriteCall, DisableCall, DeleteCall, UndoCall, Memory
  <2>2. QED
    BY <1>1, <1>2, <1>3, <1>4, <1>5, <1>6, <2>1
    DEF CreateCall, WriteCall, DisableCall, DeleteCall, UndoCall
<1>7. ASSUME NEW t \in threads, ThreadRuns(t)
      PROVE  CloudOK'
  <2>1. t.rid \in Rotations /\ t.key \in Nat
    BY DEF Threads
  <2>2. QED
    BY <1>1, <1>2, <1>3, <1>4, <1>5, <1>7, <2>1 DEF ThreadRuns
<1>8. QED
  BY <1>5, <1>6, <1>7
  DEF Next, vars, JobStep, AdvanceRotation, TriggerRotation, ApproveRotation, RejectCheck,
      RejectWrite, ConfirmCheck, ConfirmWrite, PlanExpires, StartJob, Crash, Interrupt,
      Redeliver, LockExpires, Release, Continue, LoadRotation, LoadSteps, Gate,
      WriteExpired, WriteAwaiting, StartStep, SetStatus, VerifyCall, PersistDone,
      WriteCompleted, PersistFailed, WriteRollingBack, PersistUndo, WriteFinal

LEMMA ApiTyped ==
    ASSUME TypeOK, [Next]_vars
    PROVE  ApiOK'
<1> USE DEF TypeOK, ApiOK
<1>1. ASSUME NEW r \in Rotations, RejectCheck(r) \/ RejectWrite(r)
      PROVE  ApiOK'
  BY <1>1 DEF RejectCheck, RejectWrite
<1>2. ASSUME NEW r \in Rotations, NEW i \in StepIdx,
             ConfirmCheck(r, i) \/ ConfirmWrite(r, i)
      PROVE  ApiOK'
  BY <1>2 DEF ConfirmCheck, ConfirmWrite
<1>3. CASE UNCHANGED apiVars
  BY <1>3 DEF apiVars
<1>4. QED
  BY <1>1, <1>2, <1>3, AdvanceStays
  DEF Next, vars, JobStep, TriggerRotation, ApproveRotation, PlanExpires, StartJob, Crash,
      Interrupt, Redeliver, LockExpires, ThreadRuns, Release, Continue

\* Every way a job moves keeps it well typed and, unless idle, with its rotation.
LEMMA JobsTyped ==
    ASSUME TypeOK, [Next]_vars
    PROVE  JobsOK'
<1> USE Literals DEF TypeOK, JobsOK
<1>1. ASSUME NEW j \in Jobs, NEW p \in Pc, pc[j] # "idle", Goto(j, p),
             UNCHANGED rid, tries' \in [Jobs -> Nat]
      PROVE  JobsOK'
  BY <1>1 DEF Goto
<1>2. ASSUME NEW j \in Jobs, Leave(j)
      PROVE  JobsOK'
  BY <1>2 DEF Leave, Goto
<1>3. ASSUME NEW r \in Rotations, EnqueueFor(r)
      PROVE  JobsOK'
  BY <1>3 DEF EnqueueFor
<1>4. ASSUME NEW j \in Jobs, pc[j] # "idle", RunAgain(j)
      PROVE  JobsOK'
  BY <1>1, <1>2, <1>4 DEF RunAgain
<1>5. ASSUME NEW j \in Jobs, AdvanceRotation(j)
      PROVE  JobsOK'
  BY <1>1, <1>5, AdvanceStays DEF Holding
<1>6. ASSUME NEW j \in Jobs, StartJob(j)
      PROVE  JobsOK'
  BY <1>1, <1>2, <1>6 DEF StartJob
<1>7. ASSUME NEW j \in Jobs, Release(j) \/ Continue(j)
      PROVE  JobsOK'
  BY <1>1, <1>2, <1>7 DEF Release, Continue
<1>8. ASSUME NEW j \in Jobs, Crash(j) \/ Interrupt(j) \/ Redeliver(j)
      PROVE  JobsOK'
  BY <1>1, <1>2, <1>4, <1>8 DEF Crash, Interrupt, Redeliver, Holding
<1>9. CASE UNCHANGED <<pc, rid, tries>>
  BY <1>9
<1>10. QED
  BY <1>3, <1>5, <1>6, <1>7, <1>8, <1>9
  DEF Next, vars, JobStep, TriggerRotation, ApproveRotation, RejectCheck, RejectWrite,
      ConfirmCheck, ConfirmWrite, PlanExpires, LockExpires, ThreadRuns, workerVars

\* The updates of a job's memory that the actions make keep it well typed.
LEMMA RememberRotation ==
    ASSUME NEW m \in Memory, NEW s \in RotationStatus, NEW ref \in Nat
    PROVE  [m EXCEPT !.status = s, !.ref = ref] \in Memory
  BY DEF Memory

LEMMA RememberSteps ==
    ASSUME NEW m \in Memory, NEW ss \in [StepIdx -> StepStatus], NEW i \in StepIdx
    PROVE  /\ [m EXCEPT !.steps = ss] \in Memory
           /\ [m EXCEPT !.steps = ss, !.idx = i] \in Memory
  BY DEF Memory

LEMMA RememberKey ==
    ASSUME NEW m \in Memory, NEW k \in Nat
    PROVE  [m EXCEPT !.key = k] \in Memory
  BY DEF Memory

LEMMA RememberTodo ==
    ASSUME NEW m \in Memory, NEW S \in SUBSET StepIdx, NEW b \in BOOLEAN
    PROVE  /\ [m EXCEPT !.todo = S] \in Memory
           /\ [m EXCEPT !.todo = S, !.bad = b] \in Memory
  BY DEF Memory

\* What a job remembers: rows as they were read, a key it has made, steps to undo.
LEMMA MemoryTyped ==
    ASSUME TypeOK, [Next]_vars
    PROVE  mem' \in [Jobs -> Memory]
<1> USE DEF TypeOK, JobsOK
<1>0. ASSUME NEW j \in Jobs, NEW m \in Memory, mem' = [mem EXCEPT ![j] = m]
      PROVE  mem' \in [Jobs -> Memory]
  BY <1>0
<1>1. ASSUME NEW j \in Jobs, LoadRotation(j)
      PROVE  mem' \in [Jobs -> Memory]
  <2> DEFINE m == [mem[j] EXCEPT !.status = status[rid[j]], !.ref = newRef[rid[j]]]
  <2>1. status[rid[j]] \in RotationStatus /\ newRef[rid[j]] \in Nat
    BY <1>1 DEF LoadRotation, DbOK
  <2>2. m \in Memory
    BY <2>1, RememberRotation
  <2>3. mem' = [mem EXCEPT ![j] = m]
    BY <1>1 DEF LoadRotation
  <2>4. QED
    BY <1>0, <2>2, <2>3
<1>2. ASSUME NEW j \in Jobs, LoadSteps(j)
      PROVE  mem' \in [Jobs -> Memory]
  <2> DEFINE ss == step[rid[j]]
  <2>1. ss \in [StepIdx -> StepStatus]
    BY <1>2 DEF LoadSteps, DbOK
  <2>2. \/ mem' = [mem EXCEPT ![j].steps = ss]
        \/ \E i \in StepIdx : mem' = [mem EXCEPT ![j].steps = ss, ![j].idx = i]
    BY <1>2 DEF LoadSteps
  <2> HIDE DEF ss
  <2>3. CASE mem' = [mem EXCEPT ![j].steps = ss]
    <3>1. mem' = [mem EXCEPT ![j] = [mem[j] EXCEPT !.steps = ss]]
      BY <2>3
    <3>2. [mem[j] EXCEPT !.steps = ss] \in Memory
      <4>1. Provision \in StepIdx
        BY Literals
      <4>2. QED
        BY <2>1, <4>1, RememberSteps
    <3>3. QED
      BY <1>0, <3>1, <3>2
  <2>4. ASSUME NEW i \in StepIdx, mem' = [mem EXCEPT ![j].steps = ss, ![j].idx = i]
        PROVE  mem' \in [Jobs -> Memory]
    <3>1. mem' = [mem EXCEPT ![j] = [mem[j] EXCEPT !.steps = ss, !.idx = i]]
      BY <2>4
    <3>2. [mem[j] EXCEPT !.steps = ss, !.idx = i] \in Memory
      BY <2>1, RememberSteps
    <3>3. QED
      BY <1>0, <3>1, <3>2
  <2>5. QED
    BY <2>2, <2>3, <2>4
<1>3. ASSUME NEW j \in Jobs, CreateCall(j)
      PROVE  mem' \in [Jobs -> Memory]
  <2> DEFINE m == [mem[j] EXCEPT !.key = issued'[rid[j]]]
  <2>1. UNCHANGED mem \/ (mem' = [mem EXCEPT ![j] = m] /\ rid[j] \in Rotations)
    BY <1>3 DEF CreateCall
  <2>2. rid[j] \in Rotations => m \in Memory
    BY CloudTyped, RememberKey DEF CloudOK
  <2>3. QED
    BY <1>0, <2>1, <2>2
<1>4. ASSUME NEW j \in Jobs, WriteRollingBack(j)
      PROVE  mem' \in [Jobs -> Memory]
  <2> DEFINE m == [mem[j] EXCEPT !.todo = Done(mem[j].steps)]
  <2>1. Done(mem[j].steps) \in SUBSET StepIdx
    BY DEF Done
  <2>2. m \in Memory
    BY <2>1, RememberTodo
  <2>3. mem' = [mem EXCEPT ![j] = m]
    BY <1>4 DEF WriteRollingBack
  <2>4. QED
    BY <1>0, <2>2, <2>3
<1>5. ASSUME NEW j \in Jobs, PersistUndo(j)
      PROVE  mem' \in [Jobs -> Memory]
  <2> DEFINE b == mem[j].bad \/ pc[j] = "uncompensated"
             S(i) == mem[j].todo \ {i}
  <2>1. PICK i \in StepIdx : mem' = [mem EXCEPT ![j].todo = S(i), ![j].bad = b]
    BY <1>5 DEF PersistUndo
  <2>2. b \in BOOLEAN
    OBVIOUS
  <2>3. S(i) \in SUBSET StepIdx
    BY DEF Memory
  <2> HIDE DEF b, S
  <2>4. mem' = [mem EXCEPT ![j] = [mem[j] EXCEPT !.todo = S(i), !.bad = b]]
    BY <2>1
  <2>5. [mem[j] EXCEPT !.todo = S(i), !.bad = b] \in Memory
    BY <2>2, <2>3, RememberTodo
  <2>6. QED
    BY <1>0, <2>4, <2>5
<1>6. ASSUME NEW j \in Jobs, Release(j) \/ Crash(j) \/ Interrupt(j)
      PROVE  mem' \in [Jobs -> Memory]
  <2>1. NoMemory \in Memory
    BY Literals DEF NoMemory, Memory, RotationStatus
  <2>2. QED
    BY <1>6, <2>1 DEF Release, Crash, Interrupt
<1>7. CASE UNCHANGED mem
  BY <1>7
<1>8. QED
  BY <1>1, <1>2, <1>3, <1>4, <1>5, <1>6, <1>7
  DEF Next, vars, workerVars, JobStep, AdvanceRotation, TriggerRotation, ApproveRotation,
      RejectCheck, RejectWrite, ConfirmCheck, ConfirmWrite, PlanExpires, StartJob,
      Redeliver, LockExpires, ThreadRuns, Continue, Gate, WriteExpired, WriteAwaiting,
      StartStep, SetStatus, WriteCall, VerifyCall, DisableCall, DeleteCall, UndoCall,
      PersistDone, WriteCompleted, PersistFailed, WriteFinal

\* An interrupted job leaves at most the call it was in.
LEMMA ThreadsTyped ==
    ASSUME TypeOK, [Next]_vars
    PROVE  threads' \subseteq Threads
<1> USE Literals DEF TypeOK, JobsOK
<1>1. ASSUME NEW j \in Jobs, Interrupt(j)
      PROVE  threads' \subseteq Threads
  <2>1. rid[j] \in Rotations /\ mem[j].key \in Nat /\ mem[j].ref \in Nat
    BY <1>1 DEF Interrupt, Holding, Memory
  <2>2. UNCHANGED threads \/ \E k \in Nat :
          /\ pc[j] \in CallPcs
          /\ threads' = threads \cup {[rid |-> rid[j], op |-> pc[j], key |-> k]}
    BY <1>1, <2>1 DEF Interrupt
  <2>3. QED
    BY <2>1, <2>2 DEF Threads
<1>2. ASSUME NEW t \in threads, ThreadRuns(t)
      PROVE  threads' \subseteq Threads
  <2>1. t \in Threads /\ issued'[t.rid] \in Nat
    BY CloudTyped DEF Threads, CloudOK
  <2>2. \/ threads' = threads \ {t}
        \/ threads' = (threads \ {t}) \cup {[t EXCEPT !.op = "delete"]}
        \/ threads' = (threads \ {t}) \cup
                         {[t EXCEPT !.op = "write", !.key = issued'[t.rid]]}
    BY <1>2 DEF ThreadRuns
  <2>3. [t EXCEPT !.op = "delete"] \in Threads
    BY <2>1 DEF Threads
  <2>4. [t EXCEPT !.op = "write", !.key = issued'[t.rid]] \in Threads
    BY <2>1 DEF Threads
  <2>5. QED
    BY <2>2, <2>3, <2>4
<1>3. CASE UNCHANGED threads
  BY <1>3
<1>4. QED
  BY <1>1, <1>2, <1>3, AdvanceStays
  DEF Next, vars, workerVars, JobStep, TriggerRotation, ApproveRotation, RejectCheck,
      RejectWrite, ConfirmCheck, ConfirmWrite, PlanExpires, StartJob, Crash, Redeliver,
      LockExpires, Release, Continue

LEMMA LockTyped ==
    ASSUME TypeOK, [Next]_vars
    PROVE  lock' \in [Secrets -> Rotations \cup {None}] /\ faults' \in Nat
<1> USE Literals DEF TypeOK, JobsOK
<1>1. ASSUME NEW j \in Jobs, StartJob(j)
      PROVE  lock' \in [Secrets -> Rotations \cup {None}]
  BY <1>1 DEF StartJob
<1>2. ASSUME NEW j \in Jobs, Release(j) \/ Interrupt(j)
      PROVE  lock' \in [Secrets -> Rotations \cup {None}]
  BY <1>2 DEF Release, Interrupt, Unlock
<1>3. ASSUME NEW s \in Secrets, LockExpires(s)
      PROVE  lock' \in [Secrets -> Rotations \cup {None}]
  BY <1>3 DEF LockExpires
<1>4. ASSUME NEW j \in Jobs, Crash(j) \/ Interrupt(j)
      PROVE  faults' \in Nat
  BY <1>4 DEF Crash, Interrupt, Fault
<1>5. \/ UNCHANGED lock
      \/ \E j \in Jobs : StartJob(j) \/ Release(j) \/ Interrupt(j)
      \/ \E s \in Secrets : LockExpires(s)
  BY AdvanceStays
  DEF Next, vars, JobStep, TriggerRotation, ApproveRotation, RejectCheck, RejectWrite,
      ConfirmCheck, ConfirmWrite, PlanExpires, Crash, Redeliver, ThreadRuns, Continue
<1>6. UNCHANGED faults \/ \E j \in Jobs : Crash(j) \/ Interrupt(j)
  BY AdvanceStays
  DEF Next, vars, workerVars, JobStep, TriggerRotation, ApproveRotation, RejectCheck,
      RejectWrite, ConfirmCheck, ConfirmWrite, PlanExpires, StartJob, Redeliver,
      LockExpires, ThreadRuns, Release, Continue
<1>7. QED
  BY <1>1, <1>2, <1>3, <1>4, <1>5, <1>6

\* Type correctness of Rotation.
THEOREM TypeCorrect == Spec => []TypeOK
<1>1. Init => TypeOK
  BY Literals
  DEF Init, TypeOK, DbOK, CloudOK, ApiOK, JobsOK, NoMemory, Memory, RotationStatus
<1>2. TypeOK /\ [Next]_vars => TypeOK'
  BY DbTyped, CloudTyped, ApiTyped, JobsTyped, MemoryTyped, ThreadsTyped, LockTyped
  DEF TypeOK
<1>3. QED
  BY <1>1, <1>2, PTL DEF Spec

-------------------------------------------------------------------------------
(***************************************************************************)
(* The lock.                                                               *)
(***************************************************************************)

LEMMA LockStep ==
    ASSUME TypeOK, LockExclusion, [Next]_vars
    PROVE  LockExclusion'
<1> USE Literals DEF TypeOK, JobsOK, LockExclusion, Holding
\* Nobody enters: the lock changes, if at all, only for a secret that no job
\* still holding a lock has.
<1>1. ASSUME UNCHANGED lock, \A k \in Jobs : Holding(k)' => Holding(k) /\ rid'[k] = rid[k]
      PROVE  LockExclusion'
  BY <1>1
<1>2. ASSUME NEW j \in Jobs, AdvanceRotation(j)
      PROVE  LockExclusion'
  BY <1>1, <1>2, AdvanceStays DEF Goto
<1>3. ASSUME NEW j \in Jobs, StartJob(j)
      PROVE  LockExclusion'
  BY <1>3 DEF StartJob, Goto, Leave
<1>4. ASSUME NEW j \in Jobs, Holding(j), ~Holding(j)', Unlock(rid[j]),
             \A k \in Jobs \ {j} : pc'[k] = pc[k] /\ rid'[k] = rid[k]
      PROVE  LockExclusion'
  BY <1>4 DEF Unlock
<1>5. ASSUME NEW j \in Jobs, Release(j) \/ Interrupt(j)
      PROVE  LockExclusion'
  BY <1>4, <1>5 DEF Release, Interrupt, Leave, RunAgain, Goto
<1>6. ASSUME NEW j \in Jobs, Continue(j) \/ Crash(j) \/ Redeliver(j)
      PROVE  LockExclusion'
  BY <1>1, <1>6 DEF Continue, Crash, Redeliver, RunAgain, Leave, Goto
<1>7. ASSUME NEW r \in Rotations, EnqueueFor(r), UNCHANGED lock
      PROVE  LockExclusion'
  BY <1>1, <1>7 DEF EnqueueFor
<1>8. ASSUME NEW s \in Secrets, LockExpires(s)
      PROVE  LockExclusion'
  BY <1>8 DEF LockExpires, Orphaned, workerVars
<1>9. CASE UNCHANGED <<lock, pc, rid>>
  BY <1>1, <1>9
<1>10. QED
  BY <1>2, <1>3, <1>5, <1>6, <1>7, <1>8, <1>9
  DEF Next, vars, workerVars, JobStep, TriggerRotation, ApproveRotation, RejectCheck,
      RejectWrite, ConfirmCheck, ConfirmWrite, PlanExpires, ThreadRuns

\* At most one job is inside the lock of a secret (lock.py), whatever jobs are
\* duplicated, retried, interrupted or killed.
THEOREM MutualExclusion == Spec => []LockExclusion
<1>1. Init => LockExclusion
  BY Literals DEF Init, LockExclusion, Holding
<1>2. TypeOK /\ LockExclusion /\ [Next]_vars => LockExclusion'
  BY LockStep
<1>3. QED
  BY <1>1, <1>2, TypeCorrect, PTL DEF Spec

-------------------------------------------------------------------------------
(***************************************************************************)
(* The inductive invariant.                                                *)
(***************************************************************************)

\* The engine's status writes, as one.
LEMMA StatusWrites ==
    ASSUME TypeOK, NEW j \in Jobs, AdvanceRotation(j)
    PROVE  \/ UNCHANGED status
           \/ \E new \in RotationStatus \ {"absent"} :
                 status' = [status EXCEPT ![rid[j]] = new]
<1> USE Literals DEF TypeOK, JobsOK
<1>1. ASSUME NEW new \in RotationStatus \ {"absent"}, NEW next, SetStatus(j, new, next)
      PROVE  UNCHANGED status \/ status' = [status EXCEPT ![rid[j]] = new]
  BY <1>1 DEF SetStatus
<1>2. CASE StartStep(j)
  <2>1. RunningStatus(mem[j].idx) \in RotationStatus \ {"absent"}
    <3>1. \A i \in StepIdx : RunningStatus(i) # "absent"
      BY DEF RunningStatus, StepIdx, Provision, Distribute, Verify, Revoke
    <3>2. QED
      BY <3>1 DEF Memory
  <2>2. QED
    BY <1>1, <1>2, <2>1 DEF StartStep, dbVars
<1>3. CASE WriteExpired(j) \/ WriteAwaiting(j) \/ WriteCompleted(j)
             \/ WriteRollingBack(j) \/ WriteFinal(j)
  <2>1. \E new \in RotationStatus \ {"absent"}, next \in Pc : SetStatus(j, new, next)
    BY <1>3 DEF WriteExpired, WriteAwaiting, WriteCompleted, WriteRollingBack, WriteFinal
  <2>2. QED
    BY <1>1, <2>1
<1>4. QED
  BY <1>2, <1>3
  DEF AdvanceRotation, dbVars, LoadRotation, LoadSteps, Gate, CreateCall, WriteCall,
      VerifyCall, DisableCall, DeleteCall, UndoCall, PersistDone, PersistFailed, PersistUndo

\* No row is ever deleted.
LEMMA RowsStay ==
    ASSUME TypeOK, [Next]_vars, NEW r \in Rotations, status'[r] = "absent"
    PROVE  status[r] = "absent"
<1> USE DEF TypeOK, DbOK, JobsOK
<1>1. ASSUME NEW j \in Jobs, AdvanceRotation(j)
      PROVE  status[r] = "absent"
  BY <1>1, StatusWrites, AdvanceStays
<1>2. ASSUME NEW q \in Rotations, TriggerRotation(q) \/ RejectWrite(q)
      PROVE  status[r] = "absent"
  BY <1>2 DEF TriggerRotation, RejectWrite
<1>3. CASE UNCHANGED status
  BY <1>3
<1>4. QED
  BY <1>1, <1>2, <1>3
  DEF Next, vars, dbVars, JobStep, ApproveRotation, RejectCheck, ConfirmCheck, ConfirmWrite,
      PlanExpires, StartJob, Crash, Interrupt, Redeliver, LockExpires, ThreadRuns, Release,
      Continue

\* The only writes to the steps: a job inside the lock records the outcome of a
\* pending step, or the compensation of a done one, which fails only for provision.
LEMMA StepWrites ==
    ASSUME IInv, [Next]_vars
    PROVE  \/ UNCHANGED step
           \/ \E j \in Jobs, i \in StepIdx, o \in StepStatus :
                 /\ Holding(j) /\ AdvanceRotation(j)
                 /\ step' = [step EXCEPT ![rid[j]][i] = o]
                 /\ \/ step[rid[j]][i] = "pending" /\ o \in {"done", "failed"}
                    \/ step[rid[j]][i] = "done" /\ o = "compensated"
                    \/ step[rid[j]][i] = "done" /\ o = "failed" /\ i = Provision
<1> USE Literals DEF IInv, TypeOK
<1>1. ASSUME NEW j \in Jobs, PersistDone(j) \/ PersistFailed(j)
      PROVE  /\ Holding(j)
             /\ \E o \in {"done", "failed"} :
                   step' = [step EXCEPT ![rid[j]][mem[j].idx] = o]
             /\ mem[j].idx \in StepIdx /\ step[rid[j]][mem[j].idx] = "pending"
  <2>1. Holding(j)
    BY <1>1 DEF Holding, PersistDone, PersistFailed
  <2>2. mem[j].idx \in Pending(step[rid[j]])
    BY <1>1, <2>1 DEF JobInv, StepPcs, PersistDone, PersistFailed
  <2>3. QED
    BY <1>1, <2>1, <2>2 DEF Pending, PersistDone, PersistFailed
<1>2. ASSUME NEW j \in Jobs, PersistUndo(j)
      PROVE  /\ Holding(j)
             /\ \E i \in StepIdx, o \in {"compensated", "failed"} :
                   /\ step' = [step EXCEPT ![rid[j]][i] = o]
                   /\ step[rid[j]][i] = "done"
                   /\ o = "failed" => i = Provision
  <2>1. Holding(j)
    BY <1>2 DEF Holding, PersistUndo
  <2>2. PICK i \in StepIdx :
          /\ IsLast(i, mem[j].todo)
          /\ step' = [step EXCEPT ![rid[j]][i] =
                         IF pc[j] = "compensated" THEN "compensated" ELSE "failed"]
    BY <1>2 DEF PersistUndo
  <2>3. i \in Done(step[rid[j]])
    BY <1>2, <2>1, <2>2 DEF JobInv, PersistUndo, IsLast
  <2>4. pc[j] = "uncompensated" => i = Provision
    <3>1. pc[j] = "uncompensated" => IsLast(Provision, mem[j].todo)
      BY <2>1 DEF JobInv
    <3>2. QED
      BY <2>2, <3>1 DEF IsLast, StepIdx, Provision
  <2>5. pc[j] \in {"compensated", "uncompensated"}
    BY <1>2 DEF PersistUndo
  <2>6. QED
    BY <2>1, <2>2, <2>3, <2>4, <2>5 DEF Done
<1>3. ASSUME NEW r \in Rotations, TriggerRotation(r)
      PROVE  UNCHANGED step
  <2>1. \A i \in StepIdx : step[r][i] = "pending"
    BY <1>3 DEF TriggerRotation, AbsentInv, Pending
  <2>2. step[r] = [i \in StepIdx |-> "pending"]
    BY <2>1 DEF DbOK
  <2>3. QED
    BY <1>3, <2>2 DEF TriggerRotation, DbOK
<1>4. \/ UNCHANGED step
      \/ \E r \in Rotations : TriggerRotation(r)
      \/ \E j \in Jobs : PersistDone(j) \/ PersistFailed(j) \/ PersistUndo(j)
  BY DEF Next, vars, dbVars, JobStep, AdvanceRotation, ApproveRotation, RejectCheck,
      RejectWrite, ConfirmCheck, ConfirmWrite, PlanExpires, StartJob, Crash, Interrupt,
      Redeliver, LockExpires, ThreadRuns, Release, Continue, LoadRotation, LoadSteps, Gate,
      WriteExpired, WriteAwaiting, StartStep, CreateCall, WriteCall, VerifyCall,
      DisableCall, DeleteCall, UndoCall, WriteCompleted, WriteRollingBack, WriteFinal
<1>5. QED
  BY <1>1, <1>2, <1>3, <1>4 DEF AdvanceRotation

\* Who may touch the old credential in a step, and who is about to afterwards.
LEMMA OldTouched ==
    ASSUME TypeOK, [Next]_vars, NEW r \in Rotations, old'[r] # "active"
    PROVE  old[r] # "active" \/ Revoking(r)
<1> USE Literals DEF TypeOK, CloudOK, JobsOK
<1>1. ASSUME NEW j \in Jobs, DisableCall(j) \/ DeleteCall(j)
      PROVE  old[r] # "active" \/ Revoking(r)
  BY <1>1 DEF DisableCall, DeleteCall, DisableOld, DeleteOld, cloudVars, Revoking
<1>2. ASSUME NEW t \in threads, ThreadRuns(t)
      PROVE  old[r] # "active" \/ Revoking(r)
  BY <1>2 DEF ThreadRuns, CreateKey, WriteStore, DisableOld, DeleteOld, DeleteNew,
              cloudVars, Revoking, Threads
<1>3. CASE UNCHANGED old
  BY <1>3
<1>4. QED
  BY <1>1, <1>2, <1>3
  DEF Next, vars, cloudVars, JobStep, AdvanceRotation, TriggerRotation, ApproveRotation,
      RejectCheck, RejectWrite, ConfirmCheck, ConfirmWrite, PlanExpires, StartJob, Crash,
      Interrupt, Redeliver, LockExpires, Release, Continue, LoadRotation, LoadSteps, Gate,
      WriteExpired, WriteAwaiting, StartStep, SetStatus, CreateCall, WriteCall, CreateKey,
      WriteStore, VerifyCall, UndoCall, DeleteNew, PersistDone, WriteCompleted,
      PersistFailed, WriteRollingBack, PersistUndo, WriteFinal

\* A thread comes from a job's call, or goes on to the call that follows.
LEMMA ThreadOrigin ==
    ASSUME TypeOK, [Next]_vars, NEW u \in threads'
    PROVE  \/ u \in threads
           \/ \E t \in threads : u.rid = t.rid /\ (u.op = "delete" => t.op = "disable")
                                 /\ u.op # "disable"
           \/ \E j \in Jobs : Holding(j) /\ u.rid = rid[j] /\ u.op = pc[j]
<1> USE DEF TypeOK
<1>1. ASSUME NEW j \in Jobs, Interrupt(j)
      PROVE  u \in threads \/ (Holding(j) /\ u.rid = rid[j] /\ u.op = pc[j])
  BY <1>1 DEF Interrupt
<1>2. ASSUME NEW t \in threads, ThreadRuns(t)
      PROVE  \/ u \in threads
             \/ u.rid = t.rid /\ (u.op = "delete" => t.op = "disable") /\ u.op # "disable"
  <2>1. \/ threads' = threads \ {t}
        \/ threads' = (threads \ {t}) \cup {[t EXCEPT !.op = "delete"]} /\ t.op = "disable"
        \/ threads' = (threads \ {t}) \cup
                         {[t EXCEPT !.op = "write", !.key = issued'[t.rid]]}
    BY <1>2 DEF ThreadRuns
  <2>2. [t EXCEPT !.op = "delete"].rid = t.rid /\ [t EXCEPT !.op = "delete"].op = "delete"
    BY DEF Threads
  <2>3. ASSUME NEW k
        PROVE  /\ [t EXCEPT !.op = "write", !.key = k].rid = t.rid
               /\ [t EXCEPT !.op = "write", !.key = k].op = "write"
    BY DEF Threads
  <2>4. CASE threads' = threads \ {t}
    BY <2>4
  <2>5. CASE /\ threads' = (threads \ {t}) \cup {[t EXCEPT !.op = "delete"]}
             /\ t.op = "disable"
    <3>1. u \in threads \/ u = [t EXCEPT !.op = "delete"]
      BY <2>5
    <3>2. QED
      BY <2>2, <2>5, <3>1
  <2>6. CASE threads' = (threads \ {t}) \cup
                           {[t EXCEPT !.op = "write", !.key = issued'[t.rid]]}
    <3>1. u \in threads \/ u = [t EXCEPT !.op = "write", !.key = issued'[t.rid]]
      BY <2>6
    <3>2. CASE u = [t EXCEPT !.op = "write", !.key = issued'[t.rid]]
      <4>1. u.rid = t.rid /\ u.op = "write"
        BY <2>3, <3>2
      <4>2. QED
        BY <4>1
    <3>3. QED
      BY <3>1, <3>2
  <2>7. QED
    BY <2>1, <2>4, <2>5, <2>6
<1>3. CASE UNCHANGED threads
  BY <1>3
<1>4. QED
  BY <1>1, <1>2, <1>3, AdvanceStays
  DEF Next, vars, workerVars, JobStep, TriggerRotation, ApproveRotation, RejectCheck,
      RejectWrite, ConfirmCheck, ConfirmWrite, PlanExpires, StartJob, Crash, Redeliver,
      LockExpires, Release, Continue

\* A job gets a rotation from a request, whose row is there.
LEMMA JobOrigin ==
    ASSUME TypeOK, [Next]_vars, NEW j \in Jobs, NEW r \in Rotations, rid'[j] = r
    PROVE  rid[j] = r \/ status[r] = "pending_approval" \/ confirming[r] # {}
<1> USE DEF TypeOK, JobsOK
<1>1. ASSUME NEW q \in Rotations, ApproveRotation(q)
      PROVE  rid[j] = r \/ status[r] = "pending_approval"
  BY <1>1 DEF ApproveRotation, EnqueueFor
<1>2. ASSUME NEW q \in Rotations, NEW i \in StepIdx, ConfirmWrite(q, i)
      PROVE  rid[j] = r \/ confirming[r] # {}
  BY <1>2 DEF ConfirmWrite, EnqueueFor
<1>3. ASSUME NEW k \in Jobs, StartJob(k) \/ Release(k) \/ Interrupt(k) \/ Redeliver(k)
      PROVE  rid[j] = r
  BY <1>3 DEF StartJob, Release, Interrupt, Redeliver, RunAgain, Leave
<1>4. CASE UNCHANGED rid
  BY <1>4
<1>5. QED
  BY <1>1, <1>2, <1>3, <1>4, AdvanceStays
  DEF Next, vars, workerVars, JobStep, TriggerRotation, RejectCheck, RejectWrite,
      ConfirmCheck, PlanExpires, Crash, LockExpires, ThreadRuns, Continue

\* Nothing is done for a rotation before its row is there.
LEMMA AbsentStep ==
    ASSUME IInv, [Next]_vars
    PROVE  AbsentInv'
<1> USE DEF IInv
<1> SUFFICES ASSUME NEW r \in Rotations, status'[r] = "absent"
             PROVE  /\ Pending(step'[r]) = StepIdx
                    /\ old'[r] = "active"
                    /\ confirming'[r] = {} /\ ~rejecting'[r]
                    /\ \A j \in Jobs : rid'[j] # r
                    /\ \A t \in threads' : t.rid # r
  BY DEF AbsentInv, Pending
<1>1. /\ status[r] = "absent"
      /\ Pending(step[r]) = StepIdx
      /\ old[r] = "active"
      /\ confirming[r] = {} /\ ~rejecting[r]
      /\ \A j \in Jobs : rid[j] # r
      /\ \A t \in threads : t.rid # r
  BY RowsStay DEF AbsentInv
<1>2. step'[r] = step[r]
  BY <1>1, StepWrites DEF TypeOK, DbOK
<1>3. old'[r] = "active"
  <2>1. ~Revoking(r)
    BY <1>1 DEF Revoking
  <2>2. QED
    BY <1>1, <2>1, OldTouched
<1>4. confirming'[r] = {} /\ ~rejecting'[r]
  <2>1. ASSUME NEW q \in Rotations, RejectCheck(q) \/ RejectWrite(q)
        PROVE  confirming'[r] = {} /\ ~rejecting'[r]
    BY <1>1, <2>1 DEF RejectCheck, RejectWrite, TypeOK, ApiOK
  <2>2. ASSUME NEW q \in Rotations, NEW i \in StepIdx,
               ConfirmCheck(q, i) \/ ConfirmWrite(q, i)
        PROVE  confirming'[r] = {} /\ ~rejecting'[r]
    BY <1>1, <2>2 DEF ConfirmCheck, ConfirmWrite, TypeOK, ApiOK
  <2>3. CASE UNCHANGED apiVars
    BY <1>1, <2>3 DEF apiVars
  <2>4. QED
    BY <2>1, <2>2, <2>3, AdvanceStays
    DEF Next, vars, JobStep, TriggerRotation, ApproveRotation, PlanExpires, StartJob, Crash,
        Interrupt, Redeliver, LockExpires, ThreadRuns, Release, Continue
<1>5. ASSUME NEW j \in Jobs
      PROVE  rid'[j] # r
  BY <1>1, JobOrigin
<1>6. ASSUME NEW u \in threads'
      PROVE  u.rid # r
  BY <1>1, ThreadOrigin
<1>7. QED
  BY <1>1, <1>2, <1>3, <1>4, <1>5, <1>6

\* A job inside the lock that does not move keeps what it takes for granted:
\* whoever writes steps holds the lock of another secret.
LEMMA OthersKeepJobInv ==
    ASSUME IInv, [Next]_vars, NEW k \in Jobs, Holding(k),
           pc'[k] = pc[k], rid'[k] = rid[k], mem'[k] = mem[k], ~AdvanceRotation(k)
    PROVE  JobInv(k)'
<1>1. step'[rid[k]] = step[rid[k]]
  BY StepWrites, Literals DEF IInv, LockExclusion, TypeOK, DbOK, JobsOK, Holding
<1>2. JobInv(k)
  BY DEF IInv
<1>3. QED
  BY <1>1, <1>2 DEF JobInv

\* The fields of a job's memory that its own step does not write.
LEMMA KeyField ==
    ASSUME mem \in [Jobs -> Memory], NEW j \in Jobs, NEW k,
           mem' = [mem EXCEPT ![j].key = k] \/ mem' = mem
    PROVE  mem'[j].idx = mem[j].idx /\ mem'[j].steps = mem[j].steps
  BY DEF Memory

LEMMA TwoFields ==
    ASSUME mem \in [Jobs -> Memory], NEW j \in Jobs, NEW ss, NEW i,
           mem' = [mem EXCEPT ![j].steps = ss, ![j].idx = i]
    PROVE  mem'[j].idx = i /\ mem'[j].steps = ss
  BY DEF Memory

LEMMA TodoField ==
    ASSUME mem \in [Jobs -> Memory], NEW j \in Jobs, NEW i, NEW p,
           mem' = [mem EXCEPT ![j].todo = @ \ {i}, ![j].bad = @ \/ p]
    PROVE  mem'[j].todo = mem[j].todo \ {i}
<1> DEFINE b == mem[j].bad \/ p
<1>1. mem' = [mem EXCEPT ![j].todo = @ \ {i}, ![j].bad = b]
  OBVIOUS
<1> HIDE DEF b
<1>2. QED
  BY <1>1 DEF Memory

\* What a job inside the lock takes for granted after its own move.
LEMMA MoverHasJobInv ==
    ASSUME IInv, NEW j \in Jobs, AdvanceRotation(j), Holding(j)'
    PROVE  JobInv(j)'
<1> USE Literals DEF IInv, TypeOK, JobsOK, DbOK, Goto, JobInv, StepPcs
<1>1. Holding(j) /\ JobInv(j) /\ rid'[j] = rid[j] /\ rid[j] \in Rotations
  BY AdvanceStays DEF Holding
<1>2. CASE LoadRotation(j)
  BY <1>2 DEF LoadRotation
<1>3. CASE LoadSteps(j)
  <2>1. Done(step[rid[j]]) \subseteq Done(step[rid[j]])
    OBVIOUS
  <2>2. CASE Pending(step[rid[j]]) = {}
    BY <1>3, <2>2 DEF LoadSteps, IsNext
  <2>3. CASE Pending(step[rid[j]]) # {}
    <3>1. PICK i \in StepIdx :
            /\ i \in Pending(step[rid[j]])
            /\ mem' = [mem EXCEPT ![j].steps = step[rid[j]], ![j].idx = i]
            /\ Goto(j, CASE MustConfirm(j, i) -> "await"
                         [] ~MustConfirm(j, i) /\ i = Revoke -> "gate"
                         [] OTHER -> "start")
      BY <1>3, <2>3 DEF LoadSteps, IsNext
    <3>2. UNCHANGED step
      BY <1>3 DEF LoadSteps, dbVars
    <3>3. mem'[j].idx = i /\ mem'[j].steps = step[rid[j]]
      BY <3>1, TwoFields
    <3>4. pc'[j] \in {"await", "gate", "start"} /\ (pc'[j] = "start" => i # Revoke)
      <4>1. CASE MustConfirm(j, i)
        BY <3>1, <4>1
      <4>2. CASE ~MustConfirm(j, i) /\ i = Revoke
        BY <3>1, <4>2
      <4>3. CASE ~MustConfirm(j, i) /\ i # Revoke
        BY <3>1, <4>3
      <4>4. QED
        BY <4>1, <4>2, <4>3
    <3>5. QED
      BY <1>1, <2>1, <3>1, <3>2, <3>3, <3>4
  <2>4. QED
    BY <2>2, <2>3
<1>4. CASE Gate(j)
  BY <1>1, <1>4 DEF Gate, Done, dbVars
<1>5. CASE WriteExpired(j) \/ WriteAwaiting(j) \/ WriteCompleted(j) \/ WriteFinal(j)
  BY <1>5 DEF WriteExpired, WriteAwaiting, WriteCompleted, WriteFinal, SetStatus
<1>6. CASE StartStep(j)
  <2>1. UNCHANGED step /\ UNCHANGED mem
    BY <1>6 DEF StartStep, dbVars
  <2>2. \/ pc' = [pc EXCEPT ![j] = FirstCall(j)]
        \/ pc' = [pc EXCEPT ![j] = "release"]
    BY <1>6 DEF StartStep, SetStatus
  <2>3. pc[j] = "start"
    BY <1>6 DEF StartStep
  <2>4. /\ FirstCall(j) \in {"create", "distribute", "verify", "disable", "done"}
        /\ FirstCall(j) = "disable" => mem[j].idx = Revoke
    BY DEF FirstCall, Memory
  <2>5. QED
    BY <1>1, <2>1, <2>2, <2>3, <2>4
<1>7. CASE CreateCall(j)
  <2>1. UNCHANGED step /\ pc[j] = "create" /\ pc'[j] \in {"write", "failed"}
    BY <1>7 DEF CreateCall, dbVars
  <2>2. mem'[j].idx = mem[j].idx /\ mem'[j].steps = mem[j].steps
    BY <1>7, KeyField DEF CreateCall
  <2>3. QED
    BY <1>1, <2>1, <2>2
<1>8. CASE WriteCall(j)
  BY <1>1, <1>8 DEF WriteCall, dbVars
<1>9. CASE VerifyCall(j)
  BY <1>1, <1>9 DEF VerifyCall, dbVars
<1>10. CASE DisableCall(j)
  BY <1>1, <1>10 DEF DisableCall, dbVars
<1>11. CASE DeleteCall(j)
  BY <1>1, <1>11 DEF DeleteCall, dbVars
<1>12. CASE UndoCall(j)
  BY <1>1, <1>12 DEF UndoCall, dbVars
<1>13. CASE PersistDone(j)
  BY <1>13 DEF PersistDone
<1>14. CASE PersistFailed(j)
  <2>1. mem[j].idx \in Pending(step[rid[j]]) /\ Done(mem[j].steps) \subseteq Done(step[rid[j]])
    BY <1>1, <1>14 DEF PersistFailed
  <2>2. Done(mem[j].steps) \subseteq Done(step'[rid[j]])
    BY <1>1, <1>14, <2>1 DEF PersistFailed, Done, Pending
  <2>3. pc'[j] = "rollback" /\ UNCHANGED mem
    BY <1>14 DEF PersistFailed
  <2>4. QED
    BY <1>1, <2>2, <2>3
<1>15. CASE WriteRollingBack(j)
  BY <1>1, <1>15 DEF WriteRollingBack, SetStatus
<1>16. CASE PersistUndo(j)
  <2>1. PICK i \in StepIdx, o \in StepStatus :
          /\ step' = [step EXCEPT ![rid[j]][i] = o]
          /\ mem'[j].todo = mem[j].todo \ {i}
    <3>1. PICK i \in StepIdx :
            /\ step' = [step EXCEPT ![rid[j]][i] =
                           IF pc[j] = "compensated" THEN "compensated" ELSE "failed"]
            /\ mem' = [mem EXCEPT ![j].todo = @ \ {i},
                                  ![j].bad  = @ \/ pc[j] = "uncompensated"]
      BY <1>16 DEF PersistUndo
    <3>2. mem'[j].todo = mem[j].todo \ {i}
      BY <3>1, TodoField
    <3>3. QED
      BY <3>1, <3>2
  <2>2. mem[j].todo \subseteq Done(step[rid[j]])
    BY <1>1, <1>16 DEF PersistUndo
  <2>3. mem'[j].todo \subseteq Done(step'[rid[j]])
    BY <1>1, <2>1, <2>2 DEF Done
  <2>4. pc'[j] \in {"final", "undo"}
    BY <1>16 DEF PersistUndo
  <2>5. QED
    BY <1>1, <2>3, <2>4
<1>17. QED
  BY <1>2, <1>3, <1>4, <1>5, <1>6, <1>7, <1>8, <1>9, <1>10, <1>11, <1>12, <1>13, <1>14,
     <1>15, <1>16 DEF AdvanceRotation

LEMMA JobInvStep ==
    ASSUME IInv, [Next]_vars, NEW k \in Jobs, Holding(k)'
    PROVE  JobInv(k)'
<1> USE Literals DEF Holding
<1>1. CASE AdvanceRotation(k)
  BY <1>1, MoverHasJobInv
<1>2. CASE ~AdvanceRotation(k)
  <2> USE <1>2 DEF IInv, TypeOK, JobsOK
  <2>1. ASSUME pc'[k] = "load"
        PROVE  JobInv(k)'
    BY <2>1 DEF JobInv, StepPcs
  <2>2. ASSUME pc'[k] = pc[k], rid'[k] = rid[k], mem'[k] = mem[k]
        PROVE  JobInv(k)'
    BY <2>2, OthersKeepJobInv
  <2>3. ASSUME NEW j \in Jobs, AdvanceRotation(j)
        PROVE  JobInv(k)'
    BY <2>2, <2>3, AdvanceStays DEF Goto
  <2>4. ASSUME NEW j \in Jobs, StartJob(j)
        PROVE  JobInv(k)'
    BY <2>1, <2>2, <2>4 DEF StartJob, Goto, Leave
  <2>5. ASSUME NEW j \in Jobs, Release(j) \/ Continue(j) \/ Crash(j)
        PROVE  JobInv(k)'
    BY <2>2, <2>5 DEF Release, Continue, Crash, Goto, Leave
  <2>6. ASSUME NEW j \in Jobs, Interrupt(j) \/ Redeliver(j)
        PROVE  JobInv(k)'
    BY <2>2, <2>6 DEF Interrupt, Redeliver, RunAgain, Goto, Leave
  <2>7. ASSUME NEW r \in Rotations, EnqueueFor(r), UNCHANGED mem
        PROVE  JobInv(k)'
    BY <2>2, <2>7 DEF EnqueueFor
  <2>8. CASE UNCHANGED <<pc, rid, mem>>
    BY <2>2, <2>8
  <2>9. QED
    BY <2>3, <2>4, <2>5, <2>6, <2>7, <2>8
    DEF Next, vars, workerVars, JobStep, TriggerRotation, ApproveRotation, RejectCheck,
        RejectWrite, ConfirmCheck, ConfirmWrite, PlanExpires, LockExpires, ThreadRuns
<1>3. QED
  BY <1>1, <1>2

\* Whoever reaches the calls of revoke comes from a call of revoke, or from a start
\* that the gate has let through.
LEMMA RevokingOrigin ==
    ASSUME IInv, [Next]_vars, NEW r \in Rotations, Revoking(r)'
    PROVE  Revoking(r) \/ \E j \in Jobs : rid[j] = r /\ Verify \in Done(step[r])
<1> USE Literals DEF IInv, TypeOK, JobsOK
<1>1. ASSUME NEW u \in threads', u.rid = r, u.op \in {"disable", "delete"}
      PROVE  Revoking(r)
  BY <1>1, ThreadOrigin DEF Revoking
<1>2. ASSUME NEW k \in Jobs, rid'[k] = r, pc'[k] \in {"disable", "delete"}
      PROVE  Revoking(r) \/ (rid[k] = r /\ Verify \in Done(step[r]))
  <2>1. CASE pc[k] \in {"disable", "delete"} /\ rid[k] = r
    BY <2>1 DEF Revoking
  <2>2. CASE pc'[k] = pc[k] /\ rid'[k] = rid[k]
    BY <1>2, <2>1, <2>2
  <2>3. ASSUME NEW j \in Jobs, AdvanceRotation(j), j # k
        PROVE  pc'[k] = pc[k] /\ rid'[k] = rid[k]
    BY <2>3, AdvanceStays DEF Goto
  <2>4. CASE StartStep(k)
    <3>1. pc[k] = "start" /\ rid[k] = r /\ FirstCall(k) = "disable"
      BY <1>2, <2>4 DEF StartStep, SetStatus, Goto, FirstCall, Memory
    <3>2. mem[k].idx = Revoke
      BY <3>1 DEF FirstCall, Memory
    <3>3. QED
      BY <3>1, <3>2 DEF JobInv, Holding
  <2>5. CASE DisableCall(k) \/ DeleteCall(k)
    BY <1>2, <2>1, <2>5 DEF DisableCall, DeleteCall
  <2>6. CASE AdvanceRotation(k) /\ ~StartStep(k) /\ ~DisableCall(k) /\ ~DeleteCall(k)
    BY <1>2, <2>6
    DEF AdvanceRotation, Goto, SetStatus, LoadRotation, LoadSteps, Gate, CreateCall,
        WriteCall, VerifyCall, UndoCall, PersistDone, PersistFailed, PersistUndo,
        WriteExpired, WriteAwaiting, WriteCompleted, WriteRollingBack, WriteFinal
  <2>7. ASSUME NEW j \in Jobs, StartJob(j) \/ Release(j) \/ Continue(j) \/ Crash(j)
                                  \/ Interrupt(j) \/ Redeliver(j)
        PROVE  pc'[k] = pc[k] /\ rid'[k] = rid[k]
    BY <1>2, <2>7
    DEF StartJob, Release, Continue, Crash, Interrupt, Redeliver, RunAgain, Goto, Leave
  <2>8. ASSUME NEW q \in Rotations, EnqueueFor(q)
        PROVE  pc'[k] = pc[k] /\ rid'[k] = rid[k]
    BY <1>2, <2>8 DEF EnqueueFor
  <2>9. CASE UNCHANGED <<pc, rid>>
    BY <2>2, <2>9
  <2>10. QED
    BY <2>2, <2>3, <2>4, <2>5, <2>6, <2>7, <2>8, <2>9
    DEF Next, vars, workerVars, JobStep, TriggerRotation, ApproveRotation, RejectCheck,
        RejectWrite, ConfirmCheck, ConfirmWrite, PlanExpires, LockExpires, ThreadRuns
<1>3. QED
  BY <1>1, <1>2 DEF Revoking

LEMMA VerifiedStep ==
    ASSUME IInv, [Next]_vars
    PROVE  VerifiedBeforeRevoke'
<1> SUFFICES ASSUME NEW r \in Rotations, old'[r] # "active" \/ Revoking(r)'
             PROVE  step'[r][Verify] \in {"done", "compensated"}
  BY DEF VerifiedBeforeRevoke
<1>1. step[r][Verify] \in {"done", "compensated"}
  BY OldTouched, RevokingOrigin DEF IInv, VerifiedBeforeRevoke, Done
<1>2. Verify # Provision
  BY DEF Verify, Provision
<1>3. CASE UNCHANGED step
  BY <1>1, <1>3
<1>4. ASSUME NEW j \in Jobs, NEW i \in StepIdx, NEW o \in StepStatus, Holding(j),
             step' = [step EXCEPT ![rid[j]][i] = o],
             \/ step[rid[j]][i] = "pending" /\ o \in {"done", "failed"}
             \/ step[rid[j]][i] = "done" /\ o = "compensated"
             \/ step[rid[j]][i] = "done" /\ o = "failed" /\ i = Provision
      PROVE  step'[r][Verify] \in {"done", "compensated"}
  <2>1. step \in [Rotations -> [StepIdx -> StepStatus]]
    BY DEF IInv, TypeOK, DbOK
  <2>2. CASE rid[j] = r /\ i = Verify
    <3>1. o = "compensated"
      BY <1>1, <1>2, <1>4, <2>2
    <3>2. step'[r][Verify] = o
      BY <1>4, <2>1, <2>2
    <3>3. QED
      BY <3>1, <3>2
  <2>3. CASE ~(rid[j] = r /\ i = Verify)
    <3>1. step'[r][Verify] = step[r][Verify]
      BY <1>4, <2>1, <2>3
    <3>2. QED
      BY <1>1, <3>1
  <2>4. QED
    BY <2>2, <2>3
<1>5. QED
  BY <1>3, <1>4, StepWrites

THEOREM Inductive == Spec => []IInv
<1>1. Init => IInv
  <2>1. Init => TypeOK /\ LockExclusion
    BY Literals
    DEF Init, TypeOK, DbOK, CloudOK, ApiOK, JobsOK, NoMemory, Memory, RotationStatus,
        LockExclusion, Holding
  <2>2. Init => AbsentInv
    BY DEF Init, AbsentInv, Pending
  <2>3. Init => \A j \in Jobs : ~Holding(j)
    BY Literals DEF Init, Holding
  <2>4. Init => VerifiedBeforeRevoke
    BY DEF Init, VerifiedBeforeRevoke, Revoking
  <2>5. QED
    BY <2>1, <2>2, <2>3, <2>4 DEF IInv
<1>2. IInv /\ [Next]_vars => IInv'
  <2> SUFFICES ASSUME IInv, [Next]_vars
               PROVE  IInv'
    OBVIOUS
  <2>1. TypeOK'
    BY DbTyped, CloudTyped, ApiTyped, JobsTyped, MemoryTyped, ThreadsTyped, LockTyped
    DEF IInv, TypeOK
  <2>2. LockExclusion'
    BY LockStep DEF IInv
  <2>3. QED
    BY <2>1, <2>2, AbsentStep, JobInvStep, VerifiedStep DEF IInv
<1>3. QED
  BY <1>1, <1>2, PTL DEF Spec

\* Verify before revoke (I1): whatever is duplicated, retried, interrupted or
\* killed, the old credential is touched only after a successful verify step.
THEOREM VerifyBeforeRevoke == Spec => []VerifiedBeforeRevoke
<1>1. IInv => VerifiedBeforeRevoke
  BY DEF IInv
<1>2. QED
  BY <1>1, Inductive, PTL

\* The recorded outcome of a step changes only by the compensation of a done one.
THEOREM FinalOutcomes == Spec => OutcomesAreFinal
<1> DEFINE Kept == \A r \in Rotations, i \in StepIdx :
             step[r][i] # "pending" /\ step'[r][i] # step[r][i] =>
                 step[r][i] = "done" /\ step'[r][i] \in {"compensated", "failed"}
<1>1. IInv /\ [Next]_vars => [Kept]_vars
  <2> SUFFICES ASSUME IInv, [Next]_vars
               PROVE  Kept
    OBVIOUS
  <2>1. CASE UNCHANGED step
    BY <2>1
  <2>2. ASSUME NEW j \in Jobs, NEW i \in StepIdx, NEW o \in StepStatus,
               step' = [step EXCEPT ![rid[j]][i] = o],
               \/ step[rid[j]][i] = "pending"
               \/ step[rid[j]][i] = "done" /\ o \in {"compensated", "failed"}
        PROVE  Kept
    <3> SUFFICES ASSUME NEW r \in Rotations, NEW k \in StepIdx,
                        step[r][k] # "pending", step'[r][k] # step[r][k]
                 PROVE  step[r][k] = "done" /\ step'[r][k] \in {"compensated", "failed"}
      OBVIOUS
    <3>1. step \in [Rotations -> [StepIdx -> StepStatus]]
      BY DEF IInv, TypeOK, DbOK
    <3>2. rid[j] = r /\ i = k /\ step'[r][k] = o
      BY <2>2, <3>1
    <3>3. QED
      BY <2>2, <3>2
  <2>3. QED
    BY <2>1, <2>2, StepWrites
<1>2. QED
  BY <1>1, Inductive, PTL DEF Spec, OutcomesAreFinal

\* Every write of a status goes past the unique index.
LEMMA StatusRespectsIndex ==
    ASSUME TypeOK, [Next]_vars
    PROVE  \/ UNCHANGED status
           \/ \E r \in Rotations, new \in RotationStatus :
                 ~Clash(r, new) /\ status' = [status EXCEPT ![r] = new]
<1> DEFINE Writes == \E r \in Rotations, new \in RotationStatus :
                        ~Clash(r, new) /\ status' = [status EXCEPT ![r] = new]
<1> HIDE DEF Writes
<1>1. ASSUME NEW j \in Jobs, NEW new \in RotationStatus, NEW next, rid[j] \in Rotations,
             SetStatus(j, new, next)
      PROVE  UNCHANGED status \/ Writes
  BY <1>1 DEF SetStatus, Writes
<1>2. ASSUME NEW j \in Jobs, AdvanceRotation(j)
      PROVE  UNCHANGED status \/ Writes
  <2>1. rid[j] \in Rotations
    <3>1. Holding(j)
      BY <1>2, AdvanceStays
    <3>2. QED
      BY <3>1, Literals DEF Holding, TypeOK, JobsOK
  <2>2. CASE StartStep(j)
    <3>1. RunningStatus(mem[j].idx) \in RotationStatus
      BY Literals DEF TypeOK, Memory
    <3>2. \/ UNCHANGED status
          \/ SetStatus(j, RunningStatus(mem[j].idx), FirstCall(j))
      BY <2>2 DEF StartStep, dbVars
    <3>3. QED
      BY <1>1, <2>1, <3>1, <3>2
  <2>3. CASE WriteExpired(j) \/ WriteAwaiting(j) \/ WriteCompleted(j)
               \/ WriteRollingBack(j) \/ WriteFinal(j)
    <3>1. \E new \in RotationStatus, next \in Pc : SetStatus(j, new, next)
      BY <2>3, Literals DEF WriteExpired, WriteAwaiting, WriteCompleted, WriteRollingBack, WriteFinal
    <3>2. QED
      BY <1>1, <2>1, <3>1
  <2>4. QED
    BY <1>2, <2>2, <2>3
    DEF AdvanceRotation, dbVars, LoadRotation, LoadSteps, Gate, CreateCall, WriteCall,
        VerifyCall, DisableCall, DeleteCall, UndoCall, PersistDone, PersistFailed, PersistUndo
<1>3. ASSUME NEW r \in Rotations, TriggerRotation(r)
      PROVE  Writes
  BY <1>3, Literals DEF TriggerRotation, Writes
<1>4. ASSUME NEW r \in Rotations, RejectWrite(r)
      PROVE  Writes
  BY <1>4, Literals DEF RejectWrite, Writes, Clash, Terminal
<1>5. QED
  BY <1>2, <1>3, <1>4
  DEF Writes, Next, vars, dbVars, JobStep, ApproveRotation, RejectCheck, ConfirmCheck,
      ConfirmWrite, PlanExpires, StartJob, Crash, Interrupt, Redeliver, LockExpires,
      ThreadRuns, Release, Continue

\* One rotation of a secret is active, however many are requested, rejected and
\* driven by jobs at once: no write makes a row active beside another.
THEOREM OneActive == Spec => []OneActiveRotation
<1>1. Init => OneActiveRotation
  BY DEF Init, OneActiveRotation, Active
<1>2. TypeOK /\ OneActiveRotation /\ [Next]_vars => OneActiveRotation'
  <2> SUFFICES ASSUME TypeOK, OneActiveRotation, [Next]_vars
               PROVE  OneActiveRotation'
    OBVIOUS
  <2>1. CASE UNCHANGED status
    BY <2>1 DEF OneActiveRotation, Active
  <2>2. ASSUME NEW r \in Rotations, NEW new \in RotationStatus,
               ~Clash(r, new), status' = [status EXCEPT ![r] = new]
        PROVE  OneActiveRotation'
    <3>1. \A q \in Rotations \ {r} : Active(q)' <=> Active(q)
      BY <2>2 DEF Active, TypeOK, DbOK
    <3>2. Active(r)' => new \notin Terminal
      BY <2>2 DEF Active, TypeOK, DbOK
    <3>3. Active(r)' => \A q \in Rotations \ {r} : SecretOf[q] = SecretOf[r] => ~Active(q)
      BY <2>2, <3>2 DEF Clash
    <3>4. QED
      BY <3>1, <3>3 DEF OneActiveRotation
  <2>3. QED
    BY <2>1, <2>2, StatusRespectsIndex
<1>3. QED
  BY <1>1, <1>2, TypeCorrect, PTL DEF Spec
===============================================================================
