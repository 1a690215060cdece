------------------------------- MODULE Rotation -------------------------------
(***************************************************************************)
(* Rotation of a credential as the deployed processes carry it out: the    *)
(* API handlers that create, approve, confirm and reject a rotation, the   *)
(* arq jobs run_rotation_step, the Redis lock per secret, the engine       *)
(* advance_rotation with its rollback, and the connector calls of the step *)
(* executors.                                                              *)
(*                                                                         *)
(* One action is one database transaction, one read that a later decision  *)
(* uses, one Redis command or one connector call: what happens between two *)
(* of them in the code may interleave with anything.                       *)
(***************************************************************************)
EXTENDS RotationPlan, FiniteSets

CONSTANTS
    Rotations,   \* rows of `rotations` that may be inserted
    Secrets,
    SecretOf,    \* rotations.secret_id
    Jobs,        \* bound: run_rotation_step jobs queued or running at once
    None,
    MaxTries,    \* arq max_tries
    MayFail,     \* the calls that may raise
    MaxFaults    \* bound: crashes, timeouts and shutdowns of the worker

Calls == {"create_credential", "write_new_version", "verify_store",
          "disable_credential", "delete_credential", "enqueue_job"}

ASSUME RotationAssumption ==
    /\ SecretOf \in [Rotations -> Secrets]
    /\ None \notin Rotations
    /\ MaxTries \in Nat \ {0}
    /\ MayFail \subseteq Calls
    /\ MaxFaults \in Nat

VARIABLES
    \* PostgreSQL
    status,      \* rotations.status
    step,        \* rotation_steps.status
    confirm,     \* the steps whose requires_confirmation is still true
    newRef,      \* rotations.new_secret_ref: a key, 0 for NULL
    expired,     \* plan_expires_at has passed
    \* Redis
    lock,        \* lock:rotation:{secret_id}: the rotation_id it holds
    \* cloud provider and secret store
    old,         \* the credential that the revoke step names
    issued,      \* how many keys have been created for the rotation
    live,        \* the keys created for it and not deleted
    store,       \* the key whose value the rotation's store path holds, else 0
    \* API requests past their status check
    rejecting,
    confirming,
    \* worker
    pc,          \* where each job is
    rid,         \* the rotation of each job
    tries,       \* arq's job_try
    mem,         \* the local variables of advance_rotation
    threads,     \* executor threads whose job has gone
    faults

dbVars     == <<status, step, confirm, newRef, expired>>
cloudVars  == <<old, issued, live, store>>
apiVars    == <<rejecting, confirming>>
workerVars == <<pc, rid, tries, mem, threads, faults>>
vars       == <<dbVars, lock, cloudVars, apiVars, workerVars>>

\* Places where a job waits for a connector call running in an executor thread.
CallPcs == {"create", "write", "distribute", "verify", "disable", "delete", "undo"}

\* Places inside `async with lock`.
HoldPcs == CallPcs \cup
    {"load", "expire", "steps", "await", "gate", "start", "done", "complete",
     "failed", "rollback", "compensated", "uncompensated", "final",
     "release", "continue"}

\* "enqueue": the lock is released, the next job is not yet in the queue.
RunPcs == HoldPcs \cup {"enqueue"}

Pc == RunPcs \cup {"idle", "queued", "crashed"}

Memory == [status : RotationStatus,              \* rotation["status"]
           ref    : Nat,                         \* rotation["new_secret_ref"]
           steps  : [StepIdx -> StepStatus],     \* the steps as loaded
           idx    : StepIdx,                     \* next_step["idx"]
           key    : Nat,                         \* result.new_secret_ref
           todo   : SUBSET StepIdx,              \* done steps to compensate
           bad    : BOOLEAN]                     \* compensation_failures

NoMemory == [status |-> "absent", ref |-> 0,
             steps |-> [i \in StepIdx |-> "pending"],
             idx |-> Provision, key |-> 0, todo |-> {}, bad |-> FALSE]

Threads == [rid : Rotations, op : CallPcs, key : Nat]

Holding(j) == pc[j] \in HoldPcs

Active(r) == status[r] \notin Terminal \cup {"absent"}

\* Mutant: the schema has no unique index.
ClashNever(r, new) == FALSE

\* The unique index one_active_rotation refuses to make r active (again) while
\* another rotation of its secret is.
Clash(r, new) ==
    /\ new \notin Terminal
    /\ \E q \in Rotations \ {r} : SecretOf[q] = SecretOf[r] /\ Active(q)

Init ==
    /\ status = [r \in Rotations |-> "absent"]
    /\ step = [r \in Rotations |-> [i \in StepIdx |-> "pending"]]
    /\ confirm = [r \in Rotations |-> {}]
    /\ newRef = [r \in Rotations |-> 0]
    /\ expired = [r \in Rotations |-> FALSE]
    /\ lock = [s \in Secrets |-> None]
    /\ old = [r \in Rotations |-> "active"]
    /\ issued = [r \in Rotations |-> 0]
    /\ live = [r \in Rotations |-> {}]
    /\ store = [r \in Rotations |-> 0]
    /\ rejecting = [r \in Rotations |-> FALSE]
    /\ confirming = [r \in Rotations |-> {}]
    /\ pc = [j \in Jobs |-> "idle"]
    /\ rid = [j \in Jobs |-> None]
    /\ tries = [j \in Jobs |-> 0]
    /\ mem = [j \in Jobs |-> NoMemory]
    /\ threads = {}
    /\ faults = 0

-------------------------------------------------------------------------------
(***************************************************************************)
(* The API.                                                                *)
(***************************************************************************)

\* enqueue_job swallows every error, so the job may also never be queued.
EnqueueFor(r) ==
    \/ \E j \in Jobs :
        /\ pc[j] = "idle"
        /\ pc' = [pc EXCEPT ![j] = "queued"]
        /\ rid' = [rid EXCEPT ![j] = r]
        /\ tries' = [tries EXCEPT ![j] = 1]
    \/ /\ "enqueue_job" \in MayFail
       /\ UNCHANGED <<pc, rid, tries>>

\* POST /secrets/{id}/rotate.  The loser of a race for the index inserts no row
\* (ON CONFLICT DO NOTHING), and its steps then violate their foreign key.
TriggerRotation(r) ==
    /\ status[r] = "absent"
    /\ ~Clash(r, "pending_approval")
    /\ status' = [status EXCEPT ![r] = "pending_approval"]
    /\ step' = [step EXCEPT ![r] = [i \in StepIdx |-> "pending"]]
    /\ confirm' = [confirm EXCEPT ![r] = Gated]
    /\ UNCHANGED <<newRef, expired, lock, cloudVars, apiVars, workerVars>>

\* POST /rotations/{id}/approve checks the status and writes nothing but an
\* audit row: until a job gets on, the rotation can be approved again.
ApproveRotation(r) ==
    /\ status[r] = "pending_approval"
    /\ EnqueueFor(r)
    /\ UNCHANGED <<dbVars, lock, cloudVars, apiVars, mem, threads, faults>>

\* POST /rotations/{id}/reject: the status is read in one statement ...
RejectCheck(r) ==
    /\ status[r] \in {"pending_approval", "awaiting_confirmation"}
    /\ ~rejecting[r]
    /\ rejecting' = [rejecting EXCEPT ![r] = TRUE]
    /\ UNCHANGED <<dbVars, lock, cloudVars, confirming, workerVars>>

\* ... and overwritten by another, whatever it is by then.
RejectWrite(r) ==
    /\ rejecting[r]
    /\ rejecting' = [rejecting EXCEPT ![r] = FALSE]
    /\ status' = [status EXCEPT ![r] = "rejected"]
    /\ UNCHANGED <<step, confirm, newRef, expired, lock, cloudVars, confirming,
                   workerVars>>

\* POST /rotations/{id}/steps/{step}/confirm accepts any pending step.
\* Bound: one confirmation of a rotation at a time is past its check.
ConfirmCheck(r, i) ==
    /\ status[r] = "awaiting_confirmation"
    /\ step[r][i] = "pending"
    /\ confirming[r] = {}
    /\ confirming' = [confirming EXCEPT ![r] = {i}]
    /\ UNCHANGED <<dbVars, lock, cloudVars, rejecting, workerVars>>

ConfirmWrite(r, i) ==
    /\ i \in confirming[r]
    /\ confirming' = [confirming EXCEPT ![r] = {}]
    /\ confirm' = [confirm EXCEPT ![r] = @ \ {i}]
    /\ EnqueueFor(r)
    /\ UNCHANGED <<status, step, newRef, expired, lock, cloudVars, rejecting,
                   mem, threads, faults>>

\* Time passes.  The engine looks at the TTL only in pending_approval.
PlanExpires(r) ==
    /\ status[r] = "pending_approval"
    /\ ~expired[r]
    /\ expired' = [expired EXCEPT ![r] = TRUE]
    /\ UNCHANGED <<status, step, confirm, newRef, lock, cloudVars, apiVars,
                   workerVars>>

-------------------------------------------------------------------------------
(***************************************************************************)
(* The job: the lock, and what the engine reads.                           *)
(***************************************************************************)

Goto(j, place) == pc' = [pc EXCEPT ![j] = place]

\* A job that has ended gives its slot back.
Leave(j) ==
    /\ Goto(j, "idle")
    /\ rid' = [rid EXCEPT ![j] = None]
    /\ tries' = [tries EXCEPT ![j] = 0]

\* Mutant: SET without NX.
StartJobNoNX(j) ==
    /\ pc[j] = "queued"
    /\ lock' = [lock EXCEPT ![SecretOf[rid[j]]] = rid[j]]
    /\ Goto(j, "load")
    /\ UNCHANGED <<dbVars, cloudVars, apiVars, rid, tries, mem, threads, faults>>

\* SET NX.  A job that finds the lock held ends there; nothing queues it again.
StartJob(j) ==
    LET r == rid[j]
        s == SecretOf[r]
    IN  /\ pc[j] = "queued"
        /\ \/ /\ lock[s] = None
              /\ lock' = [lock EXCEPT ![s] = r]
              /\ Goto(j, "load")
              /\ UNCHANGED <<rid, tries>>
           \/ /\ lock[s] # None
              /\ Leave(j)
              /\ UNCHANGED lock
        /\ UNCHANGED <<dbVars, cloudVars, apiVars, mem, threads, faults>>

\* _load_rotation, and the guards on the row just read.
LoadRotation(j) ==
    LET r == rid[j]
    IN  /\ pc[j] = "load"
        /\ mem' = [mem EXCEPT ![j].status = status[r], ![j].ref = newRef[r]]
        /\ Goto(j, CASE status[r] \in Terminal -> "release"
                     [] status[r] = "pending_approval" /\ expired[r] -> "expire"
                     [] OTHER -> "steps")
        /\ UNCHANGED <<dbVars, lock, cloudVars, apiVars, rid, tries, threads, faults>>

\* requires_confirmation stops the engine unless the rotation, as it was read,
\* already awaits a confirmation.
MustConfirm(j, i) ==
    i \in confirm[rid[j]] /\ mem[j].status # "awaiting_confirmation"

\* _load_steps, _find_next_step and the confirmation check on what was read.
LoadSteps(j) ==
    LET ss == step[rid[j]]
    IN  /\ pc[j] = "steps"
        /\ \/ \E i \in StepIdx :
                 /\ IsNext(i, ss)
                 /\ mem' = [mem EXCEPT ![j].steps = ss, ![j].idx = i]
                 /\ Goto(j, CASE MustConfirm(j, i) -> "await"
                              [] ~MustConfirm(j, i) /\ i = Revoke -> "gate"
                              [] OTHER -> "start")
           \/ /\ Pending(ss) = {}
              /\ mem' = [mem EXCEPT ![j].steps = ss]
              /\ Goto(j, IF Done(ss) = StepIdx THEN "complete" ELSE "release")
        /\ UNCHANGED <<dbVars, lock, cloudVars, apiVars, rid, tries, threads, faults>>

\* Mutant: the gate asks that no verify step is still pending.
GatePending(j) ==
    /\ pc[j] = "gate"
    /\ Goto(j, IF step[rid[j]][Verify] # "pending" THEN "start" ELSE "await")
    /\ UNCHANGED <<dbVars, lock, cloudVars, apiVars, rid, tries, mem, threads, faults>>

\* verify_gate counts the verify steps that are not done.  coverage_gate is
\* called with revoke_confirmed=True and never blocks.
Gate(j) ==
    /\ pc[j] = "gate"
    /\ Goto(j, IF step[rid[j]][Verify] = "done" THEN "start" ELSE "await")
    /\ UNCHANGED <<dbVars, lock, cloudVars, apiVars, rid, tries, mem, threads, faults>>

-------------------------------------------------------------------------------
(***************************************************************************)
(* What the engine writes.                                                 *)
(***************************************************************************)

\* _set_rotation_status overwrites the status, whatever it is by then.  If the
\* unique index refuses, the exception ends the job (the lock is released).
SetStatus(j, new, next) ==
    /\ IF Clash(rid[j], new)
       THEN /\ Goto(j, "release")
            /\ UNCHANGED status
       ELSE /\ Goto(j, next)
            /\ status' = [status EXCEPT ![rid[j]] = new]
    /\ UNCHANGED <<newRef, confirm, expired, lock, cloudVars, apiVars, rid, tries,
                   threads, faults>>

WriteExpired(j) ==
    /\ pc[j] = "expire"
    /\ SetStatus(j, "needs_replan", "release")
    /\ UNCHANGED <<step, mem>>

WriteAwaiting(j) ==
    /\ pc[j] = "await"
    /\ SetStatus(j, "awaiting_confirmation", "release")
    /\ UNCHANGED <<step, mem>>

\* The first connector call of each step.  The store is written or read only
\* when the rotation, as it was read, has a new_secret_ref.
FirstCall(j) ==
    CASE mem[j].idx = Provision -> "create"
      [] mem[j].idx = Distribute -> IF mem[j].ref # 0 THEN "distribute" ELSE "done"
      [] mem[j].idx = Verify -> IF mem[j].ref # 0 THEN "verify" ELSE "done"
      [] mem[j].idx = Revoke -> "disable"

\* The running status is committed before the step runs, unless it is already
\* the one that was read.
StartStep(j) ==
    LET running == RunningStatus(mem[j].idx)
    IN  /\ pc[j] = "start"
        /\ IF mem[j].status = running
           THEN /\ Goto(j, FirstCall(j))
                /\ UNCHANGED <<dbVars, lock, cloudVars, apiVars, rid, tries,
                               threads, faults>>
           ELSE SetStatus(j, running, FirstCall(j)) /\ UNCHANGED step
        /\ UNCHANGED mem

\* Mutant: new_secret_ref is not written.
PersistDoneNoRef(j) ==
    /\ pc[j] = "done"
    /\ step' = [step EXCEPT ![rid[j]][mem[j].idx] = "done"]
    /\ Goto(j, IF \E k \in Pending(mem[j].steps) : k > mem[j].idx
               THEN "continue" ELSE "complete")
    /\ UNCHANGED <<status, newRef, confirm, expired, lock, cloudVars, apiVars, rid,
                   tries, mem, threads, faults>>

\* Mutant: an off-by-one in the search for remaining steps.
PersistDoneOffByOne(j) ==
    LET r == rid[j]
        i == mem[j].idx
    IN  /\ pc[j] = "done"
        /\ step' = [step EXCEPT ![r][i] = "done"]
        /\ newRef' = [newRef EXCEPT ![r] = IF mem[j].key # 0 THEN mem[j].key ELSE @]
        /\ Goto(j, IF \E k \in Pending(mem[j].steps) : k > i + 1
                   THEN "continue" ELSE "complete")
        /\ UNCHANGED <<status, confirm, expired, lock, cloudVars, apiVars, rid, tries,
                       mem, threads, faults>>

\* The step's outcome and the new_secret_ref are committed together.  Whether a
\* step remains is decided on the steps as they were loaded.
PersistDone(j) ==
    LET r == rid[j]
        i == mem[j].idx
    IN  /\ pc[j] = "done"
        /\ step' = [step EXCEPT ![r][i] = "done"]
        /\ newRef' = [newRef EXCEPT ![r] = IF mem[j].key # 0 THEN mem[j].key ELSE @]
        /\ Goto(j, IF \E k \in Pending(mem[j].steps) : k > i
                   THEN "continue" ELSE "complete")
        /\ UNCHANGED <<status, confirm, expired, lock, cloudVars, apiVars, rid, tries,
                       mem, threads, faults>>

WriteCompleted(j) ==
    /\ pc[j] = "complete"
    /\ SetStatus(j, "completed", "release")
    /\ UNCHANGED <<step, mem>>

PersistFailed(j) ==
    /\ pc[j] = "failed"
    /\ step' = [step EXCEPT ![rid[j]][mem[j].idx] = "failed"]
    /\ Goto(j, "rollback")
    /\ UNCHANGED <<status, confirm, newRef, expired, lock, cloudVars, apiVars, rid,
                   tries, mem, threads, faults>>

\* Mutant: the first step is not compensated.
WriteRollingBackSkipsFirst(j) ==
    LET todo == Done(mem[j].steps) \ {Provision}
    IN  /\ pc[j] = "rollback"
        /\ SetStatus(j, "rolling_back", IF todo = {} THEN "final" ELSE "undo")
        /\ mem' = [mem EXCEPT ![j].todo = todo]
        /\ UNCHANGED step

\* _rollback: the steps to compensate are those that were done when loaded.
WriteRollingBack(j) ==
    LET todo == Done(mem[j].steps)
    IN  /\ pc[j] = "rollback"
        /\ SetStatus(j, "rolling_back", IF todo = {} THEN "final" ELSE "undo")
        /\ mem' = [mem EXCEPT ![j].todo = todo]
        /\ UNCHANGED step

\* The outcome of one compensation, committed on its own.
PersistUndo(j) ==
    /\ pc[j] \in {"compensated", "uncompensated"}
    /\ \E i \in StepIdx :
        /\ IsLast(i, mem[j].todo)
        /\ step' = [step EXCEPT ![rid[j]][i] =
                       IF pc[j] = "compensated" THEN "compensated" ELSE "failed"]
        /\ mem' = [mem EXCEPT ![j].todo = @ \ {i},
                              ![j].bad  = @ \/ pc[j] = "uncompensated"]
        /\ Goto(j, IF mem[j].todo = {i} THEN "final" ELSE "undo")
    /\ UNCHANGED <<status, confirm, newRef, expired, lock, cloudVars, apiVars, rid,
                   tries, threads, faults>>

WriteFinal(j) ==
    /\ pc[j] = "final"
    /\ SetStatus(j, IF mem[j].bad THEN "rollback_failed" ELSE "rolled_back", "release")
    /\ UNCHANGED <<step, mem>>

-------------------------------------------------------------------------------
(***************************************************************************)
(* The connector calls, made in an executor thread.  Each either takes     *)
(* effect or raises; execute_step and compensate_step turn an exception    *)
(* into a failed result.                                                   *)
(***************************************************************************)

CreateKey(r) ==
    /\ issued' = [issued EXCEPT ![r] = @ + 1]
    /\ live' = [live EXCEPT ![r] = @ \cup {issued[r] + 1}]
    /\ UNCHANGED <<old, store>>

\* provision writes the new key; distribute overwrites the same path with the
\* text "***distributed***".
WriteStore(r, k) ==
    /\ store' = [store EXCEPT ![r] = k]
    /\ UNCHANGED <<old, issued, live>>

DisableOld(r) ==
    /\ old' = [old EXCEPT ![r] = IF @ = "active" THEN "disabled" ELSE @]
    /\ UNCHANGED <<issued, live, store>>

DeleteOld(r) ==
    /\ old' = [old EXCEPT ![r] = "deleted"]
    /\ UNCHANGED <<issued, live, store>>

DeleteNew(r, k) ==
    /\ live' = [live EXCEPT ![r] = @ \ {k}]
    /\ UNCHANGED <<old, issued, store>>

\* cloud.create_credential: the material stays in memory until the store has it.
CreateCall(j) ==
    /\ pc[j] = "create"
    /\ \/ /\ CreateKey(rid[j])
          /\ mem' = [mem EXCEPT ![j].key = issued'[rid[j]]]
          /\ Goto(j, "write")
       \/ /\ "create_credential" \in MayFail
          /\ Goto(j, "failed")
          /\ UNCHANGED <<cloudVars, mem>>
    /\ UNCHANGED <<dbVars, lock, apiVars, rid, tries, threads, faults>>

\* store.write_new_version, in provision and in distribute.  If it raises in
\* provision, no new_secret_ref is returned.
WriteCall(j) ==
    /\ pc[j] \in {"write", "distribute"}
    /\ \/ /\ WriteStore(rid[j], IF pc[j] = "write" THEN mem[j].key ELSE 0)
          /\ Goto(j, "done")
       \/ /\ "write_new_version" \in MayFail
          /\ Goto(j, "failed")
          /\ UNCHANGED cloudVars
    /\ UNCHANGED <<dbVars, lock, apiVars, rid, tries, mem, threads, faults>>

\* store.verify_store: raises, or reports no success.
VerifyCall(j) ==
    /\ pc[j] = "verify"
    /\ \/ Goto(j, "done")
       \/ /\ "verify_store" \in MayFail
          /\ Goto(j, "failed")
    /\ UNCHANGED <<dbVars, lock, cloudVars, apiVars, rid, tries, mem, threads, faults>>

\* cloud.disable_credential, then cloud.delete_credential, of the old key.
DisableCall(j) ==
    /\ pc[j] = "disable"
    /\ \/ /\ DisableOld(rid[j])
          /\ Goto(j, "delete")
       \/ /\ "disable_credential" \in MayFail
          /\ Goto(j, "failed")
          /\ UNCHANGED cloudVars
    /\ UNCHANGED <<dbVars, lock, apiVars, rid, tries, mem, threads, faults>>

DeleteCall(j) ==
    /\ pc[j] = "delete"
    /\ \/ /\ DeleteOld(rid[j])
          /\ Goto(j, "done")
       \/ /\ "delete_credential" \in MayFail
          /\ Goto(j, "failed")
          /\ UNCHANGED cloudVars
    /\ UNCHANGED <<dbVars, lock, apiVars, rid, tries, mem, threads, faults>>

\* compensate_step: only provision has anything to undo, and only if the
\* rotation, as it was read, has a new_secret_ref.
UndoCall(j) ==
    LET undoesKey == IsLast(Provision, mem[j].todo) /\ mem[j].ref # 0
    IN  /\ pc[j] = "undo"
        /\ \/ /\ IF undoesKey THEN DeleteNew(rid[j], mem[j].ref)
                               ELSE UNCHANGED cloudVars
              /\ Goto(j, "compensated")
           \/ /\ undoesKey
              /\ "delete_credential" \in MayFail
              /\ Goto(j, "uncompensated")
              /\ UNCHANGED cloudVars
        /\ UNCHANGED <<dbVars, lock, apiVars, rid, tries, mem, threads, faults>>

-------------------------------------------------------------------------------
(***************************************************************************)
(* The end of a job.                                                       *)
(***************************************************************************)

\* Compare-and-delete on the rotation id.
Unlock(r) ==
    lock' = [lock EXCEPT ![SecretOf[r]] = IF @ = r THEN None ELSE @]

Release(j) ==
    /\ \/ /\ pc[j] = "release"
          /\ Leave(j)
       \/ /\ pc[j] = "continue"
          /\ Goto(j, "enqueue")
          /\ UNCHANGED <<rid, tries>>
    /\ Unlock(rid[j])
    /\ mem' = [mem EXCEPT ![j] = NoMemory]
    /\ UNCHANGED <<dbVars, cloudVars, apiVars, threads, faults>>

\* Mutant: the job does not queue its successor.
ContinueNot(j) ==
    /\ pc[j] = "enqueue"
    /\ Leave(j)
    /\ UNCHANGED <<dbVars, lock, cloudVars, apiVars, mem, threads, faults>>

\* The next job of the rotation; it takes the slot of the one that queues it.
Continue(j) ==
    /\ pc[j] = "enqueue"
    /\ Goto(j, "queued")
    /\ tries' = [tries EXCEPT ![j] = 1]
    /\ UNCHANGED <<dbVars, lock, cloudVars, apiVars, rid, mem, threads, faults>>

-------------------------------------------------------------------------------
(***************************************************************************)
(* Faults of the worker.                                                   *)
(***************************************************************************)

Fault ==
    /\ faults < MaxFaults
    /\ faults' = faults + 1

\* arq runs a job again while its tries last.
RunAgain(j) ==
    IF tries[j] < MaxTries
    THEN /\ Goto(j, "queued")
         /\ tries' = [tries EXCEPT ![j] = @ + 1]
         /\ UNCHANGED rid
    ELSE Leave(j)

\* The worker process dies: the lock stays until its TTL.
Crash(j) ==
    /\ Fault
    /\ pc[j] \in RunPcs
    /\ Goto(j, "crashed")
    /\ mem' = [mem EXCEPT ![j] = NoMemory]
    /\ UNCHANGED <<dbVars, lock, cloudVars, apiVars, rid, tries, threads>>

\* The job is cancelled inside `async with lock`: by job_timeout or a database
\* error (it fails for good) or by a shutdown (arq runs it again).  The lock is
\* released, and a connector call goes on in its thread.
Interrupt(j) ==
    /\ Fault
    /\ Holding(j)
    /\ Unlock(rid[j])
    /\ Leave(j) \/ RunAgain(j)
    /\ mem' = [mem EXCEPT ![j] = NoMemory]
    /\ IF pc[j] \in CallPcs
       THEN threads' = threads \cup
              {[rid |-> rid[j], op |-> pc[j],
                key |-> CASE pc[j] = "write" -> mem[j].key
                          [] pc[j] = "undo" /\ IsLast(Provision, mem[j].todo) -> mem[j].ref
                          [] OTHER -> 0]}
       ELSE UNCHANGED threads
    /\ UNCHANGED <<dbVars, cloudVars, apiVars>>

\* The lock that a dead job has left behind.
Orphaned(s) ==
    /\ lock[s] # None
    /\ \A j \in Jobs : Holding(j) => SecretOf[rid[j]] # s

\* Mutant: a TTL shorter than job_timeout.
LockExpiresEarly(s) ==
    /\ lock[s] # None
    /\ lock' = [lock EXCEPT ![s] = None]
    /\ UNCHANGED <<dbVars, cloudVars, apiVars, workerVars>>

\* Mutant: SET without PX.
LockExpiresNever(s) ==
    /\ Orphaned(s)
    /\ FALSE
    /\ UNCHANGED vars

\* LOCK_TTL_MS is arq's job_timeout and starts later, so it outlives every job
\* that is still running.
LockExpires(s) ==
    /\ Orphaned(s)
    /\ lock' = [lock EXCEPT ![s] = None]
    /\ UNCHANGED <<dbVars, cloudVars, apiVars, workerVars>>

\* arq takes a dead job up again 10 s after its job_timeout, and then its lock
\* has expired.
Redeliver(j) ==
    /\ pc[j] = "crashed"
    /\ ~Orphaned(SecretOf[rid[j]])
    /\ RunAgain(j)
    /\ UNCHANGED <<dbVars, lock, cloudVars, apiVars, mem, threads, faults>>

CallAt(op) ==
    CASE op = "create" -> "create_credential"
      [] op \in {"write", "distribute"} -> "write_new_version"
      [] op = "verify" -> "verify_store"
      [] op = "disable" -> "disable_credential"
      [] op \in {"delete", "undo"} -> "delete_credential"

\* What the executor thread of an interrupted job still does.  Nobody reads
\* its result.
ThreadRuns(t) ==
    /\ \/ /\ t.op = "create"
          /\ CreateKey(t.rid)
          /\ threads' = (threads \ {t}) \cup
                {[t EXCEPT !.op = "write", !.key = issued'[t.rid]]}
       \/ /\ t.op \in {"write", "distribute"}
          /\ WriteStore(t.rid, t.key)
          /\ threads' = threads \ {t}
       \/ /\ t.op = "disable"
          /\ DisableOld(t.rid)
          /\ threads' = (threads \ {t}) \cup {[t EXCEPT !.op = "delete"]}
       \/ /\ t.op = "delete"
          /\ DeleteOld(t.rid)
          /\ threads' = threads \ {t}
       \/ /\ t.op = "undo"
          /\ DeleteNew(t.rid, t.key)
          /\ threads' = threads \ {t}
       \/ /\ t.op = "verify" \/ CallAt(t.op) \in MayFail
          /\ threads' = threads \ {t}
          /\ UNCHANGED cloudVars
    /\ UNCHANGED <<dbVars, lock, apiVars, pc, rid, tries, mem, faults>>

-------------------------------------------------------------------------------

\* One step of advance_rotation, inside the lock.
AdvanceRotation(j) ==
    \/ LoadRotation(j) \/ LoadSteps(j) \/ Gate(j)
    \/ WriteExpired(j) \/ WriteAwaiting(j) \/ StartStep(j)
    \/ CreateCall(j) \/ WriteCall(j) \/ VerifyCall(j)
    \/ DisableCall(j) \/ DeleteCall(j) \/ UndoCall(j)
    \/ PersistDone(j) \/ WriteCompleted(j)
    \/ PersistFailed(j) \/ WriteRollingBack(j) \/ PersistUndo(j) \/ WriteFinal(j)

\* One step of run_rotation_step once it has the lock.
JobStep(j) == AdvanceRotation(j) \/ Release(j) \/ Continue(j)

Next ==
    \/ \E r \in Rotations :
        \/ TriggerRotation(r) \/ ApproveRotation(r)
        \/ RejectCheck(r) \/ RejectWrite(r)
        \/ \E i \in StepIdx : ConfirmCheck(r, i) \/ ConfirmWrite(r, i)
        \/ PlanExpires(r)
    \/ \E j \in Jobs :
        StartJob(j) \/ JobStep(j) \/ Crash(j) \/ Interrupt(j) \/ Redeliver(j)
    \/ \E s \in Secrets : LockExpires(s)
    \/ \E t \in threads : ThreadRuns(t)

Spec == Init /\ [][Next]_vars

\* The event loop runs every queued job and every coroutine to its end, HTTP
\* handlers finish, locks expire and arq redelivers.  People need not act.
Fairness ==
    /\ \A j \in Jobs : WF_vars(StartJob(j)) /\ WF_vars(JobStep(j))
                        /\ WF_vars(Redeliver(j))
    /\ \A s \in Secrets : WF_vars(LockExpires(s))
    /\ \A r \in Rotations :
        /\ WF_vars(RejectWrite(r))
        /\ \A i \in StepIdx : WF_vars(ConfirmWrite(r, i))

FairSpec == Spec /\ Fairness

-------------------------------------------------------------------------------
(***************************************************************************)
(* Properties.                                                             *)
(***************************************************************************)

DbOK ==
    /\ status \in [Rotations -> RotationStatus]
    /\ step \in [Rotations -> [StepIdx -> StepStatus]]
    /\ confirm \in [Rotations -> SUBSET StepIdx]
    /\ newRef \in [Rotations -> Nat]
    /\ expired \in [Rotations -> BOOLEAN]

CloudOK ==
    /\ old \in [Rotations -> {"active", "disabled", "deleted"}]
    /\ issued \in [Rotations -> Nat]
    /\ live \in [Rotations -> SUBSET Nat]
    /\ store \in [Rotations -> Nat]

ApiOK ==
    /\ rejecting \in [Rotations -> BOOLEAN]
    /\ confirming \in [Rotations -> SUBSET StepIdx]

\* Every job that is not idle has a rotation.
JobsOK ==
    /\ pc \in [Jobs -> Pc]
    /\ rid \in [Jobs -> Rotations \cup {None}]
    /\ \A j \in Jobs : pc[j] # "idle" => rid[j] \in Rotations
    /\ tries \in [Jobs -> Nat]

\* Every variable stays within its type, so the program never writes a status
\* that the enums do not have and no live job is without its rotation.
TypeOK ==
    /\ DbOK
    /\ lock \in [Secrets -> Rotations \cup {None}]
    /\ CloudOK
    /\ ApiOK
    /\ JobsOK
    /\ mem \in [Jobs -> Memory]
    /\ threads \subseteq Threads
    /\ faults \in Nat

\* The jobs and the detached threads that are at the point of disabling or
\* deleting the old credential of r.
Revoking(r) ==
    \/ \E j \in Jobs : rid[j] = r /\ pc[j] \in {"disable", "delete"}
    \/ \E t \in threads : t.rid = r /\ t.op \in {"disable", "delete"}

\* At most one job runs inside `async with RotationLock` for a secret, and the
\* lock then names its rotation (lock.py: "prevents two workers running the
\* same rotation concurrently").
LockExclusion ==
    /\ \A j, k \in Jobs :
        Holding(j) /\ Holding(k) /\ SecretOf[rid[j]] = SecretOf[rid[k]] => j = k
    /\ \A j \in Jobs : Holding(j) => lock[SecretOf[rid[j]]] = rid[j]

\* I1: the old credential is touched, or about to be, only for a rotation whose
\* verify step has succeeded (and was at most compensated since), whatever
\* duplicate jobs, crashes, timeouts and orphaned threads have done.
VerifiedBeforeRevoke ==
    \A r \in Rotations :
        old[r] # "active" \/ Revoking(r) => step[r][Verify] \in {"done", "compensated"}

\* Consumers are never locked out: once the old credential is no longer
\* active, the recorded new one exists.
NoLockout ==
    \A r \in Rotations : old[r] # "active" => newRef[r] \in live[r]

\* Duplicate approvals, confirmations and jobs create one key per rotation.
ProvisionOnce == \A r \in Rotations : issued[r] <= 1

\* A rotation shown as rolled back has its old credential valid; the key it
\* recorded is deleted, and no step is left done.
RolledBackIsClean ==
    \A r \in Rotations :
        status[r] = "rolled_back" =>
            old[r] = "active" /\ newRef[r] \notin live[r] /\ Done(step[r]) = {}

\* A rotation shown as completed has run every step, and exchanged the keys.
CompletedIsComplete ==
    \A r \in Rotations :
        status[r] = "completed" =>
            /\ Done(step[r]) = StepIdx
            /\ old[r] = "deleted"
            /\ newRef[r] \in live[r]

\* I5: the recorded outcome of a step is final, but for the compensation of a
\* done one; a stale job never writes over another's outcome.
OutcomesAreFinal ==
    [][\A r \in Rotations, i \in StepIdx :
        step[r][i] # "pending" /\ step'[r][i] # step[r][i] =>
            step[r][i] = "done" /\ step'[r][i] \in {"compensated", "failed"}]_vars

\* A running rotation comes to a halt where a person can act on it or see how
\* it ended, whichever of its duplicate jobs is dropped at the lock or redelivered
\* after a crash.  Only when a fault has taken the last job may it stay as it is.
RunningEnds ==
    \A r \in Rotations :
        status[r] \in Running \cup {"rolling_back"} ~>
            \/ status[r] \in Terminal \cup {"awaiting_confirmation"}
            \/ faults > 0 /\ \A j \in Jobs : rid[j] # r

\* Nobody waits for a lock for ever: it is released, or it expires.
LockIsFreed == \A s \in Secrets : lock[s] # None ~> lock[s] = None

\* At most one rotation of a secret is not terminal: late writes of a status
\* cannot bring a second one back to life.
OneActiveRotation ==
    \A q, r \in Rotations :
        Active(q) /\ Active(r) /\ SecretOf[q] = SecretOf[r] => q = r

-------------------------------------------------------------------------------
(***************************************************************************)
(* The inductive invariant behind LockExclusion, VerifiedBeforeRevoke and  *)
(* OutcomesAreFinal.                                                       *)
(***************************************************************************)

\* A row that is not inserted has no job, no request, no thread, no history.
AbsentInv ==
    \A r \in Rotations : status[r] = "absent" =>
        /\ Pending(step[r]) = StepIdx
        /\ old[r] = "active"
        /\ confirming[r] = {} /\ ~rejecting[r]
        /\ \A j \in Jobs : rid[j] # r
        /\ \A t \in threads : t.rid # r

\* From the choice of the step until its outcome is written.
StepPcs == {"gate", "start", "create", "write", "distribute", "verify", "disable",
            "delete", "done", "failed"}

\* What a job inside the lock may take for granted of its rotation's steps,
\* because no other job can write them.
JobInv(j) ==
    LET ss == step[rid[j]]
        m  == mem[j]
    IN  /\ pc[j] \in StepPcs =>
             m.idx \in Pending(ss) /\ Done(m.steps) \subseteq Done(ss)
        /\ pc[j] \in {"start", "disable", "delete"} /\ m.idx = Revoke =>
             Verify \in Done(ss)
        /\ pc[j] \in {"disable", "delete"} => m.idx = Revoke
        /\ pc[j] = "rollback" => Done(m.steps) \subseteq Done(ss)
        /\ pc[j] \in {"undo", "compensated", "uncompensated"} =>
             m.todo \subseteq Done(ss)
        /\ pc[j] = "uncompensated" => IsLast(Provision, m.todo)

IInv ==
    /\ TypeOK
    /\ LockExclusion
    /\ AbsentInv
    /\ \A j \in Jobs : Holding(j) => JobInv(j)
    /\ VerifiedBeforeRevoke

-------------------------------------------------------------------------------
(***************************************************************************)
(* What the sources claim and the code does not keep.                      *)
(***************************************************************************)

\* I6 (engine.py): "step with requires_confirmation waits for API confirm".
RevokeWasConfirmed ==
    \A r \in Rotations : old[r] # "active" => Revoke \notin confirm[r]

\* enums.py on rolled_back: "successfully rolled back; old secret still valid".
RolledBackKeepsOld ==
    \A r \in Rotations : status[r] = "rolled_back" => old[r] = "active"

\* engine.py on terminal statuses: "no further advance possible".
TerminalIsFinal ==
    [][\A r \in Rotations : status[r] \in Terminal => status'[r] = status[r]]_vars

\* confirm_step: "The engine will then proceed past the confirmed step on its
\* next run."  A recorded confirmation is followed by that run, unless the
\* rotation is rejected.
ConfirmedStepProceeds ==
    \A r \in Rotations, i \in Gated :
        /\ status[r] = "awaiting_confirmation"
        /\ IsNext(i, step[r])
        /\ i \notin confirm[r]
        ~> step[r][i] # "pending" \/ status[r] \in Terminal
===============================================================================
