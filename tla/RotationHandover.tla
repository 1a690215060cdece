---------------------------- MODULE RotationHandover ----------------------------
(***************************************************************************)
(* Rotation implements Handover: what the consumers of a secret may use is *)
(* read off the provider's keys and the recorded new_secret_ref.           *)
(***************************************************************************)
EXTENDS Rotation

\* A consumer knows the old credential and the one that is recorded.
ValidFor(r) == (IF old[r] = "active" THEN {"old"} ELSE {}) \cup
               (IF newRef[r] \in live[r] THEN {"new"} ELSE {})

\* One of them was there and has gone.
SettledFor(r) == old[r] # "active" \/ (newRef[r] # 0 /\ newRef[r] \notin live[r])

Promise == INSTANCE Handover WITH
    valid   <- [r \in Rotations |-> ValidFor(r)],
    settled <- [r \in Rotations |-> SettledFor(r)]

\* However jobs, rejections and failing calls interleave, the credentials
\* change hands as Handover promises: the new one beside the old one, then one
\* of them withdrawn, once, and never the other too (gate.py and engine.py:
\* verify before revoke, compensate on failure).
KeepsPromise == Promise!Spec

-------------------------------------------------------------------------------
(***************************************************************************)
(* The inductive invariant behind KeepsPromise, NoLockout, ProvisionOnce,  *)
(* RolledBackIsClean and CompletedIsComplete.                              *)
(***************************************************************************)

\* No job is killed or cancelled.
Uninterrupted == MaxFaults = 0

\* A key that is to be deleted can be deleted.
Deletes == "delete_credential" \notin MayFail

\* A job that goes on with a rotation, and one that rolls it back.
WorkPcs == {"expire", "steps", "await", "complete"} \cup StepPcs
CompensatePcs == {"undo", "compensated", "uncompensated"}
UndoPcs == {"rollback", "final"} \cup CompensatePcs

\* Where a job has no key of its own, and where it relies on the reference that
\* it has read.
KeylessPcs == {"load", "expire", "steps", "await", "gate", "start", "create", "distribute",
               "verify", "disable", "delete"}
RefPcs == {"steps", "await", "rollback"} \cup StepPcs \cup CompensatePcs

Broken(ss) == \E i \in StepIdx : ss[i] \in {"failed", "compensated"}

\* The steps ss and the status st of a rotation, as a job at p with the memory m
\* finds them; p is "free" when no job is in the lock for the rotation.
FitsSteps(p, m, ss, st) ==
    /\ p \in WorkPcs => ~Broken(ss)
    /\ p \in StepPcs => /\ m.steps = ss /\ ss[m.idx] = "pending"
                        /\ \A i \in StepIdx : i < m.idx => ss[i] = "done"
    /\ p = "complete" => Done(ss) = StepIdx
    /\ p \in {"rollback"} \cup CompensatePcs => \E i \in StepIdx : ss[i] = "failed"
    /\ p = "rollback" => Done(m.steps) = Done(ss)
    /\ p \in CompensatePcs => m.todo = Done(ss)
    /\ p = "uncompensated" => Done(ss) = {Provision}
    /\ p = "final" => Done(ss) = {}
    /\ p \in WorkPcs \cup UndoPcs => st \notin {"completed", "rolled_back"}
    /\ Broken(ss) => st \in Terminal \/ p \in UndoPcs
    /\ st = "completed" => Done(ss) = StepIdx
    /\ st = "rolled_back" => Done(ss) = {}

\* Its recorded reference and the provider's keys: how many have been issued for
\* the rotation, and those of them that are live.
FitsKeys(p, m, ss, ref, count, keys) ==
    /\ count <= 1 /\ ref <= count /\ keys \subseteq 1..count
    /\ p \in KeylessPcs => m.key = 0
    /\ p \in RefPcs => m.ref = ref
    /\ p \in {"create", "write"} => m.idx = Provision
    /\ p \in {"distribute", "verify"} => m.idx \in {Distribute, Verify}
    /\ p = "write" => m.key \in keys
    /\ p = "done" => IF m.idx = Provision THEN m.key \in keys ELSE m.key = 0
    /\ p = "compensated" /\ Done(ss) = {Provision} => ref \notin keys
    /\ ss[Provision] = "pending" /\ count # 0 => p \in {"write", "done", "failed"}
    /\ ss[Provision] = "pending" => ref = 0
    /\ ss[Provision] = "done" =>
          ref \in keys \/ (p = "compensated" /\ Done(ss) = {Provision})
    /\ ss[Provision] = "compensated" => ref \notin keys
    /\ ss[Provision] = "failed" /\ Deletes => ref = 0

\* The old credential.
FitsOld(p, m, ss, key) ==
    /\ p \in {"disable", "delete"} => m.idx = Revoke
    /\ (p = "done" /\ m.idx = Revoke) \/ ss[Revoke] = "done" => key = "deleted"
    /\ key # "active" /\ Deletes =>
          Done(ss) = StepIdx \/ (p \in {"delete", "done"} /\ m.idx = Revoke)

Fits(r, p, m) ==
    /\ FitsSteps(p, m, step[r], status[r])
    /\ FitsKeys(p, m, step[r], newRef[r], issued[r], live[r])
    /\ FitsOld(p, m, step[r], old[r])
    /\ Deletes => p # "uncompensated"

Inside(j, r) == Holding(j) /\ rid[j] = r

\* What the job in its lock, if any, may rely on, or else the next one.
Fitting(r) ==
    /\ \A j \in Jobs : Inside(j, r) => Fits(r, pc[j], mem[j])
    /\ (\A j \in Jobs : ~Inside(j, r)) => Fits(r, "free", NoMemory)

\* It is an invariant, beside IInv, as long as no job is interrupted.
HandoverInv ==
    /\ faults = 0 /\ threads = {}
    /\ \A j \in Jobs : ~Holding(j) => mem[j] = NoMemory
    /\ \A r \in Rotations : Fitting(r)

-------------------------------------------------------------------------------
(***************************************************************************)
(* The inductive invariant behind the same promises when the worker fails. *)
(***************************************************************************)

\* The new credential can be made and distributed, and the old one taken away.
Provides == MayFail \cap {"create_credential", "write_new_version"} = {}
Revokes  == MayFail \cap {"disable_credential", "delete_credential"} = {}

\* The verification or the revocation is recorded as failed.
FailedLate(ss) == ss[Verify] = "failed" \/ ss[Revoke] = "failed"

\* The steps ss of a rotation: taken in their order; and where one has failed or
\* was undone.
StepsHold(ss) ==
    /\ \A i, k \in StepIdx : i < k /\ ss[i] = "pending" => ss[k] = "pending"
    /\ Provides => \A i \in StepIdx : ss[i] \in {"failed", "compensated"} => FailedLate(ss)
    /\ ss[Revoke] # "pending" => ss[Verify] \in {"done", "compensated"}
    /\ Revokes => ss[Revoke] \in {"pending", "done"} /\ ss[Verify] # "compensated"

\* The row of a rotation with its keys.
RowHolds(ss, st, ref, count, keys, key) ==
    /\ StepsHold(ss)
    /\ ref <= count /\ keys \subseteq 1..count
    /\ ss[Provision] = "pending" => ref = 0
    /\ ss[Provision] = "failed" /\ Revokes => ref = 0
    /\ ss[Provision] = "done" /\ Provides => ref \in keys \/ FailedLate(ss)
    /\ ss[Provision] = "compensated" => ref \notin keys
    /\ ss[Revoke] = "done" => key = "deleted"
    /\ st = "completed" /\ Provides => Done(ss) = StepIdx
    /\ st = "rolled_back" => Done(ss) = {}
    /\ st = "rolled_back" /\ Revokes => ss[Verify] \in {"pending", "failed"}

\* What a job at p with the memory m knows of its rotation's row ...
KnowsRow(p, m, ss, st) ==
    /\ p \in StepPcs => m.steps = ss /\ IsNext(m.idx, ss)
    /\ p \in {"create", "write"} => m.idx = Provision
    /\ p = "distribute" => m.idx = Distribute
    /\ p = "verify" => m.idx = Verify
    /\ p \in {"disable", "delete"} => m.idx = Revoke
    /\ p \in StepPcs \ {"gate"} /\ m.idx = Revoke => ss[Verify] = "done"
    /\ p = "failed" /\ Provides => m.idx \in {Verify, Revoke}
    /\ p = "failed" /\ Revokes => m.idx # Revoke
    /\ p = "complete" /\ Provides => Done(ss) = StepIdx
    /\ p \in UndoPcs /\ Provides => FailedLate(ss)
    /\ p \in UndoPcs /\ Revokes => ss[Verify] \in {"pending", "failed"}
    /\ p = "rollback" => Done(m.steps) = Done(ss)
    /\ p \in CompensatePcs => m.todo = Done(ss) /\ ss[Provision] # "pending"
    /\ p = "final" => Done(ss) = {}
    /\ Revokes => p # "uncompensated" /\ ~m.bad
    /\ p \in WorkPcs \cup UndoPcs => st \notin {"completed", "rolled_back"}

\* ... and of its keys: the recorded one, those of the provider, and the old one.
KnowsKeys(p, m, ref, keys, key) ==
    /\ p \in KeylessPcs => m.key = 0
    /\ p \in RefPcs => m.ref = ref
    /\ p = "write" => m.key \in keys
    /\ p = "done" => IF m.idx = Provision THEN m.key \in keys ELSE m.key = 0
    /\ p = "done" /\ m.idx = Revoke => key = "deleted"
    /\ p = "compensated" /\ IsLast(Provision, m.todo) => ref \notin keys

RowOf(r) == RowHolds(step[r], status[r], newRef[r], issued[r], live[r], old[r])

Knows(j) == LET r == rid[j]
            IN  /\ KnowsRow(pc[j], mem[j], step[r], status[r])
                /\ KnowsKeys(pc[j], mem[j], newRef[r], live[r], old[r])

\* A thread that takes a key back: the steps of its rotation say why.
UndoKnows(ss) == ss[Provision] # "pending" /\ (Provides => FailedLate(ss))

\* It is an invariant, beside IInv, however often the worker fails.
FaultInv ==
    /\ \A r \in Rotations : RowOf(r)
    /\ \A j \in Jobs : IF Holding(j) THEN Knows(j) ELSE mem[j] = NoMemory
    /\ \A t \in threads : t.op = "undo" => UndoKnows(step[t.rid])
================================================================================
