----------------------------- MODULE RotationPlan -----------------------------
(***************************************************************************)
(* The vocabulary of a rotation: the statuses of a row of `rotations` and  *)
(* of `rotation_steps`, and the four-step plan that the rotate endpoint    *)
(* writes.  A step is named by its idx; its kind is fixed by the plan.     *)
(***************************************************************************)
EXTENDS Naturals

Provision  == 0
Distribute == 1
Verify     == 2
Revoke     == 3
StepIdx    == 0..3

\* The steps a plan creates with requires_confirmation = true.
Gated == {Distribute, Revoke}

\* Statuses with no further advance; also the ones the partial unique index
\* one_active_rotation leaves out.
Terminal == {"completed", "rolled_back", "rollback_failed",
             "rejected", "abandoned", "plan_failed"}

\* Mutant: the kind of the step is written for the status.
RunningStatusKind(i) ==
    CASE i = Provision  -> "provision"
      [] i = Distribute -> "distribute"
      [] i = Verify     -> "verify"
      [] i = Revoke     -> "revoke"

\* The status a rotation shows while a step runs.
RunningStatus(i) ==
    CASE i = Provision  -> "provisioning"
      [] i = Distribute -> "distributing"
      [] i = Verify     -> "verifying"
      [] i = Revoke     -> "revoking"

Running == {"provisioning", "distributing", "verifying", "revoking"}

\* "absent" stands for a row that has not been inserted yet.
RotationStatus == Terminal \cup Running \cup
    {"absent", "pending_approval", "awaiting_confirmation", "rolling_back",
     "needs_replan"}

StepStatus == {"pending", "done", "failed", "compensated"}

Pending(steps) == {i \in StepIdx : steps[i] = "pending"}
Done(steps)    == {i \in StepIdx : steps[i] = "done"}

\* The engine always takes the pending step with the lowest idx ...
IsNext(i, steps) == i \in Pending(steps) /\ \A k \in Pending(steps) : i <= k

\* ... and compensates the done steps from the highest idx down.
IsLast(i, S) == i \in S /\ \A k \in S : k <= i
===============================================================================
