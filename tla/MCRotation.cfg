SPECIFICATION Spec
CONSTANTS
    r1 = r1
    r2 = r2
    s1 = s1
    j1 = j1
    j2 = j2
    Rotations = {r1}
    Secrets = {s1}
    SecretOf <- OneRotation
    Jobs = {j1, j2}
    None = None
    MaxTries = 1
    MayFail = {"create_credential", "write_new_version", "verify_store",
               "disable_credential", "enqueue_job"}
    MaxFaults = 0
SYMMETRY JobSymmetry
INVARIANTS
    TypeOK
    LockExclusion
    NoLockout
    ProvisionOnce
    RolledBackIsClean
    CompletedIsComplete
    HandoverInv
PROPERTIES
    OutcomesAreFinal
    KeepsPromise
CHECK_DEADLOCK FALSE
