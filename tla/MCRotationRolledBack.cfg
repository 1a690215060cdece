SPECIFICATION Spec
CONSTANTS
    r1 = r1
    r2 = r2
    s1 = s1
    j1 = j1
    j2 = j2
    Rotations = {r1}
    Secrets = {s1}
    SecretOf <- OneRotation
    Jobs = {j1}
    None = None
    MaxTries = 1
    MayFail = {"delete_credential"}
    MaxFaults = 0
INVARIANTS
    RolledBackKeepsOld
CHECK_DEADLOCK FALSE
