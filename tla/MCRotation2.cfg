SPECIFICATION Spec
CONSTANTS
    r1 = r1
    r2 = r2
    s1 = s1
    j1 = j1
    j2 = j2
    Rotations = {r1, r2}
    Secrets = {s1}
    SecretOf <- TwoRotations
    Jobs = {j1, j2}
    None = None
    MaxTries = 1
    MayFail = {}
    MaxFaults = 0
SYMMETRY BothSymmetry
INVARIANTS
    OneActiveRotation
    LockExclusion
CHECK_DEADLOCK FALSE
