SPECIFICATION Spec
CONSTANTS
    bucket = bucket
    role = role
    Requests = {1, 2}
    Resources = {bucket, role}
    Privileged = {role}
    Policies <- OnePolicy
    Secrets <- LeakedAndIdle
    None = None
    MayFail = {"node", "database", "enqueue_job"}
    MaxFaults = 1
INVARIANTS
    TypeOK
    OneRunning
    RunningIsNewest
    StatusMatchesTrail
    ResultsAreBacked
    ShownIsLatest
PROPERTIES
    RunEnds
CHECK_DEADLOCK FALSE
