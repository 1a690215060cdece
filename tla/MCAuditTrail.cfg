SPECIFICATION Spec
CONSTANTS
    tenant = tenant
    demo = demo
    Tenants <- OneTenant
    Demos <- OneDemo
    Txs = {1, 2, 3}
    MayAbort = TRUE
INVARIANTS
    TypeOK
    ChainUnbroken
    TrailOrdersWrites
    DeadlockNeedsSweep
PROPERTIES
    AppendOnly
    
CHECK_DEADLOCK FALSE
