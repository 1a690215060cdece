SPECIFICATION Spec
CONSTANTS
    Hooks = {1}
    Conns = {1, 2}
    Last = 2
    MaxFaults = 1
INVARIANTS
    TypeOK
    FramesInOrder
PROPERTIES
    SilentAfterTeardown
    NoStaleAnswer
    PanelConverges
    Reconnects
    NoZombies
CHECK_DEADLOCK FALSE
