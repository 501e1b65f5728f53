SPECIFICATION FairSpec
CONSTANTS
    kSlots = 8
    kMaxDepth = 4
    Fx = TRUE
    Respawns = FALSE
    LiveDepth = FALSE
    MaxBlock = 11
    MaxChild = 2
INVARIANTS PlaysOwnInput PlaysOnlyProduced
PROPERTIES SkipsOnlyThePast EventuallyCaughtUp
CHECK_DEADLOCK FALSE
