SPECIFICATION FairSpec
CONSTANTS
    kSlots = 4
    kMaxDepth = 2
    Fx = FALSE
    Respawns = TRUE
    LiveDepth = TRUE
    MaxBlock = 7
    MaxChild = 2
INVARIANTS PlaysOnlyProduced NeverTooFarAhead NoLostWakeup
PROPERTIES ImplementsStream EventuallyCaughtUp
CHECK_DEADLOCK FALSE
