SPECIFICATION Spec
CONSTANTS
    kSlots = 4
    kMaxDepth = 2
    Fx = TRUE
    Respawns = TRUE
    LiveDepth = FALSE
    MaxBlock = 5
    MaxChild = 2
INVARIANT PlaysOnlyProduced
CHECK_DEADLOCK FALSE
