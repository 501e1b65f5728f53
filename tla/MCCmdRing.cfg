SPECIFICATION Spec
CONSTANTS
    kCmdSlots = 2
    IndexMod = 6
    MaxPush = 9
    MaxChild = 3
PROPERTIES ImplementsQueue InOrder
CHECK_DEADLOCK FALSE
