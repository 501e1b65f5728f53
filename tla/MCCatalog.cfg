SPECIFICATION FairSpec
CONSTANTS
    none = none
    short = short
    middle = middle
    long = long
    kMachineCount = 1
    Contents = {none, short, middle, long}
    NoFiles = none
    SoundsIn <- MCSoundsIn
    kRetirePolls = 3
    kScanPolls = 4
    kCallPolls = 3
    Reverts = FALSE
    MaxChanges = 3
INVARIANTS NoUseAfterFree IndexesItsOwn OwnedOnce
PROPERTIES ShowsTheFiles
CHECK_DEADLOCK FALSE
