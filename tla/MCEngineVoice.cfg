SPECIFICATION FairSpec
CONSTANTS
    Notes = {"C", "D", "E", "F"}
    kHeldNotes = 3
    kParkAfterBlocks = 3
INVARIANTS LastNotePlays SilentUntilPlayed ParksOnlyIdle
PROPERTIES WakesUp EventuallyParks
