SPECIFICATION FairSpec
CONSTANTS
    kMaxQuickFailures = 3
    kStallPolls = 3
    kBootTimeoutPolls = 2
    Depths = {1, 2}
    MaxSpawn = 5
INVARIANTS OneChild NoEarlyReady TriesBounded
PROPERTIES KillsOnlyStalled DestroyEnds ServedOrGivenUp HungIsEnded
CHECK_DEADLOCK FALSE
