SPECIFICATION FairSync
CONSTANTS
    m1 = m1
    m2 = m2
    k1 = k1
    Machines = {m1, m2}
    Knobs = {k1}
    Values = {0, 1}
    FirstMachine = m1
    SynDefault <- MCSynDefault
    Default = 0
    Patches <- MCPatches
    RingSize = 5
    MaxEdits = 2
    MaxGen = 2
INVARIANT SyncedUnlessLost
PROPERTY EventuallySynced
CHECK_DEADLOCK FALSE
