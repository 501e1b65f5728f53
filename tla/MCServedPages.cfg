SPECIFICATION PagesSpec
CONSTANTS
    m1 = m1
    m2 = m2
    k1 = k1
    Machines = {m1, m2}
    Knobs = {k1}
    Values = {0, 1}
    FirstMachine = m1
    SynDefault <- MCSynDefault
    Default = 0
    Patches <- MCPatches
    Compat = TRUE
    Hold = 3
    Poll = 2
INVARIANT ShownInTime
PROPERTY RestoresUnlessLoadedOver
