SPECIFICATION Spec
CONSTANTS
    m1 = m1
    m2 = m2
    m3 = m3
    k1 = k1
    k2 = k2
    Machines = {m1, m2}
    Knobs = {k1}
    Values = {0, 1}
    FirstMachine = m1
    SynDefault <- MCSynDefault
    Default = 0
    Patches <- MCPatches
PROPERTY RestoresLast
