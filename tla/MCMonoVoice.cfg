SPECIFICATION Spec
CONSTANTS
    kBlockFrames = 4
    kFrames = 12
    Sites = {1, 2}
    Matching = {1}
    PrewarmBlocks = 3
    WarmBlocks = 2
    MaxCalls = 5
INVARIANTS FxAligned SynthGapless HostInStep TurnsKept FreshAfterPrewarm
CHECK_DEADLOCK FALSE
