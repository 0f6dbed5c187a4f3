CONSTANTS
    ChannelIds = {i1, i2, i3}
    Outpoints = {o1, o2}
    Terms = {t1, t2}
    MaxChannels = 3
    PruneBlocks = 1
    BaseHeight = 1
    MaxHeight = 4
SYMMETRY NameSymmetry
SPECIFICATION MapSpec
INVARIANTS
    ReadyForGood
    NeverPanics
    MemoryIsDurable
    MonitorIsFed
