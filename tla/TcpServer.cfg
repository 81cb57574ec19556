SPECIFICATION FairSpec
CONSTANTS
    Conns = {c1, c2}
    None = none
    FdMax = 2
    MAX_EVENTS = 2
    MAXLEN = 2
    Backlog = 2
    Faults <- MCAllFaults
INVARIANTS NeverBlocks
PROPERTIES ConnectionsAreStreams EventuallyServed
