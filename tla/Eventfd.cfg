SPECIFICATION FairSpec
CONSTANTS
    N = 3
    WriteNum = 2
    MaxEvents = 10
    Timeout = 12
    Second = 2
    EfdMax = 1000
    FirstFd = 3
    MaxLag = 1
    FaultSets <- MCFaultSets
INVARIANTS ReadNeverBlocks NoUseAfterClose AllDelivered
PROPERTIES Terminates
