SPECIFICATION FairSpec
CONSTANTS
    PageSize = 512
    Sizes <- MCSizes
    DramSizes <- MCDramSizes
    IncMax = 4096
    Increments <- MCIncrements
    SeekTo <- MCSeekTo
    MaxInput = 3
INVARIANTS ScreenFaithful LastByteShown PositionInBounds
PROPERTIES ImplementsViewer AwaitsKey
