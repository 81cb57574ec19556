SPECIFICATION FairSpec
CONSTANTS
    Monitors = {m1, m2}
    QMax = 1
    Wrap = 3
    Faults <- MCAllFaults
INVARIANTS NoSilentGap StillCounted EndBalances
PROPERTIES SigintEnds
