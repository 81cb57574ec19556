SPECIFICATION Spec
CONSTANTS
    MAX_THREAD = 3
    Handles = {h1, h2, h3, h4}
    NoHandle = none
    MayFail = TRUE
    MemSize = 24
    Rounds = 10
    String <- MCString
    Faults <- MCFaults
INVARIANTS SlotsHoldThreads OnlyTheKilledReturns OutputFaithful
PROPERTIES KillReturns MonitorEnds
