SPECIFICATION Spec
CONSTANTS
    Pids <- MCPids
    WidePids <- MCWide
    Extra <- MCNone
    Rates = {50}
    Limits = {1}
    OpSets <- MCClearOps
    Majors <- MCNone
    FaultSets <- MCNoFaults
INVARIANTS ClearOnlyThatPid
