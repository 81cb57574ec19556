SPECIFICATION Spec
CONSTANTS
    Pids <- MCPids
    WidePids <- MCWide
    Extra <- MCOne
    Rates = {50}
    Limits = {1, 2}
    OpSets <- MCOpSets
    Majors <- MCMajors
    FaultSets <- MCFaultSets
INVARIANTS ListedThreadsLimited MemLimitInForce MarksHaveClasses ClearAllLeavesNothing
PROPERTIES OnlyOwnGroups
