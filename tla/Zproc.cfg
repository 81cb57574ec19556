SPECIFICATION Spec
CONSTANTS
    Walkers <- MCWalkers
    Pages <- MCPages
    Slots <- MCSlots
    HighPages <- MCHigh
    Alias <- MCAlias
    Mem <- MCMem
    Cr3 <- MCCr3
    Policied <- MCPolicied
    Targets <- MCTargets
INVARIANTS UndisturbedWalkIsRight
