SPECIFICATION FairSpec
CONSTANTS
    Clients = {c1, c2}
    None = none
    DATAS = 3
    MAXLEN = 2
    Buffer = 3
    Backlog = 1
    Faults <- MCAllFaults
INVARIANTS ReportsAgree
PROPERTIES ConnectionsAreStreams ClientsEnd ServerEnds
