SPECIFICATION Spec
CONSTANTS
    Loaded <- AllModules
    Files = {f1, f2}
    MaxLoads = 2
    Faults = {}
    MaxSignals = 3
    Socks = {s1, s2, s3}
    Servers = {a, b}
    Clients = {c, d}
    mask = 2
    Text = t
    Nul = n
    Junk = j
    BUF_LEN = 3
    MaxBinds = 2
INVARIANTS LoadHasAll
