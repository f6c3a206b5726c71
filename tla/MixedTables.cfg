SPECIFICATION Spec
CONSTANTS
    p1 = p1  p2 = p2  NoPod = NoPod  a1 = a1  a2 = a2  NoAddr = NoAddr
    Pod = {p1, p2}
    Addr = {a1, a2}
    Dst = {1, 2}
    Cidrs <- FewerCidrs
    Tables = {1, 2}
    NoTable = 0
    Jitter = 1
    MaxTries = 2
    MaxFaults = 0
    Configs <- ExampleConfig
    NsOutlivesDel = FALSE
INVARIANTS TableExclusive
