SPECIFICATION HSpec
CONSTANTS
    a1 = a1  a2 = a2  eth0 = eth0  p1 = p1  p2 = p2
    NoIP = NoIP  NoEni = NoEni  Free = Free  Gc = Gc  Tool = Tool
    IP = {a1, a2}
    Eni = {eth0}
    EniOf <- EniOfBoth
    BootEni = {eth0}
    BootIP = {a1, a2}
    Primary = {}
    PodEni = {eth0}
    Pod = {p1, p2}
    Second = 3
    Wait = 4
    FreeAfter = 3
    Jitter = 1
    MaxReap = 1
    BatchSize = 1
    Limit = 2
    Adapters = 1
    SkipDeallocation = TRUE
    MaxHandoff = 1
    MaxScan = 1
    MaxLag = 0
    Faults = FALSE
    LoseRelease = FALSE
    RepeatDel = FALSE
    HiddenNamespaces = FALSE
    Deallocations = FALSE
    Start = 9
    MaxTime = 16
    CountDeaths = FALSE
SYMMETRY PodSymmetry
INVARIANTS NoSharedAddress HInv ReapBudget
PROPERTIES RestToTheSecond
