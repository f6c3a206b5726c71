SPECIFICATION Spec
CONSTANTS
    a1 = a1  a2 = a2  a3 = a3  eth0 = eth0  eth1 = eth1  p1 = p1  p2 = p2
    NoIP = NoIP  NoEni = NoEni  Free = Free  Gc = Gc  Tool = Tool
    IP = {a1, a2, a3}
    Eni = {eth0, eth1}
    EniOf <- EniOf3
    BootEni = {eth0}
    BootIP = {}
    Primary = {a2}
    PodEni = {eth1}
    Pod = {p1, p2}
    Second = 1
    Wait = 2
    FreeAfter = 1
    Jitter = 0
    MaxReap = 1
    BatchSize = 1
    Limit = 2
    Adapters = 2
    SkipDeallocation = FALSE
    MaxHandoff = 1
    MaxScan = 1
    MaxLag = 1
    Faults = TRUE
    LoseRelease = FALSE
    RepeatDel = FALSE
    HiddenNamespaces = FALSE
    Deallocations = FALSE
    Start = 4
    MaxTime = 8
SYMMETRY PodSymmetry
INVARIANTS TypeOK NoSharedAddress OwnersAssigned IInv
PROPERTIES LeaseSpec
