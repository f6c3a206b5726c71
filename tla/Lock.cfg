SPECIFICATION FairSpec
CONSTANTS
    a1 = a1  a2 = a2  a3 = a3  eth0 = eth0  eth1 = eth1  p1 = p1  p2 = p2
    NoIP = NoIP  NoEni = NoEni  Free = Free  Gc = Gc  Tool = Tool
    IP = {a1, a2}
    Eni = {eth0, eth1}
    EniOf <- EniOfEach
    BootEni = {eth0}
    BootIP = {a1}
    Primary = {a2}
    PodEni = {eth0, eth1}
    Pod = {p1}
    Second = 1
    Wait = 1
    FreeAfter = 1
    Jitter = 0
    MaxReap = 1
    BatchSize = 1
    Limit = 2
    Adapters = 2
    SkipDeallocation = FALSE
    MaxHandoff = 1
    MaxScan = 0
    MaxLag = 1
    Faults = TRUE
    LoseRelease = TRUE
    RepeatDel = TRUE
    HiddenNamespaces = TRUE
    Deallocations = TRUE
    Start = 3
    MaxTime = 5
PROPERTIES LockReleased
