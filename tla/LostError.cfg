SPECIFICATION Spec
CONSTANTS
    h = h  c = c  e1 = e1  e2 = e2  NoEni = NoEni  NoKey = NoKey
    Limits = Limits  Subnets = Subnets  Vpc = Vpc
    Proc = {h}
    Holder = h
    Asked = {}
    Interface = {e1, e2}
    Life <- Lives
    Boots <- BootIndexes
    Second = 1
    MaxCall = 1
    MaxTime = 2
    MaxFaults = 1
    Adapters = 3
    DefaultAdapters = 4
    MaxPolls = 1
    MaxCommands = 3
INVARIANTS FallbackUsable
CHECK_DEADLOCK FALSE
