SPECIFICATION FairSpec
CONSTANTS
    a1 = a1  a2 = a2  a3 = a3
    p1 = p1  p2 = p2
    c1 = c1  c2 = c2
    Agents = {a1, a2, a3}
    Paths = {p1, p2}
    Callers = {c1, c2}
    Versions = {"V1", "V2"}
    MaxThreads = 1
    MaxStarts = 2
    MaxUnloads = 1
    MaxCalls = 3
    StoredPath <- MCStored
    NoAgent = NoAgent
    NoPath = NoPath
    Reserved = Reserved
INVARIANTS TypeOK SlotAccounting AgentLimit NamesOwned PendingExact Evictable ResidencyBound
PROPERTY CallsReturn
CHECK_DEADLOCK FALSE
