SPECIFICATION DrainSpec
CONSTANTS
    config = config
    c1 = c1
    c2 = c2
    w1 = w1
    r1 = r1
    r2 = r2
    plugin = plugin
    trust = trust
    NoKey = NoKey
    NoConn = NoConn
    NoRequest = NoRequest
    Requests <- MCRequests
    Keys = {config}
    Conns = {c1, c2}
    KeyOf <- MCKeyOf
    Shared <- MCShared
    ConnOf <- MCConnOf
    AwaitOf <- MCAwaitOf
INVARIANTS
    TypeOK
    SerialOrder
    NoOrphanedRequest
    DrainedGateIsQuiet
PROPERTIES
    ImplementsService
    EveryRequestEnds
    ReadsJoin
CHECK_DEADLOCK FALSE
