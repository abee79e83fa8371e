SPECIFICATION FairSpec
CONSTANTS
    Items = {a, b}
    Meta = Meta
    MetaUpdate = MetaUpdate
    Modes = {"Paginated"}
    BaseOrdinal = 0
    MaxOrdinal = 1
    Capacity = 2
    MaxWriters = 2
    Bounds <- LimitBounds
INVARIANTS
    AckedDurable
    OrdinalsIdentify
PROPERTIES
    OperationReturns
CHECK_DEADLOCK FALSE
