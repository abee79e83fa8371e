SPECIFICATION Spec
CONSTANTS
    Items = {a, b}
    Meta = Meta
    MetaUpdate = MetaUpdate
    Modes = {"Legacy", "Paginated"}
    BaseOrdinal = 0
    MaxOrdinal = 9
    Capacity = 1
    MaxWriters = 2
    Bounds <- BothBounds
INVARIANTS
    TypeOK
    AckedDurable
    FileOrder
    OrdinalsIdentify
    ProjectionExact
SYMMETRY Symmetry
CHECK_DEADLOCK FALSE
