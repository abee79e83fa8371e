SPECIFICATION Spec
CONSTANTS
    Items = {a}
    Meta = Meta
    MetaUpdate = MetaUpdate
    Modes = {"Paginated"}
    BaseOrdinal = 0
    MaxOrdinal = 9
    Capacity = 3
    MaxWriters = 2
    Bounds <- BothBounds
INVARIANTS
    AckedReopens
SYMMETRY Symmetry
CHECK_DEADLOCK FALSE
