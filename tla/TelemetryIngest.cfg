SPECIFICATION IngestSpec
CONSTANTS
    Capacity = 2
    MaxTaken = 3
    MaxTime = 2
    Offsets = {0, 2}
    Ahead = 2
    Margin = 2
    Delays = {1}
    MaxLate = 1
    MaxResets = 1
    Devices = {d1}
    Nodes = {n1, n2}
    NoNode = NoNode
    Replicas = {r1}
    Puts = {p1, p2}
    Reqs = {q1}
    MaxWrites = 4
    Limiters = {l1, l2}
    Limit = 3
    LeaseSize = 2
    Window = 2
    Lags = {0, 1}
    MaxInstant = 4
SYMMETRY Symmetry
INVARIANTS CacheIsCurrent BudgetKept
PROPERTIES NothingGoesBack LeftBehindIsRetired
CHECK_DEADLOCK FALSE
