SPECIFICATION WorkerSpec
CONSTANTS
    Procs = {p1, p2}
    NoOwner = NoOwner
    Lease = 3
    Skew = 1
    MaxTime = 3
    MaxLate = 1
    Nodes = {n1, n2}
    MaxElected = 2
    MaxMoves = 1
    MaxLosses = 1
SYMMETRY Symmetry
INVARIANTS SingleLeader 
PROPERTIES ImplementsLeadership ViewsAreWhole
CHECK_DEADLOCK FALSE
