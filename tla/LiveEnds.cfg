SPECIFICATION EndsSpec
CONSTANTS
    Keys = {a, b, c}
    MaxConcurrent = 2
    MaxPending = 2
    MaxPendingPerKey = 2
    Refreshing = TRUE
    MaxTasks = 4
    Replicas = {r1}
    MaxRides = 1
    MaxEdits = 0
    Attempts = 1
    Nodes = {n1}
    MaxElected = 2
    MaxMoves = 1
    MaxLosses = 1
PROPERTIES AdmittedWorkSettles ClaimEnds PublicFollows
CHECK_DEADLOCK FALSE
