SPECIFICATION AdminSpec
CONSTANTS
    Procs = {p1, p2}
    NoOwner = NoOwner
    Payloads = {"fix", "held"}
    MaxGeneration = 2
    Servers = {s1, s2}
    Keys = {k1}
    MaxOwners = 3
    Drivers = {d1, d2}
    Accounts = {u1, u2}
    Buses = {b1}
    MaxFaults = 1
    Workers = {w1, w2}
    FailureLimit = 2
    MaxIdentity = 2
    MaxTurns = 4
    Requests = {r1, r2}
    Saves = {v1, v2}
    Shapes = {"a", "b"}
    MaxVersion = 2
    MaxClaims = 2
    Pages = {g1}
    MaxEditors = 2
    MaxTroubles = 2
    Cleaners = {c1, c2}
    Parts = {x1, x2}
INVARIANTS RightsFollowRegistry LeftoversHaveJob
PROPERTIES FencedWritesInOrder RecoveryIsSafe OnlyTheAskingAccount RoutesAreKept DraftsAreSavedOnce
CHECK_DEADLOCK FALSE
