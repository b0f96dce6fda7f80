SPECIFICATION EdgeSpec
CONSTANTS
    Errors = {0, 1, 3}
    MaxPlace = 3
    MaxOutliers = 1
    Pages = 2
    PerPage = 2
    Samples = {1, 2}
    MaxGen = 5
    Tasks = {t1, t2}
    Hosts = {h1, h2}
    NoHost = NoHost
    MaxTickets = 3
    MaxNetworks = 2
    MaxFailures = 2
    Accounts = {a, b}
    NoOne = NoOne
    Burst = 1
    MaxEvents = 3
INVARIANTS NothingOfOthers UnknownIsNotNone
PROPERTIES AddressIsOwn  ClockRecovers TruthIsShown ReservationHolds ClientSettles
CHECK_DEADLOCK FALSE
