SPECIFICATION RideBusSpec
CONSTANTS
    MaxSessions = 2
    LastStop = 1
    MaxAge = 0
    Keys = {client, device, 0, 1, 2}
    Requests = {client, device}
    Automatic = {device}
    Keyless = {}
    MaxStarts = 2
    MaxStops = 1
    Actors = {"engine", "restore", "stop"}
INVARIANTS Ownership KeyNamesOneRide PauseHolds 
PROPERTIES TerminalStays LiveFollowsDurable
CONSTANTS
    Stops <- OutAndBack
    Turn = 3
    Pace = 1
    GapAfter = 2
    MaxSegment = 2
    Recovery = 2
    StaleAfter = 4
    MaxTime = 7
    MaxQueued = 1
    MaxQuiet = 1
    MaxSlips = 1
CHECK_DEADLOCK FALSE
