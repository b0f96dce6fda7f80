SPECIFICATION RideEndsSpec
CONSTANTS
    MaxSessions = 3
    LastStop = 1
    MaxAge = 2
    Keys = {device, 0, 1}
    Requests = {device}
    Automatic = {device}
    Keyless = {}
    MaxStarts = 1
    MaxStops = 0
    Actors = {"engine", "restore", "scan"}
    MaxFollowed = 2
    MaxMishaps = 1
INVARIANTS OneReturn RideIsEarned
PROPERTIES EndsAreSeen
CHECK_DEADLOCK FALSE
