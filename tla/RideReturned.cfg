SPECIFICATION Spec
CONSTANTS
    MaxSessions = 2
    LastStop = 1
    MaxAge = 1
    Keys = {client, 0, 1}
    Requests = {client}
    Automatic = {}
    Keyless = {}
    MaxStarts = 1
    MaxStops = 0
    Actors = {"restore", "scan"}
PROPERTIES RecentIsProtected
CHECK_DEADLOCK FALSE
