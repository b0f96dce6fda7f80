SPECIFICATION Spec
CONSTANTS
    MaxSessions = 2
    LastStop = 1
    MaxAge = 0
    Keys = {client, 0, 1, 2}
    Requests = {client}
    Automatic = {}
    Keyless = {client}
    MaxStarts = 2
    MaxStops = 2
    Actors = {"stop"}
PROPERTIES TerminalStays
CHECK_DEADLOCK FALSE
