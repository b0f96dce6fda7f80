SPECIFICATION PartsSpec
CONSTANTS
    Keys = {a, b}
    MaxConcurrent = 1
    MaxPending = 2
    MaxPendingPerKey = 2
    Refreshing = FALSE
    MaxTasks = 3
    Prints = {f, g}
    NoPrint = NoPrint
    Replicas = {r1, r2}
    MaxRides = 2
    MaxEdits = 1
    Attempts = 2
    Resolvers = {m1, m2}
    Starts = {s1, s2}
    MaxShifts = 2
    MinGap = 1
    MinuteSpan = 2
    MinuteMost = 1
    HourSpan = 4
    HourMost = 2
    MaxChatTime = 4
    MaxTexts = 3
    Tabs = {t1, t2}
    Day = 2
    MaxFeedbackTime = 3
    MaxFeedback = 2
INVARIANTS ShownPathIsRides DirectionIsConfirmed SaidOnce
PROPERTIES NewestIsKept DelayIsKept
CHECK_DEADLOCK FALSE
