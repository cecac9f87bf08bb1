SPECIFICATION HistorySpec
CONSTANTS
    MaxSessions = 1
    MaxRevocations = 0
PROPERTY DisconnectEnds
CHECK_DEADLOCK FALSE
