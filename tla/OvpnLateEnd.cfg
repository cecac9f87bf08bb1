SPECIFICATION Spec
CONSTANTS
    MaxSessions = 2
    MaxRevocations = 1
INVARIANT NullIfNotRunning
CHECK_DEADLOCK FALSE
