SPECIFICATION Spec
CONSTANTS
    MaxSessions = 2
    MaxRevocations = 1
INVARIANTS TypeOK FieldIsRegistered IInv
PROPERTIES TheToldEnd RevokedEnd ServiceLeaves
CHECK_DEADLOCK FALSE
