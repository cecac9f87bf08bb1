SPECIFICATION Spec
CONSTANTS
    MaxGestures = 3
    MaxCrashes = 1
    MaxWords = 1
INVARIANTS
    IInv
    Agrees
    NeverStuck
CHECK_DEADLOCK FALSE
