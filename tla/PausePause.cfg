SPECIFICATION FairSpec
CONSTANTS
    Networks <- OneNetwork
    Binders <- OneCaller
    MaxTimers = 1
    MaxCommands = 1
    MaxHolds = 1
PROPERTY UserPauseHolds
