SPECIFICATION FairSpec
CONSTANTS
    Networks <- TwoNetworks
    Binders <- OneCaller
    MaxTimers = 2
    MaxCommands = 1
    MaxHolds = 2
INVARIANTS TypeOK HoldIsKnown IInv
PROPERTIES ReleasedOnlyIfWanted ConnectsWhenWanted HeldUnlessWanted
