SPECIFICATION Spec
CONSTANTS
    Bits = 3
    MaxNetworks = 4
    NoNet = NoNet
INVARIANTS IInv Disjoint EmulatesElse AssertionsElse
PROPERTIES TurnsCount Ends
