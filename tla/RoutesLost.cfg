SPECIFICATION Spec
CONSTANTS
    Bits = 3
    MaxNetworks = 3
    NoNet = NoNet
INVARIANTS Emulates
