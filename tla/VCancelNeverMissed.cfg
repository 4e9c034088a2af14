CONSTANTS
    Variants = {Cachyos, Bore}
    DefaultVariant = Cachyos
    MaxOps = 2
    MaxEpoch = 3
    MaxPrepares = 1
SPECIFICATION Spec
INVARIANT
    CancelNeverMissed
