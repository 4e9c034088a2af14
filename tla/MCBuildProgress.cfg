CONSTANTS
    Variants = {Cachyos}
    DefaultVariant = Cachyos
    MaxOps = 2
    MaxEpoch = 2
    MaxPrepares = 1
SPECIFICATION Spec
PROPERTIES
    OperationsEnd
    CancelOfStoredEnds
