CONSTANTS
    Variants = {Cachyos, Bore}
    DefaultVariant = Cachyos
    MaxOps = 2
    MaxEpoch = 3
    MaxPrepares = 1
SPECIFICATION Spec
INVARIANTS
    TypeOK
    OneOperation
    QuestionMatchesBuild
    HelperOwned
    TokenIsExact
    NoDoubleSpend
PROPERTIES
    ImplementsContract
