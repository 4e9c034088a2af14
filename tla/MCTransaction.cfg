CONSTANTS
    Core = Core
    Custom = Custom
    Cachy = Cachy
    Lts = Lts
    Unknown = Unknown
    Repos = {Core, Custom}
    Kernels = {Cachy, Lts}
    CachyKernels = {Cachy}
    Catalog <- MCCatalog
    Version <- MCVersion
    Companions <- MCCompanions
    Rank <- MCRank
    Zfs = FALSE
    ChwdNvidia = TRUE
    ChwdOpen = FALSE
    Start <- MCStart
    MaxOutside = 1
SPECIFICATION Spec
INVARIANTS
    TypeOK
    RowsAreMachine
    NoMissedChange
    SuccessIsIntent
    RemovalFindsTargets
PROPERTIES
    OnlyWhatWasSelected
    ImplementsManager
