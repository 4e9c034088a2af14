CONSTANTS
    Modal = FALSE
    MaxPrepares = 2
    MaxTasks = 2
SPECIFICATION Spec
INVARIANTS
    TypeOK
    WorkersMatchCore
    ProgressHasOwner
PROPERTIES
    ExecuteOnFreshCatalog
    RefreshEnds
CHECK_DEADLOCK FALSE
