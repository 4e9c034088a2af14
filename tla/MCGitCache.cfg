CONSTANTS
    Prepares = {p1, p2}
    Builds = {b1}
    Jobs = {j1, j2}
SPECIFICATION Spec
INVARIANTS
    TypeOK
    CompleteIsClean
PROPERTIES
    CheckoutSurvives
