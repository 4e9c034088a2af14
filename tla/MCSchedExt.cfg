CONSTANTS
    Inits = {i1}
    Calls = {c1, c2}
    Shows = 2
    Presses = 2
    Picks = {"scx_lavd"}
    Labels = {"Auto"}
    Supported <- MCSupported
    Texts <- MCTexts
    Starts <- MCStarts
    Modal = TRUE
SPECIFICATION Spec
SYMMETRY Symmetry
INVARIANTS
    TypeOK
    SuccessIsTheLoaders
    RebootKeepsModes
CHECK_DEADLOCK FALSE
