CONSTANTS
    SourceArray <- MCBareSource
    LtoPatches <- MCNone
    NvidiaPatches <- MCNone
    UserPatches = {}
    Picks = {"lts", "rt"}
    Toggles = {"builtin_zfs"}
    Ltos = {"full"}
    Preempts = {"none"}
    CustomNames = {"$pkgbase"}
    Files <- MCFiles
    Probes = {p1}
    Loads = {l1}
    Saves = {s1}
    Builds = {}
    MaxEpoch = 3
    MaxSaves = 1
    MaxPatches = 0
    Modal = TRUE
SPECIFICATION Spec
INVARIANTS
    OptionsFollowWidgets
    OfferMatchesVariant
    RoundTrip
    FileIsWhole
CHECK_DEADLOCK FALSE
