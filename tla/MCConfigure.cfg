CONSTANTS
    SourceArray <- MCSourceArray
    LtoPatches <- MCLtoPatches
    NvidiaPatches <- MCNvidiaPatches
    UserPatches <- MCUserPatches
    Picks = {"lts", "rt"}
    Toggles = {"builtin_nvidia_open"}
    Ltos = {"full"}
    Preempts = {}
    CustomNames = {}
    Files <- MCOldFiles
    Probes = {p1, p2}
    Loads = {l1}
    Saves = {}
    Builds = {b1}
    MaxEpoch = 3
    MaxSaves = 1
    MaxPatches = 2
    Modal = TRUE
SPECIFICATION Spec
INVARIANTS
    TypeOK
    NoForeignPatches
PROPERTY
    EditsSurviveOlderProbes
CHECK_DEADLOCK FALSE
