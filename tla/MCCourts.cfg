SPECIFICATION Spec
CONSTANTS
    Categories = {"stable"}
    VersionLike <- MCVersionLike
    MentionsKernels = {"No kernels found"}
    SaysNoKernels = {"No kernels found"}
    Checkish = {"Choose"}
    TmpPaths = {"/tmp/a", "/tmp/b"}
    Length <- MCLength
    TreeDepth = 4
    Cases <- MCAllCases
    CorpusFiles <- MCCorpusFiles
    Reference <- MCReference
    Model <- MCModel
    RowLists <- MCRowLists
    Layouts = {"headers", "no headers", "nested"}
    Companions <- MCCompanions
    WrongCompanions <- MCWrong
    Strays = 1
    Budgets <- MCBudgets
INVARIANTS TypeOK OwnWitness VouchedPassAgrees PassSeesThisRun ReleaseSpeaksTrue EveryCorpusAgrees
CHECK_DEADLOCK FALSE
