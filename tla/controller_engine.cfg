SPECIFICATION Spec
CONSTANTS
    NBlocks = 6
    Preserved = {1}
    Rebuilt = {0}
    LevelsRun = {"C3", "C4"}
    OldTables <- MCTables
    Marked <- MCMarked
    BatchSize = 2
    EraseRetries = 1
    MinSpare = 1
    SparePercent = 0
    BinBlocks = 0
    Entries <- MCEntries
    MaxFaults = 1
    MaxKills = 1
    MaxPowerCuts = 1
    MaxResumes = 2
    MaxRecovers = 1
INVARIANTS
    ProtectedUntouched
    DispositionsTrue
    OnceOnly
    RebuiltIsCommitted
    RefusedOnlyKnown
CHECK_DEADLOCK FALSE
