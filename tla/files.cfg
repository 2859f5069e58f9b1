SPECIFICATION FilesSpec
CONSTANTS
    KillPoints = {"payload", "payload-sync", "descriptor"}
    MaxStores = 6
    MaxKills = 3
    Pages = 3
    Lost = {2}
    Corrupt = {3}
    MaxFaults = 3
    MaxStarts = 3
INVARIANTS
    CrashConsistent
    ReadsCurrent
    VerdictTrue
    SalvageTrue
PROPERTIES
    ImplementsRegister
CHECK_DEADLOCK FALSE
