SPECIFICATION Spec
CONSTANTS
    KillPoints = {"descriptor-sync"}
    MaxStores = 4
    MaxKills = 1
INVARIANTS
    CrashConsistent
CHECK_DEADLOCK FALSE
