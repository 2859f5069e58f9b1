SPECIFICATION FairSpec
CONSTANTS
    Plan0 = {"C2"}
    Backends = {"sim", "scsi", "sd"}
    Aggressive = {FALSE}
    Floors = {"C1"}
    StaleErase = {"running", "completed"}
    StatusMayFail = TRUE
    HasDeadline = FALSE
    CycleCmdVaries = TRUE
    MaxFaults = 1
    MaxStops = 1
    MaxResumes = 1
INVARIANTS
    NoBlindReissue
PROPERTIES
    Terminates
CHECK_DEADLOCK FALSE
