SPECIFICATION Spec
CONSTANTS
    Plan0 = {"C2"}
    Backends = {"sim", "scsi", "sd"}
    Aggressive = {FALSE}
    Floors = {"C1", "C2"}
    StaleErase = {}
    StatusMayFail = FALSE
    HasDeadline = TRUE
    CycleCmdVaries = FALSE
    MaxFaults = 2
    MaxStops = 1
    MaxResumes = 2
INVARIANTS
    CompletedIsPrefix
CHECK_DEADLOCK FALSE
