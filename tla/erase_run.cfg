SPECIFICATION Spec
CONSTANTS
    Plan0 = {"C1", "C2"}
    Backends = {"sim", "scsi", "sd"}
    Aggressive = {TRUE}
    Floors = {"C1"}
    StaleErase = {}
    StatusMayFail = TRUE
    HasDeadline = TRUE
    CycleCmdVaries = FALSE
    MaxFaults = 1
    MaxStops = 1
    MaxResumes = 2
INVARIANTS
    EraseInv
    NoWriteDuringErase
    EraseEvidenceSound
    OkMeansSanitised
    RecordsInOrder
    ResumeGradeAgrees
CHECK_DEADLOCK FALSE
