SPECIFICATION PlanJournalSpec
CONSTANTS
    Procs = {p1, p2}
    Plan <- MCPlan
    MaxFaults = 1
    MaxStarts = 3
    Requests <- MCRequests
    Units <- MCUnits
    Sites <- MCSites
SYMMETRY Symmetric
INVARIANTS
    Readable
    Resumable
    PolicyHolds
    SoundPlans
    OwnPlanRuns
PROPERTY ImplementsDurableLog
CHECK_DEADLOCK FALSE
