SPECIFICATION PlanJournalSpec
CONSTANTS
    Procs = {p1, p2}
    Plan <- MCPlan
    MaxFaults = 1
    MaxStarts = 3
    Requests <- MCRequests
    Units <- MCUnits
    Sites <- MCSites
SYMMETRY Symmetric
INVARIANT OnlyFinalTorn
CHECK_DEADLOCK FALSE
