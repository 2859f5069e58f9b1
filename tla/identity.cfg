SPECIFICATION FairSpec
CONSTANTS
    None = None
    MaxInt = 31
    Sector = 2
    Profiles <- MCProfiles
    Probes <- MCProbes
    Controllers <- MCControllers
    Packages <- MCPackages
    MaxChanges = 2
    Limit = 2
    Requests <- MCRequests
    Size <- MCSize
    Backends = {"block", "sim"}
    MaxFaults = 2
    MaxSwaps = 1
    Kinds <- MCKinds
    Plans <- MCPlans
    Names = {"sda", "sdb"}
    MaxEvents = 2
    MaxCrashes = 1
    MaxResumes = 1
INVARIANTS
    OnlyOurs
    BoundaryChecked
    Anchored
    Vetted
    GenuineAdmitted
    InRange
    OkMeansRestored
PROPERTY
    Ends
CHECK_DEADLOCK FALSE
