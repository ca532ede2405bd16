SPECIFICATION Spec
CONSTANTS
    Worker = {w1, w2, w3}
    NoRow = NoRow
    Nobody = Nobody
    Interval = 2
    CrashLease = 3
    MaxCycle = 2
    NJobs = 2
    MaxTime = 7
    MaxCrashes = 2
INVARIANTS TypeOK SingleOwner
PROPERTIES CadenceKept ImplementsSingleRunner
