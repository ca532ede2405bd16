SPECIFICATION FairSpec
CONSTANTS
    Worker = {w1, w2}
    NoRow = NoRow
    Nobody = Nobody
    Interval = 2
    CrashLease = 3
    MaxCycle = 5
    NJobs = 1
    MaxTime = 8
    MaxCrashes = 2
PROPERTIES LeaseKeptWhileRunning SlotsKeepComing
