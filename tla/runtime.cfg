\* Three jobs of one or two calls, two CMaps, the scan finding one of them: a
\* fetch that outlives its job is shared by a later one, or lands in its middle.
\* CHECK_DEADLOCK is off: callers stop making jobs.
SPECIFICATION Spec
CONSTANTS
    c1 = c1
    c2 = c2
    j1 = j1
    j2 = j2
    j3 = j3
    Jobs = {j1, j2, j3}
    NoJob = NoJob
    CMaps = {c1, c2}
    Calls <- MCCalls
    ScanFinds = {c1}
    MayCrash = TRUE
INVARIANTS
    TypeOK
    OneAtATime
    FetchedOnce
    NoLostFetch
PROPERTIES
    ImplementsCore
    AsksForAllOnce
CHECK_DEADLOCK FALSE
