\* Three jobs, one of two requests (search): a reply late by one job, a crash or
\* an error event with jobs queued behind the one in wait.
\* CHECK_DEADLOCK is off: callers stop making jobs.
SPECIFICATION Spec
CONSTANTS
    j1 = j1
    j2 = j2
    j3 = j3
    Jobs = {j1, j2, j3}
    NoJob = NoJob
    Calls <- MCCalls
    MayCrash = TRUE
INVARIANTS
    TypeOK
    EveryRequestIsAnswered
    CrashStopsTheWorker
PROPERTIES
    ImplementsCore
CHECK_DEADLOCK FALSE
