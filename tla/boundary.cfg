\* Two documents and 5 calls: enough to open one, derive a page, free it, void a
\* call and replay the freed page, or to open two and reach both in one call, so
\* that a void one rebuilds both; two CMaps, one the scan finds and one it misses.
\* CHECK_DEADLOCK is off: JavaScript stops after MaxCalls calls.
SPECIFICATION Spec
CONSTANTS
    c1 = c1
    c2 = c2
    CMaps = {c1, c2}
    NoCMap = NoCMap
    Site = Site
    Handles = {1, 2, 3, 4, 5}
    Scripts <- MCScripts
    ScanFinds = {c1}
    HistoryLimit = 2
    MaxDocuments = 2
    MaxCalls = 5
INVARIANTS
    HistoryIsTheLog
    IdentitiesAreUnique
    OnlyUnrecordedAreLost
PROPERTIES
    ImplementsPython
    VoidLeavesNoTrace
CHECK_DEADLOCK FALSE
