\* A request that needs one CMap, in a document whose fonts name two.
SPECIFICATION Spec
CONSTANTS
    c1 = c1
    c2 = c2
    j1 = j1
    j2 = j2
    j3 = j3
    Jobs = {j1, j2}
    NoJob = NoJob
    CMaps = {c1, c2}
    Calls <- OneCall
    ScanFinds = {c1, c2}
    MayCrash = FALSE
INVARIANT
    GuessesAreFree
CHECK_DEADLOCK FALSE
