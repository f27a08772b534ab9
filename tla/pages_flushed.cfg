\* The application also reads the annotations of a page of a list that a close()
\* flushed, or is about to.
SPECIFICATION Spec
CONSTANTS
    LastPage = 1
    ReadsFlushed = TRUE
    MaxCalls = 5
    MaxOthers = 0
INVARIANT
    RefsNameTheirPages
CHECK_DEADLOCK FALSE
