\* One page: five calls are enough to read it twice, close, derive a page from it,
\* read its annotations and resolve a reference; another document takes a handle.
\* CHECK_DEADLOCK is off: the application stops calling.
SPECIFICATION Spec
CONSTANTS
    LastPage = 1
    ReadsFlushed = FALSE
    MaxCalls = 5
    MaxOthers = 1
INVARIANTS
    HandlesKeepTheirPages
    FreesItsOwn
    PagesAreCurrent
    RefsNameTheirPages
    SameObject
    NothingLeaks
CHECK_DEADLOCK FALSE
