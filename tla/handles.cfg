\* 3 slots of 3 generations and 6 objects: the table fills (insertions are
\* refused), and a slot is used 4 times or more, so its generation wraps.
SPECIFICATION HandlesSpec
CONSTANTS
    MaxHandles = 3
    Generations = 3
    MaxInserts = 6
INVARIANTS
    HandlesTypeOK
    FreeIsTheEmptySlots
    StaleHandleRefused
CHECK_DEADLOCK FALSE
