\* Three opens, two sources, two calls of configure, two of dropCore, four cores:
\* a core fails or crashes while two opens wait for it and the options change.
\* CHECK_DEADLOCK is off: applications stop opening documents.
SPECIFICATION OpeningSpec
CONSTANTS
    o1 = o1
    o2 = o2
    o3 = o3
    Opens = {o1, o2, o3}
    Sources = {"default", "other"}
    Default = "default"
    MaxConfigures = 2
    MaxDrops = 2
    MaxCores = 4
SYMMETRY Symmetry
INVARIANTS
    OptionsApply
    DroppedIsStopped
CHECK_DEADLOCK FALSE
