\* Three opens, a crash or a configure, three cores: two opens find a core dead,
\* or a core fails when another took its place.
SPECIFICATION OpeningSpec
CONSTANTS
    o1 = o1
    o2 = o2
    o3 = o3
    Opens = {o1, o2, o3}
    Sources = {"default"}
    Default = "default"
    MaxConfigures = 1
    MaxDrops = 0
    MaxCores = 3
SYMMETRY Symmetry
INVARIANT
    OneCore
CHECK_DEADLOCK FALSE
