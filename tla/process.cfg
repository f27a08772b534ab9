\* Two symbols beside the imported one, a call site and an instruction; 3
\* internings by calls and 2 snapshots: chains that share a node, that share none
\* but the import's, and a symbol interned on both branches.
\* CHECK_DEADLOCK is off: the bounds on internings and snapshots may stop it.
SPECIFICATION Spec
CONSTANTS
    a = a
    b = b
    c = c
    pattern = pattern
    site = site
    attr = attr
    Page = Page
    Cropped = Cropped
    NoClass = NoClass
    Symbols = {a, b, c}
    Things = {}
    Sites = {site}
    FirstTime <- MCFirst
    NextTimes <- MCNext
    AttrSites = {attr}
    Classes = {Page}
    Cooldown = 1
    MaxBackoff = 1
    Ones <- MCOnes
    MaxRoom = 2
    Imported <- MCImported
    MaxNodes = 4
    MaxSnapshots = 2
INVARIANTS
    TypeOK
    SetIsItsNode
PROPERTIES
    ImplementsMemory
    RestoreEnds
CHECK_DEADLOCK FALSE
