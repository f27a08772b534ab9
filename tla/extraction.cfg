\* Page trees of up to 5 objects, files of up to 4 sections, contents of up to 20
\* tokens over two forms; a document is closed and read again within 4 calls.
\* MaxDepth is small: forms within forms and sections that lead in a circle reach it.
SPECIFICATION Spec
CONSTANTS
    Bad = "bad"
    Huge = "huge"
    NoFont = "no font"
    MaxDepth = 6
    Documents <- MCDocuments
    DefaultHeight = 3
INVARIANTS
    SectionsAreTheChain
    ListsAreWhole
    NoStreamInsideItself
    DeviceFollows
    FiguresAreTheForms
PROPERTIES
    LayoutIsRepeatable
    CallsEnd
