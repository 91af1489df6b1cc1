SPECIFICATION Spec
CONSTANTS
    Handles = {h1, h2}
    Nil = Nil
    a = a b = b 
    Ids = {a, b}
    NoParent = NoParent
    Clean = Clean
    InitialWorlds <- ChildFirst
    PageLimit = 1
    MaxInbox = 2
    MaxDirty = 0
    KeepsPointers = FALSE
INVARIANT ParentPointersAreLive
CHECK_DEADLOCK FALSE
SYMMETRY HandleSymmetry
