SPECIFICATION Spec
CONSTANTS
    Handles = {h1, h2, h3}
    Nil = Nil
    a = a b = b 
    Ids = {a, b}
    NoParent = NoParent
    Clean = Clean
    InitialWorlds <- EmptySpace
    PageLimit = 1
    MaxInbox = 2
    MaxDirty = 0
    KeepsPointers = FALSE
INVARIANTS EntityListsAgree DestructionsAreNotLost
PROPERTY ImplementsEntityStore
CHECK_DEADLOCK FALSE
SYMMETRY HandleSymmetry
