SPECIFICATION FairSpec
CONSTANTS
    Handles = {h1, h2}
    Nil = Nil
    a = a b = b 
    Ids = {a, b}
    NoParent = NoParent
    Clean = Clean
    InitialWorlds <- ChildFirst
    PageLimit = 1
    MaxInbox = 2
    MaxDirty = 1
    KeepsPointers = TRUE
INVARIANTS ParentChildAgree QueuedUpdatesAreLive
PROPERTY DestructionsAreApplied
CHECK_DEADLOCK FALSE
