SPECIFICATION Spec
CONSTANTS
    h1 = h1
    h2 = h2
    h3 = h3
    Handles = {h1, h2, h3}
    None = None
    Scenes <- MCScenes
    FirstId = 4
    MaxNesting = 2
INVARIANTS
    HierarchyAgrees RootListIsSound ChildrenMoveFirst NobodyIsUnreachable
CHECK_DEADLOCK FALSE
