SPECIFICATION Spec
CONSTANTS
    Clients = {c1, c2}
    None = None
    MaxInbox = 2
INVARIANTS
    InformedViewsFollowServer
    OnlyElectedClientsTick
    ScriptListenerHasManager
PROPERTY UnawareLeaderIsReplaced
