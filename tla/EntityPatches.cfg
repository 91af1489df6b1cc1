SPECIFICATION Spec
CONSTANTS
    Clients = {c1, c2}
    Types = {script, plain}
    ScriptData = script
    Deleted = deleted
    Values = {0, 1}
    DefaultValue = 0
    None = None
    Shared = Shared
    End = 2
    MaxId = 1
    MaxChanges = 5
    MaxInbox = 2
    CallsFail = TRUE
SYMMETRY ClientSymmetry
INVARIANTS TypeOK ReplicasAgree
PROPERTIES OnlyRemovedComponentsVanish LockHolds
CHECK_DEADLOCK FALSE
