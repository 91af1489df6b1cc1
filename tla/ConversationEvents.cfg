SPECIFICATION Spec
CONSTANTS
    Objects = {c1, c2}
    Conversations = {k1, k2}
    Shared = {k1}
    MaxEvents = 2
    MaxCreating = 2
    None = None
INVARIANTS
    TypeOK EventsKeepTheirOrder NoEventIsForgotten
PROPERTY RemovedComponentsStaySilent
CHECK_DEADLOCK FALSE
