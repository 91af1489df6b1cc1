\* Two calls of any mode, or one call and one expiry of the token; one retry each.
CONSTANTS
    Workers = {w1, w2}
    App = app
    MaxRetries = 1
    MaxLoad = 2
SPECIFICATION FairSpec
INVARIANT TypeOK
INVARIANT AnsweredAtMostOnce
INVARIANT HeldRequestsAreAlive
INVARIANT ClosesOnlyWhenIdle
INVARIANT GivesUpOnlyAfterRetries
PROPERTY RequestsAreAnswered
PROPERTY DestructionCompletes
CHECK_DEADLOCK FALSE
