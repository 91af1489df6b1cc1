\* Two calls and one expiry of the token on one worker, no retries: a refresh that fails.
CONSTANTS
    Workers = {w1}
    App = app
    MaxRetries = 0
    MaxLoad = 3
SPECIFICATION FairSpec
PROPERTY FailedRefreshDoesNotFreeze
CHECK_DEADLOCK FALSE
