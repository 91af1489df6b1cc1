SPECIFICATION Spec
CONSTANTS
    MaxCalls = 3
    MaxOverlap = 2
    MaxFailures = 1
    None = None
INVARIANTS
    TypeOK AnnotationsAreBacked AssetsAreSingle
PROPERTIES
    SuccessIsWhole HandledCallsAreAnswered
CHECK_DEADLOCK FALSE
