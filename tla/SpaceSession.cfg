SPECIFICATION FairSpec
CONSTANTS
    Engines = {e1}
    Spaces = {s1}
    None = None
    MaxFaults = 2
    MaxCalls = 5
    MaxPages = 1
INVARIANTS
    OnlyLateCallsAreCut StopCallbacksAreAwaited SuccessMeansJoined LoggedOutIsDisconnected
PROPERTIES
    EnterAndExitAreAnswered LogoutIsAnswered
CHECK_DEADLOCK FALSE
