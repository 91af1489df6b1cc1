SPECIFICATION Spec
CONSTANTS
    Engines = {e1}
    Spaces = {s1}
    None = None
    MaxFaults = 0
    MaxCalls = 3
    MaxPages = 1
INVARIANT ReleasedEnginesAreUnused
CHECK_DEADLOCK FALSE
