SPECIFICATION LinkSpec
CONSTANTS
    Window = 3
    Interval = 2
    Gaps <- MCGaps
    Error = 2
    Warning = 1
    MaxDowns = 2
    MaxPolls = 5
INVARIANTS
    RingIsEnough
    ErrorMeansFlapping
    FlappingIsError
CHECK_DEADLOCK FALSE
