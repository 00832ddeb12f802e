SPECIFICATION Spec
CONSTANTS
    flaps = flaps
    retries = retries
    state = state
    flapping = flapping
    down = down
    NoCategory = NoCategory
    Keys <- MCKeys
    Strikes <- MCStrikes
    Category <- MCCategory
INVARIANTS
    DegradedIsPermanent
PROPERTY
    StrikesHold
