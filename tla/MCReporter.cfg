SPECIFICATION Spec
CONSTANTS
    network = network
    proc = proc
    b1 = b1
    b2 = b2
    NoReport = NoReport
    Nothing = Nothing
    Names <- MCNames
    ClearOnCreate <- MCClearOnCreate
    Bodies <- MCBodies
    Reports <- TwoErrors
    EnableGhr = TRUE
    MaxInFlight = 2
INVARIANTS
    ChangesArePublished
    NothingInherited
    ConditionIsCurrent
CHECK_DEADLOCK FALSE
