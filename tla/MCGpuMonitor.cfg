SPECIFICATION FairSpec
CONSTANTS
    incident = incident
    field = field
    gauge = gauge
    x48 = x48
    x43 = x43
    nvlink = nvlink
    remap = remap
    ecc = ecc
    contained = contained
    NoCategory = NoCategory
    Incidents <- MCIncidents
    Fields <- MCFields
    Xids <- MCXids
    Level <- MCLevel
    xid_warning <- MCWarning
    xid_ignore = {}
    xid_error = {}
    Category <- MCCategory
    MaxLosses = 2
    Apart = TRUE
INVARIANT
    ErrorIsNamed
PROPERTIES
    FaultReported
    RecoveryReported
    MismatchReported
    XidStaysReported
