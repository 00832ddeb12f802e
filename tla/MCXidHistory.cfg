SPECIFICATION Spec
CONSTANTS
    xid48 = xid48
    xid94 = xid94
    Never = Never
    Xids <- MCXids
    MaxTime = 2
    MaxSaves = 3
INVARIANTS
    NothingStale
    SavedWhenQuiet
PROPERTY
    FileKeepsXids
