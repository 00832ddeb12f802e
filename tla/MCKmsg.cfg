SPECIFICATION KmsgFairSpec
CONSTANTS
    MaxAlerts = 3
    Hour = 2
    MaxTasks = 3
INVARIANT
    AlertsAccounted
PROPERTY
    EventuallyCleared
