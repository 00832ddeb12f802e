SPECIFICATION Spec
CONSTANTS
    s1 = s1
    s2 = s2
    w1 = w1
    w2 = w2
    Main = Main
    None = None
    Services <- MCServices
    Workers <- MCWorkers
    MaxBus = 1
    MaxTasks = 2
INVARIANTS
    OneHandlerPerUnit
    MonitoringBegins
    FailureReported
    RecoveryReported
SYMMETRY MCSymmetry
CHECK_DEADLOCK FALSE
