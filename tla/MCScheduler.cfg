SPECIFICATION FairSpec
CONSTANTS
    l1 = l1
    l2 = l2
    o1 = o1
    j1 = j1
    j2 = j2
    j3 = j3
    Free = Free
    Loops <- MCLoops
    OneShots <- MCOneShots
    PoolJobs <- MCPoolJobs
    MaxCancels = 1
INVARIANTS
    DiagnosticsSerialised
    OneLoopPerCancel
PROPERTIES
    LockIsFifo
    NothingStartsAfterStop
    LoopsKeepRunning
    WaitingDiagnosticsRun
    StopCleansUp
CHECK_DEADLOCK FALSE
