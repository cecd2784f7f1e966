SPECIFICATION Spec
CONSTANTS
    Threads = {"launcher", "other", "worker"}
    OtherItems = {"running", "update", "succeeded", "failed", "cancelled"}
    MaxWindows = 1
    MaxActs = 4
    MaxUpdates = 2
    TaskActs = 3
INVARIANTS
    IdleConsistent
    AcceptedIsRun
    StopBeforeExit
    TaskConsistent
PROPERTIES
    ExitsInTheEnd
    RunAndWaitReturns
CHECK_DEADLOCK FALSE
