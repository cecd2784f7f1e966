SPECIFICATION FairSpec
CONSTANTS
    HLSModes = {FALSE, TRUE}
    Duration = 2
    ResumeDelta = 0
    CacheSize = 1
    Calls = {"play"}
    MaxCalls = 1
    MaxUnderruns = 1
    MaxFaults = 1
    WithDispose = TRUE
INVARIANTS RecordSafe StoppedForGood
PROPERTIES StallEnds DisposeEnds MainLoopGoesOn
CHECK_DEADLOCK FALSE
