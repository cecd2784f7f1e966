SPECIFICATION Spec
CONSTANTS
    HLSModes = {FALSE, TRUE}
    Duration = 2
    ResumeDelta = 0
    CacheSize = 1
    Calls = {"play", "pause", "stop", "seek", "rate0", "rate1", "finish"}
    MaxCalls = 2
    MaxUnderruns = 1
    MaxFaults = 0
    WithDispose = FALSE
INVARIANTS PlayerConsistent LastCallWins
CHECK_DEADLOCK FALSE
