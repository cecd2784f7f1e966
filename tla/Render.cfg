SPECIFICATION FairSpec
CONSTANTS
    NoScene = NoScene
    BareStage = BareStage
    Scenes = {s1, s2}
    Presenting = {s1}
    HasWindowManager = TRUE
    BareStages = FALSE
    LiveResize = TRUE
    VsyncHint = TRUE
    DeviceFaults = FALSE
    PulseThrows = TRUE
    MaxEvents = 1
INVARIANTS TypeOK LatchServed DirtyTracked
PROPERTIES WaitsEnd ChangesArePainted
CHECK_DEADLOCK FALSE
