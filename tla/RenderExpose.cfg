SPECIFICATION Spec
CONSTANTS
    NoScene = NoScene
    BareStage = BareStage
    Scenes = {s1, s2}
    Presenting = {s1}
    HasWindowManager = TRUE
    BareStages = FALSE
    LiveResize = FALSE
    VsyncHint = TRUE
    DeviceFaults = FALSE
    PulseThrows = FALSE
    MaxEvents = 1
INVARIANT NoRepaintForgotten
CHECK_DEADLOCK FALSE
