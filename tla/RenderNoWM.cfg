SPECIFICATION Spec
CONSTANTS
    NoScene = NoScene
    BareStage = BareStage
    Scenes = {s1}
    Presenting = {s1}
    HasWindowManager = FALSE
    BareStages = TRUE
    LiveResize = FALSE
    VsyncHint = TRUE
    DeviceFaults = TRUE
    PulseThrows = FALSE
    MaxEvents = 3
INVARIANTS PaintingHasJob NoFrameForgotten
CHECK_DEADLOCK FALSE
