SPECIFICATION FairSpec
CONSTANTS
    Runnables = {r1, r2, r3}
    Loops = {l1, l2}
    Event = Event
    None = None
INVARIANTS LoopsConsistent RunsInPostedOrder DispatcherMovesOn ReturnsOwnLoop
PROPERTIES PostedRunnablesRun LeavingLoopReturns
