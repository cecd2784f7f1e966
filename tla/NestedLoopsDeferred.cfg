SPECIFICATION FairSpec
CONSTANTS
    Runnables = {r1, r2}
    Loops = {l1, l2}
    Event = Event
    None = None
PROPERTY EveryRunnableRuns
