SPECIFICATION FairSpec
CONSTANTS
    Buffers = {b1, b2, b3}
    small = small
    wide = wide
    Dims = {small, wide}
    Area <- MCArea
    None = None
    MaxFrames = 3
INVARIANT SourceConsistent
PROPERTIES WritesUnusedOnly IsLatestFrame NewestShown
CHECK_DEADLOCK FALSE
