SPECIFICATION FairSpec
CONSTANTS
    NUM_OF_CACHED_SEGMENTS = 3
    SegmentCount = 4
    SegmentSize = 1
    MaxSeeks = 1
    MayFail = FALSE
PROPERTY SeekReturns
CHECK_DEADLOCK FALSE
