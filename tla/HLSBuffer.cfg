SPECIFICATION FairSpec
CONSTANTS
    NUM_OF_CACHED_SEGMENTS = 2
    SegmentCount = 3
    SegmentSize = 2
    MaxSeeks = 2
    MayFail = TRUE
INVARIANT RingConsistent
PROPERTIES InOrder CallsReturn EosIsReached
CHECK_DEADLOCK FALSE
