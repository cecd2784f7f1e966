SPECIFICATION FairSpec
CONSTANTS
    Size = 3
    Threshold = 1
    Tolerance = 1
    MaxSeeks = 2
    MaxTarget = 4
    MayEnd = TRUE
INVARIANT CacheConsistent
PROPERTIES InOrder SeekWins CallsReturn EosDelivered RangeAnswered
CHECK_DEADLOCK FALSE
