CONSTANTS
    Workers = {w1, w2}
    Master = m
    Checks = {c1, c2}
    nBatchSize = 2
    MaxBlocks = 2
    MaxSpurious = 1
    None = None
SPECIFICATION FairSpec
PROPERTY CallsReturn
CHECK_DEADLOCK FALSE
