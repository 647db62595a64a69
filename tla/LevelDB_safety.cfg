SPECIFICATION DBSpec
CONSTANTS
    w1 = w1
    w2 = w2
    Writers <- MCWriters
    Batches <- MCBatches
    Keys = {1, 2}
    NumLevels = 3
    MaxMemCompactLevel = 1
    GrandParentLimit = 0
    ExpandedLimit = 4
    WriteBuffer = 0
    L0Stop = 2
    MaxSequence = 4
    GroupedSequence = 3
    MergingEvents = 1
    MaxEvents = 2
    BlockSize = 6
    HeaderSize = 2
    Lengths = {0, 1, 3, 7}
    MaxRecords = 3
    MaxFailed = 2
SYMMETRY MCSymmetry
INVARIANTS FilesPresent ReadsSnapshot ReplaysLog
PROPERTY Implements
CHECK_DEADLOCK FALSE
