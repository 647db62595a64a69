CONSTANTS
    Workers = {w1, w2}
    Master = m
    Checks = {c1, c2, c3, c4}
    nBatchSize = 2
    MaxBlocks = 2
    MaxSpurious = 1
    None = None
SPECIFICATION Spec
SYMMETRY Symmetric
INVARIANTS Counted
PROPERTIES Implements
