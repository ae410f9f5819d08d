CONSTANTS
    d1 = d1
    d2 = d2
    Devices <- TwoDevices
    Ops = {1, 2, 3}
    ChunkOps = 1
    MaxSeq = 2
    MaxAttempts = 3
SPECIFICATION Spec
CHECK_DEADLOCK FALSE
SYMMETRY Symmetry
INVARIANTS TypeOK WholeOrNothing IntactUnlessReused
