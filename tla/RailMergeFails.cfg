CONSTANTS
    d1 = d1
    d2 = d2
    d3 = d3
    r1 = r1
    r2 = r2
    o1 = o1
    o2 = o2
    o3 = o3
    CheckpointTag = CheckpointTag
    Devices <- TwoDevices
    Relays <- OneRelay
    Ops <- TwoOps
    Disturbances <- OnlyMerge
    MaxIds = 16
    Threshold = 1
    MaxOutbox = 9
    MaxLog = 9
    MaxStamp = 4
SPECIFICATION Spec
CHECK_DEADLOCK FALSE
SYMMETRY Symmetry
INVARIANTS FoldsBase
