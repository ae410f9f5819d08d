CONSTANTS
    d1 = d1
    d2 = d2
    d3 = d3
    r1 = r1
    r2 = r2
    o1 = o1
    o2 = o2
    o3 = o3
    CheckpointTag = CheckpointTag
    Devices <- OneDevice
    Relays <- OneRelay
    Ops <- ThreeOps
    Disturbances <- OnlyRefetch
    MaxIds = 16
    Threshold = 1
    MaxOutbox = 1
    MaxLog = 2
    MaxStamp = 9
SPECIFICATION FairSpec
CHECK_DEADLOCK FALSE
PROPERTIES EditPublished
