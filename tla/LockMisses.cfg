CONSTANTS
    childRules = childRules
    mixed = mixed
    projections = projections
    Rails <- OneRail
    Kind <- Queued
    Gate <- Ungated
    Refetching = {}
    Seeding = {}
    Forgetting = {}
    Faults <- NoFaults
    Slots = {1, 2, 3, 4}
    ExtraPasses = 2
    MaxEdits <- TwoEdits
    MaxUnlocks = 0
SPECIFICATION Spec
CHECK_DEADLOCK FALSE
PROPERTIES FlushedBeforeLock
