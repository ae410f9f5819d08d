CONSTANTS
    childRules = childRules
    mixed = mixed
    projections = projections
    Rails <- TwoRails
    Kind <- TwoKinds
    Gate <- AllReach
    Refetching <- OnlyMixed
    Seeding <- OnlyMixed
    Forgetting = {}
    Faults <- SecondFaulty
    Slots = {1,2}
    ExtraPasses = 1
    MaxEdits <- FewEdits
    MaxUnlocks = 1
SPECIFICATION FairSpec
CHECK_DEADLOCK FALSE
INVARIANTS TypeOK RegistryTells
PROPERTIES OwedBeforeLock EditsReachRelay LockPromised
