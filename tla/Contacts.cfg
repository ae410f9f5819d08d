CONSTANTS
    Devices <- Two
    Keys <- OneKey
    Lists <- OneList
    Actor <- OneOwner
    Tie <- Ties
    Start <- Known
    FamilyOpen <- OnP
    Kinds <- Split
    MaxCalls <- TwoAndOne
SPECIFICATION Spec
CHECK_DEADLOCK FALSE
INVARIANTS TypeOK StampsDistinct ScreenCatchesUp RemovalStands BlockStands
PROPERTIES EffectFollowsCause CallShows AliasKept
