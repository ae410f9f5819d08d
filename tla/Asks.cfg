SPECIFICATION Spec
CONSTANTS
    a1 = a1
    a2 = a2
    k1 = k1
    k2 = k2
    k3 = k3
    seal = seal
    Asks = {a1, a2}
    KindOf <- KindsOfTwo
    Sealed = {a1, a2}
    Seal = seal
    CeilingMax = 3
    Allowed <- OneRule
    Answers <- SecondOnce
    OthersSay = {"deny"}
    Foreign = {{k3}}
    Futures <- OneAtATime
    MaxCalls = 2
CHECK_DEADLOCK FALSE
INVARIANTS TypeOK OnceAccounted OpenWhenAllowed SettledRight ChoiceKept NobodyStuck
PROPERTIES SentIsFinal
