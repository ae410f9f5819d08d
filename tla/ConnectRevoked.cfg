CONSTANTS
    r1 = r1
    r2 = r2
    c1 = c1
    c2 = c2
    NoRequest = NoRequest
    Requests <- OneRequest
    Clients <- OneClient
    ClientOf <- SameApp
    Paired <- FirstPaired
    NumRelays <- TwoEach
    MaxAttempts = 1
    Disturbances <- FirstRevoked
SPECIFICATION Spec
CHECK_DEADLOCK FALSE
INVARIANTS RevokedStaysRevoked
