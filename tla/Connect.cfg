CONSTANTS
    r1 = r1
    r2 = r2
    c1 = c1
    c2 = c2
    NoRequest = NoRequest
    Requests <- TwoRequests
    Clients <- TwoClients
    ClientOf <- OwnApp
    Paired <- FirstPaired
    NumRelays <- FirstHasTwo
    MaxAttempts = 2
    Disturbances <- SecondDisturbed
SPECIFICATION FairSpec
CHECK_DEADLOCK FALSE
INVARIANTS TypeOK OneAnswer CancelledNotServed PairingSettled
PROPERTIES ImplementsAnswerOnce ApprovalEnds LateCancelUndone
