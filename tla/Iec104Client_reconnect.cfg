\* One station with two points that change, and connections that break.
SPECIFICATION FairSpec
CHECK_DEADLOCK FALSE
CONSTANTS
    Points <- MCPoints
    TypeOf <- MCTypeOf
    CaOf <- MCCaOf
    IoaOf <- MCIoaOf
    Registered <- MCPoints
    Values = {0, 1}
    Initial <- MCInitial
    MaxAttempts = 1
    Window = 2
    MaxQueue = 1
    MaxSeq = 2
    MaxFaults = 2
INVARIANT AckIsExact
INVARIANT GivenUpIsClosed
PROPERTY DispatchIsExact
PROPERTY CatchesUp
PROPERTY StopEnds
