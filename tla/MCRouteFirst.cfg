CONSTANTS
    None = None
    walk = walk
    ride = ride
    f1 = f1
    f2 = f2
    Vertices = {1, 2, 3, 4, 5}
    Edges = {1, 2, 3, 4, 5}
    Modes = {walk, ride}
    MaxJourneys = 4
    MaxAggregateWork = 200
    Requests <- MCRequests
    Calls <- MCCalls
    MaxClientArray = 4
    MaxIdParts = 4
    MaxFingerprint = 2
SPECIFICATION ContractSpec
INVARIANT EnumerationIsExact
INVARIANT HonestAnswerHolds
INVARIANT CompleteCoversEveryPath
INVARIANT MeetingPlacesAreExact
INVARIANT PublishedAsEvaluated
INVARIANT DrawnWhole
CHECK_DEADLOCK FALSE
