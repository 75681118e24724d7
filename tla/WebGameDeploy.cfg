SPECIFICATION FairSpec
CONSTANTS
    p0 = p0  p1 = p1  p2 = p2
    Pins <- MCPins
    NoImage = NoImage
    Generations = {1, 2}
    Requests <- MCRequests
    NoJournal = NoJournal
    NoRequest = NoRequest
    MaxDeploys = 3
    MaxFaults = 2
    MaxEdits = 2
    MaxCrashes = 1
    MaxOthers = 1
INVARIANT TypeOK
PROPERTY ChangeSpec
PROPERTY OnlyApproved
PROPERTY RepairConverges
CHECK_DEADLOCK FALSE
