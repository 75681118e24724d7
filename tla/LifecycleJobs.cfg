SPECIFICATION FairSpec
CONSTANTS
    i1 = i1  i2 = i2  i3 = i3
    o1 = o1  o2 = o2
    Ids <- MCIds
    NoId = NoId
    Ops <- MCOps
    NoOp = NoOp
    MaxEntries = 2
    Retention = 2
INVARIANT TableIsSound
INVARIANT RunningHasWorker
PROPERTY OutcomeStands
PROPERTY ResultIsKept
PROPERTY RoomReturns
