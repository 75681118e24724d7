SPECIFICATION FairSpec
CONSTANTS
    s1 = s1
    s2 = s2
    Servers <- MCServers
    Long = {s2}
    NoMap <- MCNoMap
    none = none
    NoCall = NoCall
    Broken = Broken
    MaxChanges = 2
    MaxFaults = 3
INVARIANT AnswerIsTrue
INVARIANT MapIsSound
PROPERTY EventuallyPublished
CHECK_DEADLOCK FALSE
