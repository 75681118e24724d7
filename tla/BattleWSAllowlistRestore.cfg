SPECIFICATION Spec
CONSTANTS
    s1 = s1
    s2 = s2
    Servers <- MCServers
    Long = {s2}
    NoMap <- MCNoMap
    none = none
    NoCall = NoCall
    Broken = Broken
    MaxChanges = 3
    MaxFaults = 3
PROPERTY RestoresLastValid
CHECK_DEADLOCK FALSE
