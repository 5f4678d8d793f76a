CONSTANTS
    Paths <- MCPaths
    Above <- MCAbove
    Versions = {v1, v2}
    Absent = Absent
    NoEvent = NoEvent
    Capacity = 3
    MaxChanges = 2
    Environments <- MCEnvironments
SPECIFICATION FairSpec
INVARIANT NothingForgotten
PROPERTY EverythingTold
