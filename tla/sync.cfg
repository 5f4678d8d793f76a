CONSTANTS
    Files = {"f", "g"}
    Contents <- FullContents
    Size <- FullSize
    Truncated = "a"
    Absent = Absent
    SyncRetries = 2
    TicksPerSecond = 1
    Environments <- MCEnvironments
SPECIFICATION FairSpec
INVARIANTS TypeOK SettledInSync NoEcho
PROPERTIES NeverOlder ExcludesHonoured LoopsGoOn
CHECK_DEADLOCK FALSE
