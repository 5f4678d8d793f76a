CONSTANTS
    Procs = {1, 2}
    Names = {"A", "D", "E", "F"}
    Rank <- MCRank
    None = None
    Scenarios <- MCScenarios
    MaxRetries = 4
    MaxFaults = 1
SPECIFICATION Spec
INVARIANTS DependenciesInOrder LockHeld TakeoverStops NoCircularWait
