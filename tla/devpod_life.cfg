CONSTANTS
    ErrStillAlive = ErrStillAlive
    NoError = NoError
    Errors = {Failure}
    LostConnection = Failure
    Failure = Failure
    Services = {"sync", "terminal"}
    MaxAttempts = 4
    MaxFaults = 2
SPECIFICATION FairSpec
INVARIANTS DeadMeansReturned AttemptsInTurn
PROPERTIES KeepsPromise Recovers
