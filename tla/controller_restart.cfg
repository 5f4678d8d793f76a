CONSTANTS
    ErrStillAlive = ErrStillAlive
    NoError = NoError
    Errors = {SyncError, LostConnection}
    SyncError = SyncError
    LostConnection = LostConnection
    Paths = {"p", "q"}
    NoWatch = {}
    StartContainer = {"p", "q"}
    MaxFailures = 2
SPECIFICATION FairSpec
INVARIANTS ContainerWaits
PROPERTIES NoSilentEnd TombDies
