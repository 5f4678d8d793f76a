CONSTANTS
    Initial = {"a", "b", "c"}
    Edits = {"x"}
    Known = {"a", "x"}
    ChannelSize = 1
    BatchSize = 2
SPECIFICATION FairQueue
INVARIANTS CommandsInTime
PROPERTIES UploadGoesOn
