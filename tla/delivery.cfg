CONSTANTS
    A = A
    B = B
    app = app
    lib = lib
    web = web
    db = db
    o1 = o1
    o2 = o2
    Users = {A, B}
    Images = {app, lib}
    Pinned = {lib}
    Versions = {1, 2}
    MaxConcurrent = 0
    MaxTags = 3
    None = None
    Deployments = {web, db}
    Objects = {o1, o2}
    Configs <- MCConfigs
    MaxRevisions = 3
    Overlap = FALSE
    MaxCommands = 3
    MaxEdits = 2
    MaxFaults = 1
SYMMETRY Symmetry
SPECIFICATION MCSpec
INVARIANTS CachedImageIsBuilt Delivered RecordAgrees
