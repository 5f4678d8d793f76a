CONSTANTS
    Names = {"x", "y", "z", "w", "u", "P"}
    Predefined = {"P"}
    Words = {"", "true", "false", "output", "1", "a", "b", "lib", "other", "deep", "old", "more", "base", "child", "far", "patch", "text", "loop", "none"}
    Numbers = {"1"}
    Answers = {"1", "lib"}
    Files <- MCFiles
    Objects <- MCObjects
    Commands <- MCCommands
    Keys = {"app", "db", "run"}
    RuntimeKeys = {"run"}
    Refused = {"b"}
    MaxDepth = 4
    MaxLoads = 3
SPECIFICATION MCSpec
INVARIANTS MergedInOrder VariablesResolved Repeatable
PROPERTIES LoadEnds
