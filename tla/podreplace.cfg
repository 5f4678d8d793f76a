CONSTANTS
    Procs = {p1, p2}
    Roots = {"one", "two"}
    Confs <- MCConfs
    Budget <- MCBudget
    MaxReplicas = 2
    MaxLevel = 2
SYMMETRY Symmetry
SPECIFICATION Spec
INVARIANTS Recoverable BuiltAsAsked
PROPERTIES UpToDate RevertedAsAsked
