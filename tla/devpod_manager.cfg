CONSTANTS
    Names = {"a", "b"}
    Jobs = {"main", "background"}
    Main = "main"
    Scripts <- MCScripts
SPECIFICATION ManagerSpec
INVARIANTS OnlyDevPod NothingSurvivesClose AllOrNothing
PROPERTIES ManagerGoesOn
CHECK_DEADLOCK FALSE
