CONSTANTS
    Files = {"f", "g"}
    ExcludeLists <- MCExcludeLists
    Contents <- MCContents
    Size <- MCSize
    Absent = Absent
    Times = {1, 2}
    Strategies = {"mirrorLocal", "preferLocal", "mirrorRemote", "preferRemote", "preferNewest", "keepAll", "disabled"}
    MaxDownloadErrors = 1
SPECIFICATION Spec
INVARIANTS SidesMerged NothingElseTouched
