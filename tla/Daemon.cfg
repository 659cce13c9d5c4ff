CONSTANTS
    Names = {"a", "b"}
    Defs <- FewDefs
    Resources = {1, 2}
    Absent = Absent
    Broken = Broken
    MaxEdits = 2
    MaxErrors = 1
    Others = TRUE
    Stops = TRUE
SPECIFICATION FairSpec
INVARIANTS ReloadAccounted CloseStopsAll
PROPERTIES Converges
CHECK_DEADLOCK FALSE
