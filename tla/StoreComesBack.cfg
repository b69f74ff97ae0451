CONSTANTS
    None = None
    g1 = g1
    Groups = {g1}
    NewGroups = {None}
    Sizes <- TextSizes
    Reserve = 1
    MaxBody = 3
    MaxRecords = 2
    Entries = {4}
    ByAge = FALSE
    Tears = {}
    MaxId = 3
    MaxEdits = 2
    MaxCrashes = 0
SPECIFICATION Spec
INVARIANTS RestartChangesNothing
CHECK_DEADLOCK FALSE
