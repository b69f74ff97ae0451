CONSTANTS
    None = None
    g1 = g1
    Groups = {g1}
    NewGroups = {None}
    Sizes <- TextSizes
    Reserve = 1
    MaxBody = 3
    MaxRecords = 2
    Entries = {2}
    ByAge = TRUE
    Tears = {}
    MaxId = 3
    MaxEdits = 2
    MaxCrashes = 2
SPECIFICATION Spec
INVARIANTS TypeOK NoLoss BodyThere EvictionIsFinal IdsNotReused
CHECK_DEADLOCK FALSE
