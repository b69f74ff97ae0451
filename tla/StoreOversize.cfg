CONSTANTS
    None = None
    g1 = g1
    Groups = {g1}
    NewGroups = {None}
    Sizes <- BigSizes
    Reserve = 1
    MaxBody = 3
    MaxRecords = 2
    Entries = {1, 2}
    ByAge = FALSE
    Tears = {}
    MaxId = 3
    MaxEdits = 0
    MaxCrashes = 0
SPECIFICATION FairSpec
PROPERTIES AppendEnds
CHECK_DEADLOCK FALSE
