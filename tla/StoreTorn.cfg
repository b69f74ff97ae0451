CONSTANTS
    None = None
    g1 = g1
    Groups = {g1}
    NewGroups = {None}
    Sizes <- LineSizes
    Reserve = 1
    MaxBody = 3
    MaxRecords = 2
    Entries = {4}
    ByAge = FALSE
    Tears = {"cut", "garbled", "unended"}
    MaxId = 5
    MaxEdits = 1
    MaxCrashes = 2
SPECIFICATION Spec
INVARIANTS TornLineCostsTwo
CHECK_DEADLOCK FALSE
