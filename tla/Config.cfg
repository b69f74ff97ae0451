SPECIFICATION Spec
CONSTANTS
    Requests = {r1, r2, r3}
    Kinds = {"addGroup", "updateGroup", "deleteGroup", "reorder", "putAccess", "addChannel", "updateChannel", "deleteChannel", "addRule", "updateRule", "deleteRule", "putAccount", "putLimit", "setGroup", "deleteMessages", "regroup"}
    NamedIds = {1, 2}
    NamedUses = {{1, 2}}
    Workers = 2
    Messages = {1, 2}
    PageLimit = 1
    Files = {i1, i2, i3, i4, i5, i6, i7}
    MaxCrashes = 1
    None = None
    Torn = Torn
INVARIANTS EditsStay TornNeedsOverlap IdsKeepTheirMeaning GroupsOfMessagesExist SettingsAgree
SYMMETRY Alike
CHECK_DEADLOCK FALSE
