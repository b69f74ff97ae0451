CONSTANTS
    old = old
    mid = mid
    young = young
    mailbox = mailbox
    forward = forward
    None = None
    Alerts = {old, young}
    Requests = {r1}
    Channels = {mailbox, forward}
    PushHosts = {forward}
    Unreachable = {}
    At <- TwoAt
    Target <- TwoTarget
    Limits = {0, 1}
    FirstDelay = 1
    MaxDelay = 2
    MaxLost = 1
SPECIFICATION Spec
INVARIANTS NoLostWakeup DroppedIsExact OrderedUnlessTried
PROPERTIES LedgerKept
CHECK_DEADLOCK FALSE
