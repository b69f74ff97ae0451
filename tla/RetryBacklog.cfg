CONSTANTS
    old = old
    mid = mid
    young = young
    mailbox = mailbox
    forward = forward
    None = None
    Alerts = {old, mid, young}
    Requests = {}
    Channels = {mailbox, forward}
    PushHosts = {forward}
    Unreachable = {}
    At <- AtOf
    Target <- TargetOf
    Limits = {1}
    FirstDelay = 1
    MaxDelay = 2
    MaxLost = 0
SPECIFICATION Spec
INVARIANTS TypeOK OneHolder QueueBound
CHECK_DEADLOCK FALSE
