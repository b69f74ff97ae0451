CONSTANTS
    old = old
    mid = mid
    young = young
    mailbox = mailbox
    forward = forward
    None = None
    Alerts = {old, young}
    Requests = {}
    Channels = {mailbox, forward}
    PushHosts = {forward}
    Unreachable = {mailbox}
    At <- TwoAt
    Target <- TwoTarget
    Limits = {0}
    FirstDelay = 1
    MaxDelay = 2
    MaxLost = 0
SPECIFICATION FairSpec
PROPERTIES EveryAlertIsRetried
CHECK_DEADLOCK FALSE
