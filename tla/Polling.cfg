SPECIFICATION FairSpec
CONSTANTS
    enroll = enroll
    verify = verify
    click = click
    Forms = {enroll, verify}
    Clicks = {click}
    MaxAttempts = 2
    MaxOpen = 1
    FaultKinds = {}
    MaxFaults = 0
PROPERTIES
    PollingEnds
CHECK_DEADLOCK FALSE
