SPECIFICATION FairSpec
CONSTANTS
    PingInterval = 30
    PingTimeout = 10
    MaxStreams = 1
    Ids = {1, 2, 3}
PROPERTY SilenceNoticed
CHECK_DEADLOCK FALSE
