SPECIFICATION TimedSpec
CONSTANTS
    PingInterval = 3
    PingTimeout = 2
    MaxStreams = 1
    Ids = {1, 2, 3, 4, 5, 6}
    RequestTimeouts = {1, 2, 4}
    Millisecond = 2
    Pause = 1
PROPERTY IdleSilenceNoticed
CHECK_DEADLOCK FALSE
