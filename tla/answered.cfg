SPECIFICATION FairSpec
CONSTANTS
    r1 = r1
    r2 = r2
    r3 = r3
    e1 = e1
    e2 = e2
    Requests = {r1, r2}
    Endpoints = {e1}
    EndpointOf <- OneEndpoint
    Timed = {r1}
    Invalid = {r2}
    Uploads = {}
    ConfigStreams = 1
    Limits = {}
    MaxConns = 1
    Faults = {"late eof", "write", "handshake"}
    MayClose = TRUE
PROPERTY TimedAnswered
PROPERTY CancelAnswered
PROPERTY CloseReturns
CHECK_DEADLOCK FALSE
