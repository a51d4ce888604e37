SPECIFICATION FairSpec
CONSTANTS
    r1 = r1
    r2 = r2
    r3 = r3
    e1 = e1
    e2 = e2
    Requests = {r1, r2}
    Endpoints = {e1}
    EndpointOf <- OneEndpoint
    Timed = {}
    Invalid = {}
    Uploads = {}
    ConfigStreams = 1
    Limits = {}
    MaxConns = 2
    Faults = {"goaway"}
    MayClose = FALSE
PROPERTY DrainedPruned
CHECK_DEADLOCK FALSE
