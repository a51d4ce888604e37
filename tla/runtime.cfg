SPECIFICATION Spec
CONSTANTS
    r1 = r1
    r2 = r2
    r3 = r3
    e1 = e1
    e2 = e2
    Requests = {r1, r2}
    Endpoints = {e1}
    EndpointOf <- OneEndpoint
    Timed = {r1, r2}
    Invalid = {}
    Uploads = {r1, r2}
    ConfigStreams = 1
    Limits = {2}
    MaxConns = 2
    Faults = {"start", "connect", "register", "reset", "goaway", "error", "eof", "ping", "race"}
    MayClose = TRUE
SYMMETRY Perms
INVARIANTS OneCallback ClosedAnswersAll NotForgotten PointersValid InFlightFound OneAttempt
CHECK_DEADLOCK FALSE
