SPECIFICATION Spec
CONSTANTS
    r1 = r1
    r2 = r2
    r3 = r3
    e1 = e1
    e2 = e2
    Requests = {r1, r2, r3}
    Endpoints = {e1, e2}
    EndpointOf <- TwoEndpoints
    Timed = {}
    Invalid = {}
    Uploads = {}
    ConfigStreams = 1
    Limits = {}
    MaxConns = 2
    Faults = {"connect"}
    MayClose = FALSE
SYMMETRY Perms
INVARIANTS PendingServed
CHECK_DEADLOCK FALSE
