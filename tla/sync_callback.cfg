SPECIFICATION ClientSpec
CONSTANTS
    q1 = q1
    q2 = q2
    q3 = q3
    bad = bad
    User = User
    Requests <- MCRequests
    Sync <- SyncInCallback
    Invalid <- MCInvalid
    Timed <- MCTimed
    SentBy <- MCSentBy
CHECK_DEADLOCK FALSE
PROPERTY SendsReturn
