SPECIFICATION ClientSpec
CONSTANTS
    q1 = q1
    q2 = q2
    q3 = q3
    bad = bad
    User = User
    Requests <- MCRequests
    Sync <- MCSync
    Invalid <- MCInvalid
    Timed <- MCTimed
    SentBy <- MCSentBy
INVARIANT ReactorNotBlocked
PROPERTY ReactorPromise
PROPERTY DispatcherPromise
PROPERTY EveryHandOver
PROPERTY CloseReturns
PROPERTY SendsReturn
CHECK_DEADLOCK FALSE
