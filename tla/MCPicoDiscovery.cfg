CONSTANTS
    None = None
    Stations = {2, 3}
    Own = 1
    Settle = 1
    Period = 2
    Batch = 1
    Nonces = 3
    Restarts = 1
    InFlight = 2
SPECIFICATION FairSpec
INVARIANT SessionFresh
PROPERTY Rediscovers
CHECK_DEADLOCK FALSE
