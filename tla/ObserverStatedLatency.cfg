SPECIFICATION SweepSpec
CONSTANTS
    K = 1
    Poll = 1
    Fetch = 3
    Wait = 1
    Retry = 6
    Heartbeat = 5
    MaxLosses = 1
INVARIANT StatedLatency
