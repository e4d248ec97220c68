SPECIFICATION ObserverSpec
CONSTANTS
    K = 2
    Poll = 2
    Fetch = 5
    Wait = 3
    Retry = 50
    Heartbeat = 5
    MaxLosses = 2
    Settle = 5
    MaxWrites = 5
INVARIANTS
    RepairedInTime
    HeartbeatInTime
    ReportOfPresent
    SilenceBounded
