SPECIFICATION MCSpec
CONSTANTS
    Streams = {w1}
    None = None
    MaxFrames = 3
    Hops = {1, 2}
    Hosts = {1, 2}
    Limits <- EachLimit
    ProxyTotal = 2
    Connections = {1, 2}
    Sessions = {1}
    MaxRequests = 2
    Senders = {1, 2}
    Strangers = {2}
    Silent = {1}
INVARIANTS
    StreamIsTheHistory
    BackendWithinGate
    NoOrphanSession
    PrintedStands
PROPERTIES
    NobodyWaitsForGood
CHECK_DEADLOCK FALSE
