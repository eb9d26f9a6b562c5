SPECIFICATION MCSpec
CONSTANTS
    Window = 2
    MaxData = 1
    MaxKeepalive = 1
    Peers = {1}
    Strangers = {2}
    Revocable = {1}
    Conns = {1, 2}
    MaxCalls = 1
    MaxHeard = 2
INVARIANTS
    SessionIsFaithful
    CarriersAreKeys
PROPERTIES
    ClosesEnd
CHECK_DEADLOCK FALSE
