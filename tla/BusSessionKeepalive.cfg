SPECIFICATION Spec
CONSTANTS
    Window = 2
    MaxData = 0
    MaxKeepalive = 1
INVARIANTS
    KeepaliveNeverSurfaces
CHECK_DEADLOCK FALSE
