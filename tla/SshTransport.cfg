SPECIFICATION Spec
CONSTANTS
    Callers = {1, 2}
    Conns = {1, 2}
    MaxSessions = 2
    MaxMessages = 2
INVARIANTS
    SessionsAreSound
PROPERTIES
    SessionsLetGo
CHECK_DEADLOCK FALSE
