SPECIFICATION Spec
CONSTANTS
    Agents = {1, 2}
    Lookups = {1}
    MaxSeen = 2
    MaxEvents = 2
INVARIANT
    ParkedMeansUnknown
CHECK_DEADLOCK FALSE
