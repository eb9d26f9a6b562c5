SPECIFICATION MCSpec
CONSTANTS
    s = s
    h = h
    a = a
    l1 = l1
    Members <- MCMembers
    Lanes = {l1, l2}
    Heads = {c1}
    Rosters <- MCRosters
    Genesis <- Staffed
    None = None
    MaxEntries = 5
    Files = {1}
    Page = 2
    MaxHistory = 1
    MaxInbox = 1
    MaxQueue = 2
    MaxEvents = 2
INVARIANTS
    FirstCloserWins
    ViewsAreTrue
    QuietIsCurrent
PROPERTIES
    ConflictOnlyIfRaced
    BoardIsLawful
CHECK_DEADLOCK FALSE
