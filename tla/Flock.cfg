SPECIFICATION MCSpec
CONSTANTS
    s = s
    h = h
    d1 = d1
    k1 = k1
    k2 = k2
    k3 = k3
    t1 = t1
    t2 = t2
    t3 = t3
    Keys = {k1, k2, k3}
    Tokens = {t1, t2, t3}
    Nonces = {n1, n2}
    Devices = {d1}
    Server = Server
    None = None
    Members <- MCMembers
    Rosters <- MCRosters
    Genesis <- Both
    MaxAdmitted = 11
    MaxEnrolled = 5
SYMMETRY Symmetry
INVARIANTS
    SingleHolder
    InviteSingleUse
    NoZombieWrites
    HistoryIsLawful
    LiveIsReplayed
PROPERTIES
    SessionsOnlyAge
CHECK_DEADLOCK FALSE
