SPECIFICATION MCSpec
CONSTANTS
    a = a
    b = b
    c = c
    d = d
    m1 = m1
    m2 = m2
    home = home
    abroad = abroad
    Block = 3
    MaxSeq = 7
    Agents = {a, b, c, d}
    Users = {home, abroad}
    Messages = {m1, m2}
    UserOf <- MCUserOf
    Plan <- OneWay
    Capacity = 1
    MaxStrays = 1
    Ploys <- Meddling
    None = None
    Size = 2
    Window = 1
    Wanted = "wanted"
    Sibling = "sibling"
    Caller = "caller"
    Root = "root"
    Lasting = {"caller", "wanted"}
    MaxSends = 2
    MaxLog = 2
INVARIANTS
    OneNumbering
    InboxTakesEachOnce
    SshEndsAgree
    HandshakeNeverStuck
PROPERTIES
    RevokedPeerIsSilent
