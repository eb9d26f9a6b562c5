SPECIFICATION MCSpec
CONSTANTS
    Guards = {g1, g2}
    Commands = {c1, c2}
    Peer = "peer"
    Parent = "parent"
    Scoped = TRUE
    MaxLog = 2
    MaxQueue = 1
    MaxCalls = 3
    Keys = {"k1", "k2"}
    Resources = {"item"}
    Allowances <- MCAllowances
    Generations = {1, 2}
    MaxChain = 3
    MaxAsked = 1
    Items = {"item", "thing"}
    Classes = {"class"}
    Bodies <- MCBodies
    Root <- Narrow
    MaxGrants = 3
    Agents = {1, 2}
    Users = {1, 2}
    UserOf <- OwnUser
    Outsider = 3
    MaxKeys = 2
    MaxSessions = 2
    MaxMessages = 1
SYMMETRY Symmetry
INVARIANTS
    NoRevocationLost
    ChainsHold
    GrantsAreBounded
    RatchetReadsOnce
PROPERTIES
    RevocationLasts
