SPECIFICATION MCSpec
CONSTANTS
    Events = {e1, e2, e3}
    MaxRefusals = 2
    None = None
    Frames = {1, 2}
    MaxFrames = 3
    MaxFaults = 3
    Clients = {1, 2}
    MaxEpoch = 3
    MaxEvents = 2
    Briefs = {1}
    Panes = {1, 2}
    MaxLog = 3
    MaxPaneChanges = 2
    MaxRuns = 2
    Bytes = {1, 2}
    Foreign = 3
    MaxFile = 2
    MaxCited = 3
    MaxChanges = 2
    Processes = {1, 2, 3}
    MaxLosses = 2
    Attachers = {1, 2}
    Flocks = {1, 2}
    MaxStarts = 3
    HostFlocks = {1, 2}
    Peers = {1, 2}
    MaxLines = 2
    MaxMoves = 2
INVARIANTS
    LogSurvives
    RefusedOnlyWhenMoved
    NudgedIsTrue
    FilesAreGuarded
    OkMeansOpens
    ServedAsPinned
    CallsAreServed
PROPERTIES
    ImplementsHistory
    ShownOnlyGrows
