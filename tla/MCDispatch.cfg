SPECIFICATION DispatchSpec
CONSTANTS
    Calls = {c1, c2}
    PidOf <- DistinctPids
    Vendors = {"claude", "codex"}
    Preassigned = {"claude"}
    Handles = {h1, h2}
    Models = {"fast", "strong"}
    Default = "fast"
    NoHandle = NoHandle
    NoModel = NoModel
    NoPath = NoPath
    NoCall = NoCall
    Torn = Torn
    MaxStamp = 1
SYMMETRY Symmetry
CHECK_DEADLOCK FALSE
INVARIANTS
    DispatchTypeOK
    NoHandleForgotten
    LeftBehindWasCutShort
    SettingsOutliveRun
    OneHeader
