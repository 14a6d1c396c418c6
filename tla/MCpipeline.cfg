SPECIFICATION MCSpec
CONSTANTS
    Identities = {"a", "b"}
    Rows = {"x", "y"}
    Workers = {"u", "v"}
    WireBytes <- WireSizes
    MaxWireBytes = 2
    Limit = 2
    MaxSeals = 2
    MaxFaults = 2
    Requested = 3
    BatchSizes = {1, 2, 3}
    GroupMax = 2
    SourceRows = {2, 3, 4}
    MaxMishaps = 3
INVARIANTS PathSafe 
PROPERTIES HandsOver  WorkflowEnds
CHECK_DEADLOCK FALSE
