SPECIFICATION MCSpec
CONSTANTS
    Contents <- ContentSet
    Original <- OriginalFiles
    MaxInput = 2
    MaxStdout = 2
    MaxStderr = 1
    Hosts <- HostSet
    Policies <- PolicyTable
    Images = 3
    PipeLines = 2
    MaxSpare = 2
INVARIANTS  ScanSafe
PROPERTIES InspectionEnds ScanEnds
CHECK_DEADLOCK FALSE
