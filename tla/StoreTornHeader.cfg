\* Two crashes; no disk operation fails.
CONSTANTS
    Node = {1}
    Key = {k1}
    Data = {}
    NoData = NoData
    Nil = Nil
    MaxCounter = 2
    Offered <- MCOffered
    SnapshotThreshold = 2
    MaxLog = 3
    MaxErrors = 0
    MaxCrashes = 2
SPECIFICATION Spec
PROPERTY AckedSurvive
\* A store that refuses to open stays closed.
CHECK_DEADLOCK FALSE
