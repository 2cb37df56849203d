\* One key and two versions; three crashes and one failing disk operation.
CONSTANTS
    Node = {1}
    Key = {k1}
    Data = {}
    NoData = NoData
    Nil = Nil
    MaxCounter = 2
    Offered <- MCOffered
    SnapshotThreshold = 2
    MaxLog = 3
    MaxErrors = 1
    MaxCrashes = 3
SPECIFICATION Spec
INVARIANT TypeOK
PROPERTY RecoveryExact MaxVersionKept
\* A store that refuses to open stays closed.
CHECK_DEADLOCK FALSE
