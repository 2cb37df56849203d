\* A put, a delete and a get on three replicas; one call fails and the coordinator crashes.
CONSTANTS
    Node = {1, 2, 3}
    Key = {k1}
    Puts = {p1}
    Deletes = {d1}
    Gets = {g1}
    Data = {p1}
    NoData = NoData
    Nil = Nil
    Unread = Unread
    Coordinators = {1}
    replicasFor <- MCreplicasFor
    writeQuorum = 2
    readQuorum = 2
    MaxErrors = 1
    MaxCrashes = 1
    Crashing = {1}
SPECIFICATION Spec
INVARIANT ReadSeesSettled WriteAboveSettled
