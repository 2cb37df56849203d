\* Two puts on three replicas; one remote call fails and the coordinator crashes once.
CONSTANTS
    Node = {1, 2, 3}
    Key = {k1}
    Puts = {p1, p2}
    Deletes = {}
    Gets = {}
    Data = {p1, p2}
    NoData = NoData
    Nil = Nil
    Unread = Unread
    Coordinators = {1}
    replicasFor <- MCreplicasFor
    writeQuorum = 2
    readQuorum = 2
    MaxErrors = 1
    MaxCrashes = 1
    Crashing = {1}
SYMMETRY MCSymmetry
SPECIFICATION Spec
INVARIANT SameVersionSameValue
