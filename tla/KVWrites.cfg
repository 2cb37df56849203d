\* Two puts on three replicas through two coordinators; two remote calls fail.
CONSTANTS
    Node = {1, 2, 3}
    Key = {k1}
    Puts = {p1, p2}
    Deletes = {}
    Gets = {}
    Data = {p1, p2}
    NoData = NoData
    Nil = Nil
    Unread = Unread
    Coordinators = {1, 2}
    replicasFor <- MCreplicasFor
    writeQuorum = 2
    readQuorum = 2
    MaxErrors = 2
    MaxCrashes = 0
    Crashing = {1}
SPECIFICATION FairSpec
INVARIANT TypeOK SameVersionSameValue HintedOrStored
PROPERTY StoreMonotonic WritesConverge
