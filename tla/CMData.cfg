\* Two nodes, one that joins and may leave, one replica, so that every change moves the
\* key to another node; three requests, two failing calls or restarts.
CONSTANTS
    Node = {1, 2, 3}
    RingSize = 4
    points <- MCpoints
    keyPoint = 3
    Nil = Nil
    Seeds <- MCSeeds
    Coordinators = {2}
    Joiners = {3}
    Leavers = {3}
    Frontends = {1}
    Restarting = {3}
    Version = {1, 2}
    replicas = 1
    writeQuorum = 1
    MaxRequests = 3
    MaxFaults = 2
SPECIFICATION Spec
CHECK_DEADLOCK FALSE
INVARIANT TypeOK AckedHeld PlacementAgrees ChangeAgreed ChangeKeepsReplicas
