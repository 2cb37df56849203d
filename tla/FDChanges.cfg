\* Two members, a probe, a failing call and two syncs, which may run at the same time:
\* one member removes the other and adds it again.
CONSTANTS
    Node = {n1, n2}
    Joining = Nil
    Contact = Nil
    Seeds <- MCSeeds
    Changing = n1
    Config <- MCConfig
    Sync = {s1, s2}
    SetBack = Nil
    Start <- MCStart
    Clock <- MCClock
    Nil = Nil
    MaxProbes = 1
    MaxErrors = 1
    MaxCrashes = 0
    MaxSyncs = 2
SYMMETRY MCSymmetry
SPECIFICATION Spec
INVARIANT TypeOK SuspicionAnswerable RingTracked
PROPERTY ViewMonotonic
