\* Two members, a probe that succeeds and a sync that removes its target.
CONSTANTS
    Node = {n1, n2}
    Joining = Nil
    Contact = Nil
    Seeds <- MCSeeds
    Changing = n1
    Config <- MCConfig
    Sync = {s1}
    SetBack = Nil
    Start <- MCStart
    Clock <- MCClock
    Nil = Nil
    MaxProbes = 1
    MaxErrors = 0
    MaxCrashes = 0
    MaxSyncs = 1
SPECIFICATION Spec
INVARIANT NoGhosts
