\* Two members and a joining node that pings for one of them.  A probe, a crash, and a
\* restart of a member with a clock that stands still, or was set back.
CONSTANTS
    Node = {n1, n2, n3}
    Joining = n3
    Contact = n1
    Seeds <- MCSeeds
    Changing = Nil
    Config <- MCConfig
    Sync = {s1}
    SetBack = n2
    Start <- MCStart
    Clock <- MCClock
    Nil = Nil
    MaxProbes = 1
    MaxErrors = 0
    MaxCrashes = 1
    MaxSyncs = 0
SPECIFICATION FairSpec
PROPERTY LiveSeenAlive
