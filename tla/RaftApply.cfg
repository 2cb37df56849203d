\* One node and its log: appending, truncating, committing and applying, with a restart.
CONSTANTS
    Node = {n1}
    Command = {a, b}
    EntryTerm = {1, 2}
    Nil = Nil
    MaxTerm = 0
    MaxLog = 3
    MaxCommit = 3
    MaxRestarts = 1
SPECIFICATION FairSpec
INVARIANT AppliedFromLog
PROPERTY CommittedApplied KeepsPromise
\* Elections are bounded and every entry may be applied: nothing is left to do.
CHECK_DEADLOCK FALSE
