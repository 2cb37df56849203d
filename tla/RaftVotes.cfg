\* Three nodes, two terms, logs of one entry: elections with different logs, no restart.
CONSTANTS
    Node = {n1, n2, n3}
    Command = {a}
    EntryTerm = {1, 2}
    Nil = Nil
    MaxTerm = 2
    MaxLog = 1
    MaxCommit = 0
    MaxRestarts = 0
SYMMETRY MCSymmetry
SPECIFICATION Spec
INVARIANT TypeOK OneVotePerTerm ElectionSafety
\* Every term is used up: nothing is left to do.
CHECK_DEADLOCK FALSE
