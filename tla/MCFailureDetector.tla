-------------------------- MODULE MCFailureDetector --------------------------
(* Instances of FailureDetector for TLC. *)
EXTENDS FailureDetector, TLC

CONSTANTS
    Joining,  \* a node that knows only itself, or Nil
    Contact,  \* the only other node that knows it
    Changing, \* the node that syncs are sent to, or Nil
    SetBack   \* a node whose clock is set back, or Nil

\* Every node is started with the whole cluster, but for the joining node.
MCSeeds ==
    [n \in Node |-> IF n = Joining THEN {n} ELSE IF n = Contact THEN Node ELSE Node \ {Joining}]

\* A sync carries the whole cluster, or only the node that it is sent to.
MCConfig == [n \in Node |-> IF n = Changing THEN {Node, {n}} ELSE {}]

\* The clock of the node SetBack is set back before it restarts, the others stand.
MCStart == [n \in Node |-> 2]
MCClock == [n \in Node |-> IF n = SetBack THEN {1} ELSE {2}]

MCSymmetry == Permutations(Sync)

=============================================================================
