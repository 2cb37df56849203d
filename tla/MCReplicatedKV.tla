--------------------------- MODULE MCReplicatedKV ---------------------------
(* Instances of ReplicatedKV for TLC: every key is on every node. *)
EXTENDS ReplicatedKV, TLC

MCreplicasFor == [k \in Key |-> Node]

\* Requests of one kind differ only in their identifier.
MCSymmetry == Permutations(Puts) \cup Permutations(Gets)

=============================================================================
