------------------------------- MODULE MCRaft -------------------------------
(* Instances of Raft for TLC. *)
EXTENDS Raft, TLC

MCSymmetry == Permutations(Node)

=============================================================================
