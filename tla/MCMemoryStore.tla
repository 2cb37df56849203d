---------------------------- MODULE MCMemoryStore ----------------------------
(* Instances of MemoryStore for TLC: values with different counters. *)
EXTENDS MemoryStore

CONSTANT MaxCounter \* bound: the largest counter of a value

MCOffered ==
    {[Data |-> NoData, Version |-> [Counter |-> c, NodeID |-> n], Deleted |-> TRUE] :
        c \in 1 .. MaxCounter, n \in Node}

=============================================================================
