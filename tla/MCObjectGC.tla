----------------------------- MODULE MCObjectGC -----------------------------
(* Instances of ObjectGC for TLC: every member is a replica of everything. *)
EXTENDS ObjectGC

CONSTANT Ahead \* the member whose clock is ahead, by one, or Nil

MCchunkReplicas == [c \in Chunk |-> Node]
MCmetaReplicas == [o \in Object |-> Node]
MCSkew == [n \in Node |-> IF n = Ahead THEN 1 ELSE 0]
MCOld == {2} \X Chunk
MCContents == {{c} : c \in Chunk}

=============================================================================
