------------------------------ MODULE KVVersion ------------------------------
(***************************************************************************)
(* Versions and versioned values of the key-value store                    *)
(* (internal/store/memory.go).                                             *)
(*                                                                         *)
(* A version is a counter and the identifier of the node that allocated    *)
(* it.  The code compares node identifiers as strings; here they are       *)
(* integers, so that they have a total order.                              *)
(***************************************************************************)
EXTENDS Integers

CONSTANTS
    Node,   \* identifiers of the nodes that allocate versions
    Data,   \* payloads a client can store
    NoData, \* the payload of a tombstone
    Nil     \* stands for "no value": a key that a map does not hold

ASSUME NodeAssumption == Node \subseteq Int

Version == [Counter : Nat, NodeID : Node]

Value == [Data : Data \cup {NoData}, Version : Version, Deleted : BOOLEAN]

MaybeValue == Value \cup {Nil}

ASSUME NilAssumption == Nil \notin Value

-----------------------------------------------------------------------------

\* The order of versions: the counter first, the node identifier on a tie.
CompareVersion(a, b) ==
    CASE a.Counter < b.Counter -> -1
      [] a.Counter > b.Counter -> 1
      [] a.Counter = b.Counter /\ a.NodeID < b.NodeID -> -1
      [] a.Counter = b.Counter /\ a.NodeID > b.NodeID -> 1
      [] OTHER -> 0

newer(a, b) == CompareVersion(a.Version, b.Version) > 0

\* What a map entry holds after Memory.Set or hintStore.Add of v: v replaces
\* the entry only when there is none or v is strictly newer.
KeepNewest(entry, v) ==
    IF entry = Nil \/ newer(v, entry) THEN v ELSE entry

\* The entry is v or something newer.
AtLeast(entry, v) == entry # Nil /\ ~newer(v, entry)

=============================================================================
