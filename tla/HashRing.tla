-------------------------------- MODULE HashRing --------------------------------
(***************************************************************************)
(* The consistent-hash ring (internal/hashring/ring.go): a map from        *)
(* positions to members, changed by Add and Remove, and walked clockwise   *)
(* from the position of a key until enough different members are found.    *)
(* The hash function is a constant: the positions of every node's virtual  *)
(* nodes and the position of the one key that is looked up.  Positions may *)
(* collide.  The sorted slice of positions is the domain of the map.       *)
(***************************************************************************)
EXTENDS Integers, FiniteSets

CONSTANTS
    Node,     \* nodes, as numbers in the order of their addresses
    RingSize, \* how many positions there are, 2^32 in the code
    points,   \* the positions of each node's virtual nodes
    keyPoint, \* the position of the key
    Nil       \* no node

Position == 0 .. RingSize - 1

ASSUME RingAssumption ==
    /\ Node \subseteq Nat
    /\ IsFiniteSet(Node)
    /\ Nil \notin Node
    /\ RingSize \in Nat \ {0}
    /\ keyPoint \in Position
    /\ \A m \in Node : points[m] \subseteq Position /\ points[m] # {}

\* No two nodes have a virtual node at the same position: what the ring relies on.
NoCollision == \A m, n \in Node : m # n => points[m] \cap points[n] = {}

Ring == [owner : [Position -> Node \cup {Nil}], members : SUBSET Node]

\* Faulty AddTo: the positions of the other members are forgotten.
AddToFresh(r, m) ==
    IF m \in r.members THEN r
    ELSE [owner |-> [p \in points[m] |-> m], members |-> r.members \cup {m}]

\* Add: at a position that is taken the last one wins.
AddTo(r, m) ==
    IF m \in r.members THEN r
    ELSE [owner |-> [p \in Position |-> IF p \in points[m] THEN m ELSE r.owner[p]],
          members |-> r.members \cup {m}]

\* Faulty RemoveFrom: one virtual node stays.
RemoveFromPartly(r, m) ==
    IF m \notin r.members THEN r
    ELSE [owner |-> [p \in Position |->
                       IF p \in points[m] /\ \E q \in points[m] : q < p
                       THEN Nil ELSE r.owner[p]],
          members |-> r.members \ {m}]

\* Remove: the positions are freed whoever holds them.
RemoveFrom(r, m) ==
    IF m \notin r.members THEN r
    ELSE [owner |-> [p \in Position |-> IF p \in points[m] THEN Nil ELSE r.owner[p]],
          members |-> r.members \ {m}]

\* New: the members are added one after the other.
NewRing(S) ==
    [owner |-> [p \in Position |->
                  IF \E m \in S : p \in points[m]
                  THEN CHOOSE m \in S : p \in points[m] ELSE Nil],
     members |-> S]

\* How far clockwise of the key a position is: the search for the first position that is
\* not before the key, and the return to the first one behind the last.
Clockwise(p) == IF p >= keyPoint THEN p - keyPoint ELSE p - keyPoint + RingSize

\* The positions that the walk reaches before position p.
Nearer == [p \in Position |-> {q \in Position : Clockwise(q) < Clockwise(p)}]

\* The members other than m that it meets before p.
MetBefore(r, m, p) == {r.owner[q] : q \in Nearer[p]} \ {m, Nil}

\* GetN: the first k different members.  If collisions have left a member without any
\* position, the walk of the code may look for it for ever; here fewer are found.
GetN(r, k) ==
    {m \in Node : \E p \in Position :
        r.owner[p] = m /\ Cardinality(MetBefore(r, m, p)) < k}

=============================================================================
