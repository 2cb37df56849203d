------------------------- MODULE ReplicatedKVProofs -------------------------
(***************************************************************************)
(* Proofs about ReplicatedKV, for any number of nodes, keys and requests,  *)
(* any placement, any quorums that meet, and any number of failed calls    *)
(* and crashes.                                                            *)
(***************************************************************************)
EXTENDS ReplicatedKV, FiniteSetTheorems, TLAPS

-----------------------------------------------------------------------------
(* The order of versions *)

\* CompareVersion yields 0 exactly on equal versions.
LEMMA CompareEqual ==
    ASSUME NEW a \in Version, NEW b \in Version
    PROVE  CompareVersion(a, b) = 0 <=> a = b
BY NodeAssumption DEF CompareVersion, Version

\* newer spelled out: a larger counter, or the same one from a larger node.
LEMMA NewerDef ==
    ASSUME NEW a \in Value, NEW b \in Value
    PROVE  newer(a, b) <=> \/ a.Version.Counter > b.Version.Counter
                           \/ /\ a.Version.Counter = b.Version.Counter
                              /\ a.Version.NodeID > b.Version.NodeID
BY NodeAssumption DEF newer, CompareVersion, Version, Value

\* newer is asymmetric, hence irreflexive.
LEMMA NewerAsymmetric ==
    ASSUME NEW a \in Value, NEW b \in Value, newer(a, b)
    PROVE  ~newer(b, a) /\ a # b
<1> DEFINE ac == a.Version.Counter  an == a.Version.NodeID
           bc == b.Version.Counter  bn == b.Version.NodeID
<1>1. ac \in Nat /\ bc \in Nat /\ an \in Int /\ bn \in Int
  BY NodeAssumption DEF Value, Version
<1>2. ac > bc \/ (ac = bc /\ an > bn)
  BY NewerDef
<1>3. newer(b, a) <=> bc > ac \/ (bc = ac /\ bn > an)
  BY NewerDef
<1>4. ac # bc \/ an # bn
  <2> HIDE DEF ac, an, bc, bn
  <2> QED
    BY <1>1, <1>2
<1>5. ~newer(b, a)
  <2> HIDE DEF ac, an, bc, bn
  <2> QED
    BY <1>1, <1>2, <1>3
<1> QED
  BY <1>4, <1>5

\* AtLeast is transitive.
LEMMA AtLeastTrans ==
    ASSUME NEW a \in MaybeValue, NEW b \in Value, NEW c \in Value,
           AtLeast(a, b), AtLeast(b, c)
    PROVE  AtLeast(a, c)
<1>1. a \in Value
  BY DEF AtLeast, MaybeValue
<1>2. ~newer(b, a) /\ ~newer(c, b)
  BY DEF AtLeast
<1>3. \A v \in Value : v.Version.Counter \in Nat /\ v.Version.NodeID \in Int
  BY NodeAssumption DEF Value, Version
<1>4. ~newer(c, a)
  <2> DEFINE ac == a.Version.Counter  an == a.Version.NodeID
             bc == b.Version.Counter  bn == b.Version.NodeID
             cc == c.Version.Counter  cn == c.Version.NodeID
  <2>1. ac \in Nat /\ bc \in Nat /\ cc \in Nat /\ an \in Int /\ bn \in Int /\ cn \in Int
    BY <1>1, <1>3
  <2>2. ~(bc > ac \/ (bc = ac /\ bn > an)) /\ ~(cc > bc \/ (cc = bc /\ cn > bn))
    BY <1>1, <1>2, NewerDef
  <2>3. newer(c, a) <=> cc > ac \/ (cc = ac /\ cn > an)
    BY <1>1, NewerDef
  <2> HIDE DEF ac, an, bc, bn, cc, cn
  <2> QED
    BY <2>1, <2>2, <2>3
<1> QED
  BY <1>1, <1>4, NilAssumption DEF AtLeast

\* What KeepNewest leaves is at least as new as the old and the new value.
LEMMA KeepNewestFacts ==
    ASSUME NEW e \in MaybeValue, NEW v \in Value
    PROVE  /\ KeepNewest(e, v) \in Value
           /\ AtLeast(KeepNewest(e, v), v)
           /\ \A w \in Value : AtLeast(e, w) => AtLeast(KeepNewest(e, v), w)
<1>1. AtLeast(v, v)
  BY NewerAsymmetric, NilAssumption DEF AtLeast
<1>2. CASE e = Nil
  BY <1>1, <1>2 DEF KeepNewest, AtLeast
<1>3. CASE e # Nil /\ ~newer(v, e)
  BY <1>3 DEF KeepNewest, AtLeast, MaybeValue
<1>4. CASE e # Nil /\ newer(v, e)
  <2>1. e \in Value
    BY <1>4 DEF MaybeValue
  <2>2. AtLeast(v, e)
    BY <1>4, <2>1, NewerAsymmetric, NilAssumption DEF AtLeast
  <2>3. KeepNewest(e, v) = v
    BY <1>4 DEF KeepNewest
  <2> QED
    BY <1>1, <2>1, <2>2, <2>3, AtLeastTrans DEF MaybeValue
<1> QED
  BY <1>2, <1>3, <1>4

-----------------------------------------------------------------------------
(* Type correctness *)

\* What a request holds in each of its phases.
WellFormed ==
    \A q \in Request :
        /\ pc[q] = "idle" => floor[q] = {}
        /\ pc[q] # "idle" => /\ coord[q] \in Node
                             /\ key[q] \in Key
                             /\ wait[q] \subseteq replicasFor[key[q]]
                             /\ acks[q] \subseteq replicasFor[key[q]]
        /\ pc[q] \in {"idle", "version", "read"} => value[q] = Nil /\ acks[q] = {}
        /\ pc[q] \in {"write", "repair"} => value[q] # Nil
        /\ pc[q] \in {"version", "write"} => q \in Write
        /\ pc[q] \in {"read", "repair"} => q \in Gets

TypeInv == TypeOK /\ WellFormed

\* Memory.Set of a well-formed message leaves a well-formed store.
LEMMA SetAtType ==
    ASSUME TypeOK, NEW m \in Message, SetAt(m)
    PROVE  store' \in [Node -> [Key -> MaybeValue]]
<1>1. /\ m.Replica \in Node /\ m.Key \in Key /\ m.Value \in Value
      /\ store[m.Replica][m.Key] \in MaybeValue
  BY DEF Message, TypeOK
<1>2. KeepNewest(store[m.Replica][m.Key], m.Value) \in MaybeValue
  BY <1>1, KeepNewestFacts DEF MaybeValue
<1> QED
  BY <1>1, <1>2 DEF SetAt, TypeOK

\* The PUT of a request that has a value is a well-formed message.
LEMMA PutToType ==
    ASSUME TypeInv, NEW q \in Request, NEW r \in Node, pc[q] \in {"write", "repair"}
    PROVE  PutTo(q, r) \in Message /\ coord[q] \in Node /\ key[q] \in Key
<1>1. key[q] \in Key /\ coord[q] \in Node /\ value[q] # Nil
  BY DEF TypeInv, WellFormed
<1>2. value[q] \in Value
  BY <1>1 DEF TypeInv, TypeOK, MaybeValue
<1> QED
  BY <1>1, <1>2 DEF PutTo, PutMessage, Message

\* hintStore.Add of a well-formed message leaves well-formed hints.
LEMMA AddHintType ==
    ASSUME TypeOK, NEW n \in Node, NEW m \in Message, AddHint(n, m)
    PROVE  hints' \in [Node -> [Node -> [Key -> MaybeValue]]]
<1>1. /\ m.Replica \in Node /\ m.Key \in Key /\ m.Value \in Value
      /\ hints[n][m.Replica][m.Key] \in MaybeValue
  BY DEF Message, TypeOK
<1>2. KeepNewest(hints[n][m.Replica][m.Key], m.Value) \in MaybeValue
  BY <1>1, KeepNewestFacts DEF MaybeValue
<1> QED
  BY <1>1, <1>2 DEF AddHint, TypeOK

\* hintStore.RemoveIfMatch leaves well-formed hints.
LEMMA RemoveIfMatchType ==
    ASSUME TypeOK, NEW n \in Node, NEW m \in Message, RemoveIfMatch(n, m)
    PROVE  hints' \in [Node -> [Node -> [Key -> MaybeValue]]]
<1>1. m.Replica \in Node /\ m.Key \in Key
  BY DEF Message
<1>2. Nil \in MaybeValue
  BY DEF MaybeValue
<1>3. CASE hints' = [hints EXCEPT ![n][m.Replica][m.Key] = Nil]
  BY <1>1, <1>2, <1>3 DEF TypeOK
<1>4. CASE hints' = hints
  BY <1>4 DEF TypeOK
<1> QED
  BY <1>3, <1>4 DEF RemoveIfMatch

\* A read round finds nothing but values.
LEMMA FoundType ==
    ASSUME TypeOK, NEW q \in Request, key[q] \in Key
    PROVE  Found(q) \subseteq Value
BY ReplicaAssumption DEF Found, Answered, Replicas, TypeOK, MaybeValue

\* The counters that nextVersion looks at are natural numbers.
LEMMA CountersType ==
    ASSUME TypeOK, NEW q \in Request, key[q] \in Key, coord[q] \in Node
    PROVE  Counters(q) \subseteq Nat
BY FoundType DEF Counters, TypeOK, Value, Version

\* The state that New sets up is well-formed.
LEMMA TypeInit == Init => TypeInv
BY BoundAssumption DEF Init, TypeInv, TypeOK, WellFormed, MaybeValue, Phase

\* Every step keeps the state well-formed.
LEMMA TypeStep == TypeInv /\ [Next]_vars => TypeInv'
<1> SUFFICES ASSUME TypeInv, [Next]_vars PROVE TypeInv'
  OBVIOUS
<1> USE DEF TypeInv
<1>1. ASSUME NEW q \in Request, NEW n \in Coordinators, NEW k \in Key,
             StartWrite(q, n, k) \/ StartGet(q, n, k)
      PROVE  TypeInv'
  <2>1. PICK phase \in {"failed", "version", "read"} :
          /\ Begin(q, n, k, phase)
          /\ phase = "version" => q \in Write
          /\ phase = "read" => q \in Gets
    BY <1>1 DEF StartWrite, StartGet
  <2>2. n \in Node /\ replicasFor[k] \in SUBSET Node
    BY ReplicaAssumption
  <2>3. TypeOK'
    BY <2>1, <2>2 DEF Begin, TypeOK, Phase
  <2>4. WellFormed'
    BY <2>1, <2>2 DEF Begin, TypeOK, WellFormed
  <2> QED
    BY <2>3, <2>4
<1>2. ASSUME NEW q \in Request, NEW r \in Node, ReadReply(q, r)
      PROVE  TypeInv'
  <2>1. key[q] \in Key
    BY <1>2 DEF ReadReply, Reading, WellFormed
  <2>2. store[r][key[q]] \in MaybeValue
    BY <2>1 DEF TypeOK
  <2>3. TypeOK'
    BY <1>2, <2>2 DEF ReadReply, TypeOK
  <2>4. WellFormed'
    BY <1>2 DEF ReadReply, TypeOK, WellFormed
  <2> QED
    BY <2>3, <2>4
<1>3. ASSUME NEW q \in Request, NEW r \in Node, ReadError(q, r)
      PROVE  TypeInv'
  <2>1. TypeOK'
    BY <1>3, BoundAssumption DEF ReadError, TypeOK
  <2>2. WellFormed'
    BY <1>3 DEF ReadError, TypeOK, WellFormed
  <2> QED
    BY <2>1, <2>2
<1>4. ASSUME NEW q \in Request, NEW r \in Node, PutReply(q, r)
      PROVE  TypeInv'
  <2>1. pc[q] \in {"write", "repair"} /\ SetAt(PutTo(q, r))
    BY <1>4 DEF PutReply
  <2>2. store' \in [Node -> [Key -> MaybeValue]]
    BY <2>1, PutToType, SetAtType
  <2>3. TypeOK'
    BY <1>4, <2>2 DEF PutReply, TypeOK
  <2>4. WellFormed'
    BY <1>4, <2>1 DEF PutReply, TypeOK, WellFormed
  <2> QED
    BY <2>3, <2>4
<1>5. ASSUME NEW q \in Request, NEW r \in Node, PutError(q, r)
      PROVE  TypeInv'
  <2>1. PutTo(q, r) \in Message /\ coord[q] \in Node
    BY <1>5, PutToType DEF PutError
  <2>2. hints' \in [Node -> [Node -> [Key -> MaybeValue]]]
    BY <1>5, <2>1, AddHintType DEF PutError
  <2>3. TypeOK'
    BY <1>5, <2>1, <2>2, BoundAssumption DEF PutError, PutFails, TypeOK
  <2>4. WellFormed'
    BY <1>5 DEF PutError, TypeOK, WellFormed
  <2> QED
    BY <2>3, <2>4
<1>6. ASSUME NEW q \in Request, NEW r \in Node, RepairError(q, r)
      PROVE  TypeInv'
  <2>1. PutTo(q, r) \in Message
    BY <1>6, PutToType DEF RepairError
  <2>2. TypeOK'
    BY <1>6, <2>1, BoundAssumption DEF RepairError, PutFails, TypeOK
  <2>3. WellFormed'
    BY <1>6 DEF RepairError, TypeOK, WellFormed
  <2> QED
    BY <2>2, <2>3
<1>7. ASSUME NEW q \in Request,
             ReadQuorumMissed(q) \/ FinishWrite(q) \/ NotFound(q) \/ FinishGet(q)
      PROVE  TypeInv'
  <2>1. PICK phase \in {"ok", "failed"} :
          /\ pc' = [pc EXCEPT ![q] = phase]
          /\ pc[q] # "idle"
          /\ seen' \in {seen, [seen EXCEPT ![q] = [n \in Node |-> Unread]]}
          /\ UNCHANGED <<store, version, hints, flush, delayed, coord, key, wait, acks,
                         value, floor, errors, crashes>>
    BY <1>7 DEF ReadQuorumMissed, FinishWrite, NotFound, FinishGet, ReadDone
  <2>2. seen' \in [Request -> [Node -> MaybeValue \cup {Unread}]]
    <3>1. CASE seen' = seen
      BY <3>1 DEF TypeOK
    <3>2. CASE seen' = [seen EXCEPT ![q] = [n \in Node |-> Unread]]
      BY <3>2 DEF TypeOK
    <3> QED
      BY <2>1, <3>1, <3>2
  <2>3. TypeOK'
    BY <2>1, <2>2 DEF TypeOK, Phase
  <2>4. WellFormed'
    BY <2>1 DEF TypeOK, WellFormed
  <2> QED
    BY <2>3, <2>4
<1>8. ASSUME NEW q \in Request, AllocateVersion(q)
      PROVE  TypeInv'
  <2>1. PICK base \in Counters(q) :
          /\ version' = [version EXCEPT ![coord[q]] = base + 1]
          /\ value' = [value EXCEPT ![q] =
                          NewValue(q, [Counter |-> base + 1, NodeID |-> coord[q]])]
    BY <1>8 DEF AllocateVersion
  <2>2. coord[q] \in Node /\ key[q] \in Key /\ Replicas(q) \subseteq Node
    BY <1>8, ReplicaAssumption DEF AllocateVersion, WellFormed, Replicas
  <2>3. base \in Nat
    BY <2>2, CountersType
  <2>4. NewValue(q, [Counter |-> base + 1, NodeID |-> coord[q]]) \in Value
    BY <2>2, <2>3, RequestAssumption DEF NewValue, Value, Version
  <2>5. TypeOK'
    BY <1>8, <2>1, <2>2, <2>3, <2>4 DEF AllocateVersion, TypeOK, MaybeValue, Phase
  <2>6. WellFormed'
    BY <1>8, <2>1, <2>2, <2>4, NilAssumption
    DEF AllocateVersion, TypeOK, WellFormed, Replicas
  <2> QED
    BY <2>5, <2>6
<1>9. ASSUME NEW q \in Request, ChooseLatest(q)
      PROVE  TypeInv'
  <2>1. PICK latest \in Latest(q) :
          /\ value' = [value EXCEPT ![q] = latest]
          /\ wait' = [wait EXCEPT ![q] = StaleReplicas(q, latest)]
          /\ acks' = [acks EXCEPT ![q] = Answered(q) \ StaleReplicas(q, latest)]
    BY <1>9 DEF ChooseLatest
  <2>2. key[q] \in Key /\ Answered(q) \subseteq Replicas(q) /\ Replicas(q) \subseteq Node
    BY <1>9, ReplicaAssumption DEF ChooseLatest, WellFormed, Answered, Replicas
  <2>3. latest \in Value
    BY <2>2, FoundType DEF Latest
  <2>4. StaleReplicas(q, latest) \subseteq Answered(q)
    BY DEF StaleReplicas
  <2>5. TypeOK'
    BY <1>9, <2>1, <2>2, <2>3, <2>4 DEF ChooseLatest, TypeOK, MaybeValue, Phase
  <2>6. WellFormed'
    BY <1>9, <2>1, <2>2, <2>3, <2>4, NilAssumption
    DEF ChooseLatest, TypeOK, WellFormed, Replicas
  <2> QED
    BY <2>5, <2>6
<1>10. ASSUME NEW n \in Node, FlushStart(n)
       PROVE  TypeInv'
  <2>1. List(n) \subseteq Message
    BY DEF List, TypeOK, MaybeValue, PutMessage, Message
  <2>2. TypeOK'
    BY <1>10, <2>1 DEF FlushStart, TypeOK, requestVars
  <2>3. WellFormed'
    BY <1>10 DEF FlushStart, WellFormed, requestVars
  <2> QED
    BY <2>2, <2>3
<1>11. ASSUME NEW n \in Node, NEW m \in flush[n], FlushReply(n, m)
       PROVE  TypeInv'
  <2>1. m \in Message
    BY DEF TypeOK
  <2>2. store' \in [Node -> [Key -> MaybeValue]]
    BY <1>11, <2>1, SetAtType DEF FlushReply
  <2>3. hints' \in [Node -> [Node -> [Key -> MaybeValue]]]
    BY <1>11, <2>1, RemoveIfMatchType DEF FlushReply
  <2>4. TypeOK'
    BY <1>11, <2>2, <2>3 DEF FlushReply, TypeOK, requestVars
  <2>5. WellFormed'
    BY <1>11 DEF FlushReply, WellFormed, requestVars
  <2> QED
    BY <2>4, <2>5
<1>12. ASSUME NEW n \in Node, NEW m \in flush[n], FlushError(n, m)
       PROVE  TypeInv'
  <2>1. TypeOK'
    BY <1>12, BoundAssumption DEF FlushError, PutFails, TypeOK, requestVars
  <2>2. WellFormed'
    BY <1>12 DEF FlushError, WellFormed, requestVars
  <2> QED
    BY <2>1, <2>2
<1>13. ASSUME NEW m \in delayed, LateDelivery(m)
       PROVE  TypeInv'
  <2>1. store' \in [Node -> [Key -> MaybeValue]]
    BY <1>13, SetAtType DEF LateDelivery, TypeOK
  <2>2. TypeOK'
    BY <1>13, <2>1 DEF LateDelivery, TypeOK, requestVars
  <2>3. WellFormed'
    BY <1>13 DEF LateDelivery, WellFormed, requestVars
  <2> QED
    BY <2>2, <2>3
<1>14. ASSUME NEW n \in Node, CrashRestart(n)
       PROVE  TypeInv'
  <2>1. StoredCounters(n) \subseteq Nat
    BY DEF StoredCounters, TypeOK, MaybeValue, Value, Version
  <2>2. InFlight(n) \subseteq Message
    BY PutToType DEF InFlight, TypeOK
  <2>3. TypeOK'
    BY <1>14, <2>1, <2>2, BoundAssumption DEF CrashRestart, TypeOK, MaybeValue, Phase
  <2>4. WellFormed'
    BY <1>14 DEF CrashRestart, TypeOK, WellFormed, Running
  <2> QED
    BY <2>3, <2>4
<1>15. CASE UNCHANGED vars
  BY <1>15 DEF vars, requestVars, TypeOK, WellFormed
<1> QED
  BY <1>1, <1>2, <1>3, <1>4, <1>5, <1>6, <1>7, <1>8, <1>9, <1>10, <1>11, <1>12,
     <1>13, <1>14, <1>15
  DEF Next, StartStep, RequestStep, FlushStep

\* The variables of ReplicatedKV keep their types, and every message, hint and
\* stored value is a well-formed one.
THEOREM TypeCorrect == Spec => []TypeOK
<1>1. TypeInv => TypeOK
  BY DEF TypeInv
<1> QED
  BY <1>1, TypeInit, TypeStep, PTL DEF Spec

-----------------------------------------------------------------------------
(* Replicas only move forward *)

\* The entry of one key at one node changes only by Memory.Set.
LEMMA StoreStep ==
    ASSUME TypeInv, [Next]_vars, NEW n \in Node, NEW k \in Key
    PROVE  \/ store'[n][k] = store[n][k]
           \/ \E v \in Value : store'[n][k] = KeepNewest(store[n][k], v)
<1>1. ASSUME NEW m \in Message, SetAt(m)
      PROVE  \/ store'[n][k] = store[n][k]
             \/ \E v \in Value : store'[n][k] = KeepNewest(store[n][k], v)
  BY <1>1 DEF SetAt, TypeInv, TypeOK, Message
<1>2. \/ UNCHANGED store
      \/ \E q \in Request, r \in Node : pc[q] \in {"write", "repair"} /\ SetAt(PutTo(q, r))
      \/ \E x \in Node : \E m \in flush[x] : SetAt(m)
      \/ \E m \in delayed : SetAt(m)
  BY DEF Next, vars, StartStep, StartWrite, StartGet, Begin, RequestStep, ReadReply,
         ReadError, PutReply, PutError, RepairError, ReadQuorumMissed, AllocateVersion,
         FinishWrite, NotFound, ChooseLatest, FinishGet, FlushStep, FlushStart,
         FlushReply, FlushError, CrashRestart, LateDelivery
<1>3. \A q \in Request, r \in Node : pc[q] \in {"write", "repair"} => PutTo(q, r) \in Message
  BY PutToType
<1>4. \A x \in Node : \A m \in flush[x] : m \in Message
  BY DEF TypeInv, TypeOK
<1>5. \A m \in delayed : m \in Message
  BY DEF TypeInv, TypeOK
<1> QED
  BY <1>1, <1>2, <1>3, <1>4, <1>5

\* Whatever a replica holds, it holds at least that after every step.
LEMMA StoreGrows ==
    ASSUME TypeInv, [Next]_vars, NEW n \in Node, NEW k \in Key, NEW v \in Value,
           AtLeast(store[n][k], v)
    PROVE  AtLeast(store'[n][k], v)
<1>1. store[n][k] \in MaybeValue
  BY DEF TypeInv, TypeOK
<1> QED
  BY <1>1, StoreStep, KeepNewestFacts

\* Memory.Set never replaces an entry by one that is not strictly newer, in any
\* step of the system.
THEOREM Monotonic == Spec => StoreMonotonic
<1>1. ASSUME TypeInv, [Next]_vars, NEW n \in Node, NEW k \in Key,
             store[n][k] # store'[n][k]
      PROVE  store'[n][k] # Nil /\ (store[n][k] # Nil => newer(store'[n][k], store[n][k]))
  <2>1. PICK v \in Value : store'[n][k] = KeepNewest(store[n][k], v)
    BY <1>1, StoreStep
  <2> QED
    BY <1>1, <2>1, NilAssumption DEF KeepNewest
<1>2. TypeInv /\ [Next]_vars => [EntriesGrow]_store
  BY <1>1 DEF EntriesGrow
<1> QED
  BY <1>2, TypeInit, TypeStep, PTL DEF Spec, StoreMonotonic

-----------------------------------------------------------------------------
(* Quorum reads *)

\* A write quorum and a read quorum of the same key have a replica in common.
LEMMA QuorumsMeet ==
    ASSUME NEW k \in Key,
           NEW A \in SUBSET replicasFor[k], Cardinality(A) >= writeQuorum,
           NEW B \in SUBSET replicasFor[k], Cardinality(B) >= readQuorum
    PROVE  A \cap B # {}
<1> DEFINE R == replicasFor[k]
<1>1. IsFiniteSet(R) /\ writeQuorum + readQuorum > Cardinality(R)
  BY ReplicaAssumption, QuorumAssumption
<1>2. IsFiniteSet(A) /\ IsFiniteSet(B)
  BY <1>1, FS_Subset
<1>3. Cardinality(A \cup B) <= Cardinality(R)
  <2>1. A \cup B \subseteq R
    OBVIOUS
  <2> QED
    BY <1>1, <2>1, FS_Subset
<1>4. Cardinality(A \cup B) = Cardinality(A) + Cardinality(B) - Cardinality(A \cap B)
  BY <1>2, FS_Union
<1>5. /\ Cardinality(A) \in Nat /\ Cardinality(B) \in Nat
      /\ Cardinality(R) \in Nat /\ Cardinality(A \cup B) \in Nat
  BY <1>1, <1>2, <1>3, FS_CardinalityType, FS_Union
<1>6. ASSUME A \cap B = {} PROVE FALSE
  <2>1. Cardinality(A \cap B) = 0
    BY <1>6, FS_EmptySet
  <2> HIDE DEF R
  <2> QED
    BY <1>1, <1>3, <1>4, <1>5, <2>1, QuorumAssumption
<1> QED
  BY <1>6

\* The replicas in acks hold the request's value or something newer.
AcksHold ==
    \A q \in Request : \A r \in acks[q] :
        value[q] # Nil /\ AtLeast(store[r][key[q]], value[q])

\* A replica still holds at least what it answered to a read.
SeenHold ==
    \A q \in Request, r \in Node : seen[q][r] # Unread =>
        /\ pc[q] # "idle"
        /\ seen[q][r] # Nil => AtLeast(store[r][key[q]], seen[q][r])

\* The requests that had settled when q began are settled, and q reads their
\* value or a newer one from each replica that acknowledged it.
FloorHold ==
    \A q \in Request : \A p \in floor[q] :
        /\ Settled(p)
        /\ key[p] = key[q]
        /\ \A r \in acks[p] : seen[q][r] # Unread => AtLeast(seen[q][r], value[p])

QuorumInv ==
    TypeInv /\ AcksHold /\ SeenHold /\ FloorHold /\ ReadSeesSettled /\ WriteAboveSettled

\* A step that gives no request a new value, acknowledgement or answer and
\* lets no get decide.
Quiet ==
    /\ UNCHANGED <<key, acks, value, floor>>
    /\ \A p \in Request :
          /\ seen'[p] = seen[p] \/ seen'[p] = [n \in Node |-> Unread]
          /\ pc[p] = "ok" => pc'[p] = "ok"
          /\ pc[p] # "idle" => pc'[p] # "idle"
          /\ p \in Gets /\ pc'[p] \in {"repair", "ok"} => pc[p] \in {"repair", "ok"}

\* The steps of the system as far as the quorum argument tells them apart.
LEMMA StepKinds ==
    ASSUME TypeInv, [Next]_vars
    PROVE  \/ \E q \in Request, n \in Node, k \in Key, phase \in {"failed", "version", "read"} :
                Begin(q, n, k, phase)
           \/ \E q \in Request, r \in Node : ReadReply(q, r) \/ PutReply(q, r)
           \/ \E q \in Request : AllocateVersion(q) \/ NotFound(q) \/ ChooseLatest(q)
           \/ Quiet
<1> USE DEF TypeInv
<1>1. ASSUME NEW q \in Request, NEW n \in Coordinators, NEW k \in Key,
             StartWrite(q, n, k) \/ StartGet(q, n, k)
      PROVE  \E phase \in {"failed", "version", "read"} : n \in Node /\ Begin(q, n, k, phase)
  BY <1>1, ReplicaAssumption DEF StartWrite, StartGet
<1>2. ASSUME NEW q \in Request, NEW r \in Node,
             ReadError(q, r) \/ PutError(q, r) \/ RepairError(q, r)
      PROVE  Quiet
  BY <1>2 DEF ReadError, PutError, RepairError, Quiet
<1>3. ASSUME NEW q \in Request, ReadQuorumMissed(q)
      PROVE  Quiet
  BY <1>3 DEF ReadQuorumMissed, ReadDone, Quiet, TypeOK
<1>4. ASSUME NEW q \in Request, FinishWrite(q)
      PROVE  Quiet
  BY <1>4, RequestAssumption DEF FinishWrite, Quiet, TypeOK, WellFormed
<1>5. ASSUME NEW q \in Request, FinishGet(q)
      PROVE  Quiet
  BY <1>5 DEF FinishGet, Quiet, TypeOK
<1>6. ASSUME NEW n \in Node, FlushStep(n)
      PROVE  Quiet
  BY <1>6 DEF FlushStep, FlushStart, FlushReply, FlushError, Quiet, requestVars
<1>7. ASSUME NEW n \in Node, CrashRestart(n)
      PROVE  Quiet
  BY <1>7 DEF CrashRestart, Quiet, TypeOK, Running
<1>8. ASSUME NEW m \in delayed, LateDelivery(m)
      PROVE  Quiet
  BY <1>8 DEF LateDelivery, Quiet, requestVars
<1>9. CASE UNCHANGED vars
  BY <1>9 DEF vars, Quiet, requestVars
<1> QED
  BY <1>1, <1>2, <1>3, <1>4, <1>5, <1>6, <1>7, <1>8, <1>9 DEF Next, StartStep, RequestStep

\* A read round that reached its quorum has an answer at least as new as every
\* request that had settled before it began.
LEMMA QuorumReadSees ==
    ASSUME QuorumInv, NEW q \in Request, pc[q] # "idle", ReadQuorumMet(q), NEW p \in floor[q]
    PROVE  \E w \in Found(q) : w \in Value /\ AtLeast(w, value[p])
<1> USE DEF QuorumInv, TypeInv
<1>1. key[q] \in Key /\ key[p] = key[q] /\ Settled(p) /\ p \in Request
  BY DEF WellFormed, FloorHold, TypeOK
<1>2. acks[p] \subseteq replicasFor[key[q]] /\ Cardinality(acks[p]) >= writeQuorum
  BY <1>1 DEF Settled, WellFormed
<1>3. Answered(q) \subseteq replicasFor[key[q]] /\ Cardinality(Answered(q)) >= readQuorum
  BY DEF Answered, Replicas, ReadQuorumMet
<1>4. PICK r \in acks[p] : r \in Answered(q)
  BY <1>1, <1>2, <1>3, QuorumsMeet
<1>5. AtLeast(seen[q][r], value[p])
  BY <1>4 DEF FloorHold, Answered
<1>6. seen[q][r] \in Found(q)
  BY <1>4, <1>5 DEF Found, AtLeast
<1> QED
  BY <1>1, <1>5, <1>6, FoundType

\* Nothing is acknowledged, read or settled at first.
LEMMA QuorumInit == Init => QuorumInv
<1> SUFFICES ASSUME Init PROVE QuorumInv
  OBVIOUS
<1>1. \A q \in Request : /\ acks[q] = {} /\ floor[q] = {}
                         /\ \A r \in Node : seen[q][r] = Unread
  BY DEF Init
<1>2. AcksHold /\ SeenHold /\ FloorHold
  BY <1>1 DEF AcksHold, SeenHold, FloorHold
<1>3. ReadSeesSettled /\ WriteAboveSettled
  BY <1>1 DEF ReadSeesSettled, WriteAboveSettled, Request
<1> QED
  BY <1>2, <1>3, TypeInit DEF QuorumInv

\* FloorHold survives a step that leaves the settled requests alone and only
\* forgets answers.
LEMMA FloorKept ==
    ASSUME TypeInv, FloorHold, UNCHANGED <<key, floor>>,
           \A p \in Request : Settled(p) =>
               Settled(p)' /\ value'[p] = value[p] /\ acks'[p] = acks[p],
           \A p \in Request : seen'[p] = seen[p] \/ seen'[p] = [n \in Node |-> Unread]
    PROVE  FloorHold'
<1> SUFFICES ASSUME NEW q \in Request, NEW p \in floor[q]
             PROVE  /\ Settled(p)'
                    /\ key[p] = key[q]
                    /\ \A r \in acks'[p] :
                          seen'[q][r] # Unread => AtLeast(seen'[q][r], value'[p])
  BY DEF FloorHold
<1>1. p \in Request /\ Settled(p) /\ key[p] = key[q]
  BY DEF FloorHold, TypeInv, TypeOK
<1>2. Settled(p)' /\ value'[p] = value[p] /\ acks'[p] = acks[p] /\ acks[p] \subseteq Node
  BY <1>1 DEF TypeInv, TypeOK
<1>3. CASE seen'[q] = seen[q]
  BY <1>1, <1>2, <1>3 DEF FloorHold
<1>4. CASE seen'[q] = [n \in Node |-> Unread]
  BY <1>1, <1>2, <1>4
<1> QED
  BY <1>3, <1>4

\* The invariant is inductive.
LEMMA QuorumStep == QuorumInv /\ [Next]_vars => QuorumInv'
<1> SUFFICES ASSUME QuorumInv, [Next]_vars PROVE QuorumInv'
  OBVIOUS
<1> USE DEF QuorumInv
<1>1. TypeInv'
  BY TypeStep
<1>2. \A q \in Request : value[q] # Nil => value[q] \in Value
  BY DEF TypeInv, TypeOK, MaybeValue
<1>3. \A q \in Request, r \in Node :
        seen[q][r] # Unread /\ seen[q][r] # Nil => seen[q][r] \in Value
  BY DEF TypeInv, TypeOK, MaybeValue
<1>4. \A q \in Request : \A r \in acks[q] :
        /\ r \in Node /\ key[q] \in Key
        /\ AtLeast(store'[r][key[q]], value[q])
  <2> TAKE q \in Request
  <2> TAKE r \in acks[q]
  <2>1. r \in Node /\ key[q] \in Key /\ value[q] \in Value
    BY <1>2 DEF TypeInv, TypeOK, WellFormed, AcksHold
  <2> QED
    BY <2>1, StoreGrows DEF AcksHold
<1>5. \A q \in Request, r \in Node : seen[q][r] # Unread /\ seen[q][r] # Nil =>
        AtLeast(store'[r][key[q]], seen[q][r])
  <2> TAKE q \in Request, r \in Node
  <2> HAVE seen[q][r] # Unread /\ seen[q][r] # Nil
  <2>1. key[q] \in Key /\ seen[q][r] \in Value
    BY <1>3 DEF SeenHold, TypeInv, WellFormed
  <2> QED
    BY <2>1, StoreGrows DEF SeenHold
<1>6. ASSUME NEW q \in Request, NEW n \in Node, NEW k \in Key,
             NEW phase \in {"failed", "version", "read"}, Begin(q, n, k, phase)
      PROVE  QuorumInv'
  <2>1. /\ UNCHANGED <<seen, acks, value>>
        /\ pc[q] = "idle" /\ pc'[q] = phase /\ key'[q] = k
        /\ floor'[q] = {p \in Request : key[p] = k /\ Settled(p)}
        /\ \A p \in Request \ {q} :
              pc'[p] = pc[p] /\ key'[p] = key[p] /\ floor'[p] = floor[p]
    BY <1>6 DEF Begin, TypeInv, TypeOK
  <2>2. acks[q] = {} /\ value[q] = Nil /\ \A r \in Node : seen[q][r] = Unread
    BY <2>1 DEF TypeInv, WellFormed, SeenHold
  <2>3. \A p \in Request : Settled(p) => p # q /\ Settled(p)'
    BY <2>1 DEF Settled
  <2>4. AcksHold'
    BY <1>4, <2>1, <2>2 DEF AcksHold
  <2>5. SeenHold'
    BY <1>5, <2>1, <2>2 DEF SeenHold
  <2>6. FloorHold'
    <3> SUFFICES ASSUME NEW p \in Request, NEW o \in floor'[p]
                 PROVE  /\ Settled(o)'
                        /\ key'[o] = key'[p]
                        /\ \A r \in acks[o] : seen[p][r] # Unread => AtLeast(seen[p][r], value[o])
      BY <2>1 DEF FloorHold
    <3>1. CASE p = q
      <4>1. o \in Request /\ key[o] = k /\ Settled(o)
        BY <2>1, <3>1
      <4>2. acks[o] \subseteq Node
        BY <4>1 DEF TypeInv, TypeOK
      <4> QED
        BY <2>1, <2>2, <2>3, <3>1, <4>1, <4>2
    <3>2. CASE p # q
      <4>1. o \in floor[p] /\ o \in Request
        BY <2>1, <3>2 DEF TypeInv, TypeOK
      <4>2. Settled(o) /\ key[o] = key[p]
        BY <4>1 DEF FloorHold
      <4> QED
        BY <2>1, <2>3, <3>2, <4>1, <4>2 DEF FloorHold
    <3> QED
      BY <3>1, <3>2
  <2>7. ReadSeesSettled'
    BY <2>1 DEF ReadSeesSettled, Request
  <2>8. WriteAboveSettled'
    BY <2>1, <2>2 DEF WriteAboveSettled, Request
  <2> QED
    BY <1>1, <2>4, <2>5, <2>6, <2>7, <2>8
<1>7. ASSUME NEW q \in Request, NEW r \in Node, ReadReply(q, r)
      PROVE  QuorumInv'
  <2>1. /\ UNCHANGED <<pc, key, acks, value, floor, store>>
        /\ pc[q] # "idle" /\ key[q] \in Key
        /\ seen'[q][r] = store[r][key[q]]
        /\ \A p \in Request, x \in Node : <<p, x>> # <<q, r>> => seen'[p][x] = seen[p][x]
    BY <1>7 DEF ReadReply, Reading, TypeInv, TypeOK, WellFormed
  <2>2. AcksHold'
    BY <2>1 DEF AcksHold
  <2>3. SeenHold'
    <3>1. store[r][key[q]] # Nil => AtLeast(store[r][key[q]], store[r][key[q]])
      BY <2>1, NewerAsymmetric DEF AtLeast, TypeInv, TypeOK, MaybeValue
    <3> QED
      BY <2>1, <3>1 DEF SeenHold
  <2>4. FloorHold'
    <3> SUFFICES ASSUME NEW p \in Request, NEW o \in floor[p], NEW x \in acks[o],
                        seen'[p][x] # Unread
                 PROVE  AtLeast(seen'[p][x], value[o])
      BY <2>1 DEF FloorHold, Settled
    <3>1. o \in Request /\ x \in Node
      BY DEF TypeInv, TypeOK
    <3>2. CASE p = q /\ x = r
      BY <2>1, <3>1, <3>2 DEF FloorHold, AcksHold
    <3>3. CASE <<p, x>> # <<q, r>>
      BY <2>1, <3>1, <3>3 DEF FloorHold
    <3> QED
      BY <3>2, <3>3
  <2>5. ReadSeesSettled' /\ WriteAboveSettled'
    BY <2>1 DEF ReadSeesSettled, WriteAboveSettled
  <2> QED
    BY <1>1, <2>2, <2>3, <2>4, <2>5
<1>8. ASSUME NEW q \in Request, NEW r \in Node, PutReply(q, r)
      PROVE  QuorumInv'
  <2>1. /\ UNCHANGED <<pc, key, value, floor, seen>>
        /\ pc[q] \in {"write", "repair"} /\ value[q] # Nil
        /\ acks'[q] = acks[q] \cup {r}
        /\ \A p \in Request \ {q} : acks'[p] = acks[p]
    BY <1>8 DEF PutReply, TypeInv, TypeOK, WellFormed
  <2>2. AtLeast(store'[r][key[q]], value[q])
    <3>1. /\ PutTo(q, r) \in Message /\ key[q] \in Key
          /\ value[q] \in Value /\ store[r][key[q]] \in MaybeValue
      BY <1>2, <2>1, PutToType DEF TypeInv, TypeOK
    <3>2. store'[r][key[q]] = KeepNewest(store[r][key[q]], value[q])
      BY <1>8, <3>1 DEF PutReply, SetAt, PutTo, PutMessage, TypeInv, TypeOK
    <3> QED
      BY <3>1, <3>2, KeepNewestFacts
  <2>3. AcksHold'
    BY <1>4, <2>1, <2>2 DEF AcksHold
  <2>4. SeenHold'
    BY <1>5, <2>1 DEF SeenHold
  <2>5. FloorHold'
    BY <2>1, ZenonT(60) DEF FloorHold, Settled, TypeInv, TypeOK
  <2>6. ReadSeesSettled' /\ WriteAboveSettled'
    BY <2>1 DEF ReadSeesSettled, WriteAboveSettled
  <2> QED
    BY <1>1, <2>3, <2>4, <2>5, <2>6
<1>9. ASSUME NEW q \in Request, AllocateVersion(q)
      PROVE  QuorumInv'
  <2>1. PICK base \in Counters(q) :
          /\ \A c \in Counters(q) : c <= base
          /\ value' = [value EXCEPT ![q] =
                          NewValue(q, [Counter |-> base + 1, NodeID |-> coord[q]])]
    BY <1>9 DEF AllocateVersion
  <2>2. /\ UNCHANGED <<store, key, acks, floor>>
        /\ pc[q] = "version" /\ pc'[q] = "write" /\ ReadQuorumMet(q)
        /\ coord[q] \in Node /\ key[q] \in Key /\ q \in Write
        /\ acks[q] = {} /\ value[q] = Nil
        /\ seen'[q] = [n \in Node |-> Unread]
        /\ \A p \in Request \ {q} :
              pc'[p] = pc[p] /\ value'[p] = value[p] /\ seen'[p] = seen[p]
    BY <1>9, <2>1 DEF AllocateVersion, TypeInv, TypeOK, WellFormed
  <2>3. \A p \in Request : Settled(p) => p # q /\ Settled(p)'
    BY <2>2 DEF Settled
  <2>4. AcksHold'
    BY <2>2 DEF AcksHold
  <2>5. SeenHold'
    BY <2>2 DEF SeenHold
  <2>6. FloorHold'
    BY <2>2, <2>3, FloorKept
  <2>7. ReadSeesSettled'
    <3>1. \A p \in Gets : p \in Request /\ p # q /\ floor[p] \subseteq Request
      BY <2>2, RequestAssumption DEF TypeInv, TypeOK, Request
    <3>2. \A p \in Gets : \A o \in floor[p] : value'[o] = value[o]
      BY <2>2, <2>3, <3>1 DEF FloorHold
    <3> QED
      BY <2>2, <3>1, <3>2 DEF ReadSeesSettled
  <2>8. ASSUME NEW p \in floor[q]
        PROVE  newer(value'[q], value[p])
    <3>1. PICK w \in Found(q) : w \in Value /\ AtLeast(w, value[p])
      BY <2>2, QuorumReadSees
    <3>2. value[p] \in Value
      BY <1>2 DEF FloorHold, Settled, TypeInv, TypeOK
    <3>3. w.Version.Counter <= base
      BY <2>1, <3>1 DEF Counters
    <3>4. value[p].Version.Counter <= w.Version.Counter
      BY <3>1, <3>2, NewerDef DEF AtLeast, Value, Version
    <3>5. base \in Nat
      BY <2>2, CountersType DEF TypeInv
    <3>6. value'[q] \in Value /\ value'[q].Version.Counter = base + 1
      BY <2>1, <2>2, <3>5, RequestAssumption DEF NewValue, Value, Version, TypeInv, TypeOK
    <3>7. value[p].Version.Counter \in Nat /\ w.Version.Counter \in Nat
      BY <3>1, <3>2 DEF Value, Version
    <3> QED
      BY <3>2, <3>3, <3>4, <3>5, <3>6, <3>7, NewerDef
  <2>9. WriteAboveSettled'
    <3> SUFFICES ASSUME NEW p \in Write, value'[p] # Nil, NEW o \in floor[p]
                 PROVE  newer(value'[p], value'[o])
      BY <2>2 DEF WriteAboveSettled
    <3>1. p \in Request /\ o \in Request /\ o # q
      BY <2>3 DEF FloorHold, TypeInv, TypeOK, Request
    <3> QED
      BY <2>2, <2>8, <3>1 DEF WriteAboveSettled
  <2> QED
    BY <1>1, <2>4, <2>5, <2>6, <2>7, <2>9
<1>10. ASSUME NEW q \in Request, NotFound(q)
       PROVE  QuorumInv'
  <2>1. /\ UNCHANGED <<store, key, acks, value, floor>>
        /\ pc[q] = "read" /\ pc'[q] = "ok" /\ ReadQuorumMet(q) /\ Found(q) = {}
        /\ seen'[q] = [n \in Node |-> Unread]
        /\ \A p \in Request \ {q} : pc'[p] = pc[p] /\ seen'[p] = seen[p]
    BY <1>10 DEF NotFound, TypeInv, TypeOK
  <2>2. floor[q] = {}
    BY <2>1, QuorumReadSees
  <2>3. \A p \in Request : Settled(p) => Settled(p)'
    BY <2>1 DEF Settled
  <2>4. AcksHold'
    BY <2>1 DEF AcksHold
  <2>5. SeenHold'
    BY <2>1 DEF SeenHold
  <2>6. FloorHold'
    BY <2>1, <2>3, FloorKept
  <2>7. ReadSeesSettled' /\ WriteAboveSettled'
    BY <2>1, <2>2 DEF ReadSeesSettled, WriteAboveSettled, Request
  <2> QED
    BY <1>1, <2>4, <2>5, <2>6, <2>7
<1>11. ASSUME NEW q \in Request, ChooseLatest(q)
       PROVE  QuorumInv'
  <2>1. PICK latest \in Latest(q) :
          /\ value' = [value EXCEPT ![q] = latest]
          /\ acks' = [acks EXCEPT ![q] = Answered(q) \ StaleReplicas(q, latest)]
    BY <1>11 DEF ChooseLatest
  <2>2. /\ UNCHANGED <<store, key, floor>>
        /\ pc[q] = "read" /\ pc'[q] = "repair" /\ ReadQuorumMet(q)
        /\ key[q] \in Key /\ q \in Gets
        /\ seen'[q] = [n \in Node |-> Unread]
        /\ value'[q] = latest
        /\ acks'[q] = Answered(q) \ StaleReplicas(q, latest)
        /\ \A p \in Request \ {q} :
              /\ pc'[p] = pc[p] /\ value'[p] = value[p]
              /\ seen'[p] = seen[p] /\ acks'[p] = acks[p]
    BY <1>11, <2>1 DEF ChooseLatest, TypeInv, TypeOK, WellFormed
  <2>3. \A p \in Request : Settled(p) => p # q /\ Settled(p)'
    BY <2>2 DEF Settled
  <2>4. latest \in Value /\ \A w \in Found(q) : w \in Value /\ ~newer(w, latest)
    BY <2>2, FoundType DEF Latest, TypeInv
  <2>5. ASSUME NEW r \in acks'[q]
        PROVE  AtLeast(store[r][key[q]], latest)
    <3>1. r \in Answered(q) /\ seen[q][r] # Nil /\ ~newer(latest, seen[q][r])
      BY <2>2, <2>5 DEF StaleReplicas
    <3>2. r \in Node /\ seen[q][r] # Unread
      BY <2>2, <3>1, ReplicaAssumption DEF Answered, Replicas
    <3>3. seen[q][r] \in Value /\ AtLeast(store[r][key[q]], seen[q][r])
      BY <1>3, <3>1, <3>2 DEF SeenHold
    <3>4. AtLeast(seen[q][r], latest)
      BY <3>1 DEF AtLeast
    <3>5. store[r][key[q]] \in MaybeValue
      BY <2>2, <3>2 DEF TypeInv, TypeOK
    <3> QED
      BY <2>4, <3>3, <3>4, <3>5, AtLeastTrans
  <2>6. AcksHold'
    BY <2>2, <2>4, <2>5, NilAssumption DEF AcksHold
  <2>7. SeenHold'
    BY <2>2 DEF SeenHold
  <2>8. FloorHold'
    BY <2>2, <2>3, FloorKept
  <2>9. ASSUME NEW p \in floor[q]
        PROVE  AtLeast(latest, value[p])
    <3>1. PICK w \in Found(q) : w \in Value /\ AtLeast(w, value[p])
      BY <2>2, QuorumReadSees
    <3>2. value[p] \in Value
      BY <1>2 DEF FloorHold, Settled, TypeInv, TypeOK
    <3>3. AtLeast(latest, w)
      BY <2>4, NilAssumption DEF AtLeast
    <3> QED
      BY <2>4, <3>1, <3>2, <3>3, AtLeastTrans DEF MaybeValue
  <2>10. \A p \in Request : \A o \in floor[p] : o \in Request /\ value'[o] = value[o]
    BY <2>2, <2>3 DEF FloorHold, TypeInv, TypeOK
  <2>11. ReadSeesSettled'
    <3> SUFFICES ASSUME NEW p \in Gets, pc'[p] \in {"repair", "ok"}, NEW o \in floor[p]
                 PROVE  value'[p] # Nil /\ AtLeast(value'[p], value'[o])
      BY <2>2 DEF ReadSeesSettled
    <3>1. p \in Request
      BY DEF Request
    <3>2. CASE p = q
      BY <2>2, <2>4, <2>9, <2>10, <3>2, NilAssumption
    <3>3. CASE p # q
      BY <2>2, <2>10, <3>1, <3>3 DEF ReadSeesSettled
    <3> QED
      BY <3>2, <3>3
  <2>12. WriteAboveSettled'
    BY <2>2, <2>10, RequestAssumption DEF WriteAboveSettled, Request
  <2> QED
    BY <1>1, <2>6, <2>7, <2>8, <2>11, <2>12
<1>12. CASE Quiet
  <2>1. /\ UNCHANGED <<key, acks, value, floor>>
        /\ \A p \in Request :
              /\ seen'[p] = seen[p] \/ seen'[p] = [n \in Node |-> Unread]
              /\ pc[p] = "ok" => pc'[p] = "ok"
              /\ pc[p] # "idle" => pc'[p] # "idle"
              /\ p \in Gets /\ pc'[p] \in {"repair", "ok"} => pc[p] \in {"repair", "ok"}
    BY <1>12 DEF Quiet
  <2>2. \A p \in Request : Settled(p) => Settled(p)'
    BY <2>1 DEF Settled
  <2>3. AcksHold'
    BY <1>4, <2>1 DEF AcksHold
  <2>4. SeenHold'
    BY <1>5, <2>1 DEF SeenHold
  <2>5. FloorHold'
    BY <2>1, <2>2, FloorKept
  <2>6. ReadSeesSettled' /\ WriteAboveSettled'
    BY <2>1 DEF ReadSeesSettled, WriteAboveSettled, Request
  <2> QED
    BY <1>1, <2>3, <2>4, <2>5, <2>6
<1> QED
  BY <1>6, <1>7, <1>8, <1>9, <1>10, <1>11, <1>12, StepKinds

\* Get: no get ever returns less than a request that had settled before it began,
\* whatever fails and whichever nodes crash and restart.
THEOREM ReadsSeeSettled == Spec => []ReadSeesSettled
<1>1. QuorumInv => ReadSeesSettled
  BY DEF QuorumInv
<1> QED
  BY <1>1, QuorumInit, QuorumStep, PTL DEF Spec

\* nextVersion: every write is newer than all requests that had settled before it
\* began, whatever fails and whichever nodes crash and restart.
THEOREM WritesAboveSettled == Spec => []WriteAboveSettled
<1>1. QuorumInv => WriteAboveSettled
  BY DEF QuorumInv
<1> QED
  BY <1>1, QuorumInit, QuorumStep, PTL DEF Spec

=============================================================================
