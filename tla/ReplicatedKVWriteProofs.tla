---------------------- MODULE ReplicatedKVWriteProofs ----------------------
(***************************************************************************)
(* Proofs about the writes of ReplicatedKV as long as no node has crashed: *)
(* no write is forgotten by hinted handoff, and a version identifies a     *)
(* value.                                                                  *)
(***************************************************************************)
EXTENDS ReplicatedKVProofs

\* Writes keep their key, their coordinator and, once they have one, their value.
LEMMA WriteStable ==
    ASSUME TypeInv, [Next]_vars, NEW q \in Write, value[q] # Nil
    PROVE  value'[q] = value[q] /\ key'[q] = key[q] /\ coord'[q] = coord[q]
<1> USE DEF TypeInv
<1>1. q \in Request /\ q \notin Gets /\ pc[q] \notin {"idle", "version", "read", "repair"}
  BY RequestAssumption DEF Request, WellFormed
<1>2. ASSUME NEW p \in Request, NEW n \in Coordinators, NEW k \in Key,
             StartWrite(p, n, k) \/ StartGet(p, n, k)
      PROVE  value'[q] = value[q] /\ key'[q] = key[q] /\ coord'[q] = coord[q]
  BY <1>1, <1>2 DEF StartWrite, StartGet, Begin, TypeOK
<1>3. ASSUME NEW p \in Request, AllocateVersion(p) \/ ChooseLatest(p)
      PROVE  value'[q] = value[q] /\ key'[q] = key[q] /\ coord'[q] = coord[q]
  BY <1>1, <1>3 DEF AllocateVersion, ChooseLatest, TypeOK
<1> QED
  BY <1>2, <1>3
  DEF Next, vars, StartStep, RequestStep, ReadReply, ReadError, PutReply, PutError,
      RepairError, ReadQuorumMissed, FinishWrite, NotFound, FinishGet, FlushStep,
      FlushStart, FlushReply, FlushError, CrashRestart, LateDelivery, requestVars

-----------------------------------------------------------------------------
(* Hinted handoff *)

\* Replica r has the value of write q, or q's coordinator keeps a hint for it.
Covered(q, r) ==
    \/ AtLeast(store[r][key[q]], value[q])
    \/ AtLeast(hints[coord[q]][r][key[q]], value[q])

\* The hint that node n keeps for an entry is as new as before, or the replica
\* has caught up with it.
LEMMA HintsGrow ==
    ASSUME TypeInv, [Next]_vars, crashes' = 0,
           NEW n \in Node, NEW r \in Node, NEW k \in Key, NEW v \in Value,
           AtLeast(hints[n][r][k], v)
    PROVE  AtLeast(hints'[n][r][k], v) \/ AtLeast(store'[r][k], v)
<1> USE DEF TypeInv
<1>0. hints[n][r][k] \in Value /\ hints[n][r][k] \in MaybeValue
  BY DEF TypeOK, AtLeast, MaybeValue
<1>1. ASSUME NEW q \in Request, NEW x \in Node, PutError(q, x)
      PROVE  AtLeast(hints'[n][r][k], v)
  <2>1. PutTo(q, x) \in Message /\ coord[q] \in Node
    BY <1>1, PutToType DEF PutError
  <2>2. \/ hints'[n][r][k] = hints[n][r][k]
        \/ hints'[n][r][k] = KeepNewest(hints[n][r][k], PutTo(q, x).Value)
    BY <1>1, <2>1 DEF PutError, AddHint, TypeOK, Message
  <2>3. PutTo(q, x).Value \in Value
    BY <2>1 DEF Message
  <2> QED
    BY <1>0, <2>2, <2>3, KeepNewestFacts
<1>2. ASSUME NEW x \in Node, NEW m \in flush[x], FlushReply(x, m)
      PROVE  AtLeast(hints'[n][r][k], v) \/ AtLeast(store'[r][k], v)
  <2>1. m \in Message /\ m.Replica \in Node /\ m.Key \in Key /\ m.Value \in Value
    BY DEF TypeOK, Message
  <2>2. CASE hints'[n][r][k] = hints[n][r][k]
    BY <2>2
  <2>3. CASE hints'[n][r][k] # hints[n][r][k]
    <3>1. /\ x = n /\ m.Replica = r /\ m.Key = k
          /\ CompareVersion(hints[n][r][k].Version, m.Value.Version) = 0
      <4>1. /\ hints' = [hints EXCEPT ![x][m.Replica][m.Key] = Nil]
            /\ CompareVersion(hints[x][m.Replica][m.Key].Version, m.Value.Version) = 0
        BY <1>2, <2>3 DEF FlushReply, RemoveIfMatch
      <4>2. x = n /\ m.Replica = r /\ m.Key = k
        BY <2>1, <2>3, <4>1 DEF TypeOK
      <4> QED
        BY <4>1, <4>2
    <3>2. hints[n][r][k].Version = m.Value.Version
      BY <1>0, <2>1, <3>1, CompareEqual DEF Value
    <3>3. AtLeast(m.Value, v)
      BY <1>0, <2>1, <3>2, NilAssumption DEF AtLeast, newer
    <3>4. store'[r][k] = KeepNewest(store[r][k], m.Value)
      BY <1>2, <2>1, <3>1 DEF FlushReply, SetAt, TypeOK
    <3>5. store[r][k] \in MaybeValue
      BY DEF TypeOK
    <3>6. store'[r][k] \in Value /\ AtLeast(store'[r][k], m.Value)
      BY <2>1, <3>4, <3>5, KeepNewestFacts
    <3> QED
      BY <2>1, <3>3, <3>6, AtLeastTrans DEF MaybeValue
  <2> QED
    BY <2>2, <2>3
<1>3. ASSUME NEW x \in Node, CrashRestart(x)
      PROVE  FALSE
  BY <1>3 DEF CrashRestart, TypeOK
<1> QED
  BY <1>1, <1>2, <1>3
  DEF Next, vars, StartStep, StartWrite, StartGet, Begin, RequestStep, ReadReply,
      ReadError, PutReply, RepairError, ReadQuorumMissed, AllocateVersion, FinishWrite,
      NotFound, ChooseLatest, FinishGet, FlushStep, FlushStart, FlushError, LateDelivery

\* HintedOrStored is inductive.
LEMMA HandoffStep == TypeInv /\ HintedOrStored /\ [Next]_vars => HintedOrStored'
<1> SUFFICES ASSUME TypeInv, HintedOrStored, [Next]_vars, crashes' = 0,
                    NEW q \in Write, value'[q] # Nil,
                    NEW r \in Replicas(q)', r \notin wait'[q]
             PROVE  Covered(q, r)'
  BY DEF HintedOrStored, Covered
<1> USE DEF TypeInv
<1>1. crashes = 0
  BY DEF Next, vars, StartStep, StartWrite, StartGet, Begin, RequestStep, ReadReply,
         ReadError, PutReply, PutError, RepairError, ReadQuorumMissed, AllocateVersion,
         FinishWrite, NotFound, ChooseLatest, FinishGet, FlushStep, FlushStart,
         FlushReply, FlushError, CrashRestart, LateDelivery, TypeOK
<1>2. q \in Request /\ q \notin Gets
  BY RequestAssumption DEF Request
<1>3. CASE value[q] = Nil
  <2>1. wait'[q] = Replicas(q)'
    <3>1. ASSUME NEW p \in Request, AllocateVersion(p)
          PROVE  wait'[q] = Replicas(q)'
      BY <1>2, <1>3, <3>1 DEF AllocateVersion, TypeOK, Replicas
    <3>2. ASSUME NEW p \in Request, ChooseLatest(p)
          PROVE  FALSE
      BY <1>2, <1>3, <3>2 DEF ChooseLatest, TypeOK, WellFormed
    <3> QED
      BY <1>3, <3>1, <3>2
      DEF Next, vars, StartStep, StartWrite, StartGet, Begin, RequestStep, ReadReply,
          ReadError, PutReply, PutError, RepairError, ReadQuorumMissed, FinishWrite,
          NotFound, FinishGet, FlushStep, FlushStart, FlushReply, FlushError,
          CrashRestart, LateDelivery, requestVars
  <2> QED
    BY <2>1
<1>4. CASE value[q] # Nil
  <2>1. /\ value'[q] = value[q] /\ key'[q] = key[q] /\ coord'[q] = coord[q]
        /\ value[q] \in Value /\ key[q] \in Key /\ coord[q] \in Node
        /\ pc[q] \notin {"idle", "version", "read", "repair"}
    BY <1>2, <1>4, WriteStable DEF TypeOK, WellFormed, MaybeValue
  <2>2. r \in Replicas(q) /\ r \in Node
    BY <2>1, ReplicaAssumption DEF Replicas
  <2>3. CASE r \notin wait[q]
    <3>1. Covered(q, r)
      BY <1>1, <1>4, <2>2, <2>3 DEF HintedOrStored, Covered
    <3> QED
      BY <2>1, <2>2, <3>1, StoreGrows, HintsGrow DEF Covered
  <2>4. CASE r \in wait[q]
    <3>1. \/ \E p \in Request, x \in Node : PutReply(p, x) /\ p = q /\ x = r
          \/ \E p \in Request, x \in Node : PutError(p, x) /\ p = q /\ x = r
      <4>1. ASSUME NEW p \in Request, NEW x \in Node,
                   ReadReply(p, x) \/ ReadError(p, x) \/ PutReply(p, x) \/ PutError(p, x)
                     \/ RepairError(p, x)
            PROVE  p = q /\ x = r /\ (PutReply(p, x) \/ PutError(p, x))
        BY <1>2, <2>1, <2>4, <4>1, ZenonT(60)
        DEF ReadReply, ReadError, PutReply, PutError, RepairError, Reading, TypeOK
      <4>2. ASSUME NEW p \in Request, AllocateVersion(p) \/ ChooseLatest(p)
            PROVE  FALSE
        BY <1>2, <2>1, <2>4, <4>2 DEF AllocateVersion, ChooseLatest, TypeOK
      <4>3. ASSUME NEW p \in Request, NEW n \in Coordinators, NEW k \in Key,
                   StartWrite(p, n, k) \/ StartGet(p, n, k)
            PROVE  FALSE
        BY <1>2, <2>1, <2>4, <4>3 DEF StartWrite, StartGet, Begin, TypeOK
      <4> QED
        BY <2>4, <4>1, <4>2, <4>3
        DEF Next, vars, StartStep, RequestStep, ReadQuorumMissed, FinishWrite,
            NotFound, FinishGet, FlushStep, FlushStart, FlushReply, FlushError,
            CrashRestart, LateDelivery, requestVars
    <3>2. CASE PutReply(q, r)
      <4>1. store'[r][key[q]] = KeepNewest(store[r][key[q]], value[q])
        BY <2>1, <2>2, <3>2 DEF PutReply, SetAt, PutTo, PutMessage, TypeOK
      <4>2. store[r][key[q]] \in MaybeValue
        BY <2>1, <2>2 DEF TypeOK
      <4> QED
        BY <2>1, <4>1, <4>2, KeepNewestFacts DEF Covered
    <3>3. CASE PutError(q, r)
      <4>1. hints'[coord[q]][r][key[q]] = KeepNewest(hints[coord[q]][r][key[q]], value[q])
        BY <2>1, <2>2, <3>3 DEF PutError, AddHint, PutTo, PutMessage, TypeOK
      <4>2. hints[coord[q]][r][key[q]] \in MaybeValue
        BY <2>1, <2>2 DEF TypeOK
      <4> QED
        BY <2>1, <4>1, <4>2, KeepNewestFacts DEF Covered
    <3> QED
      BY <3>1, <3>2, <3>3
  <2> QED
    BY <2>3, <2>4
<1> QED
  BY <1>3, <1>4

\* replicateValue, hintStore and flushHints: while no node has crashed, every
\* replica that a write is done with has its value or a newer one, or the
\* coordinator keeps a hint for it, in whatever order handoffs, new writes and
\* late messages meet.
THEOREM Handoff == Spec => []HintedOrStored
<1>1. Init => HintedOrStored
  BY DEF Init, HintedOrStored, Write, Request
<1> QED
  BY <1>1, HandoffStep, TypeInit, TypeStep, PTL DEF Spec

-----------------------------------------------------------------------------
(* A version identifies a value *)

\* v is the value of some write of key k.
Origin(v, k) == \E q \in Write : value[q] # Nil /\ value[q] = v /\ key[q] = k

\* Nothing that is stored, read, repaired, hinted or delayed was made up.
Provenance ==
    /\ \A n \in Node, k \in Key : store[n][k] # Nil => Origin(store[n][k], k)
    /\ \A n \in Node, r \in Node, k \in Key :
          hints[n][r][k] # Nil => Origin(hints[n][r][k], k)
    /\ \A n \in Node : \A m \in flush[n] : Origin(m.Value, m.Key)
    /\ \A m \in delayed : Origin(m.Value, m.Key)
    /\ \A q \in Request, r \in Node :
          seen[q][r] # Unread /\ seen[q][r] # Nil => Origin(seen[q][r], key[q])
    /\ \A q \in Request : value[q] # Nil => Origin(value[q], key[q])

\* A node's versions carry its identifier and are at most its counter, and no
\* two writes have the same version.
Allocated ==
    crashes = 0 =>
        /\ \A q \in Write : value[q] # Nil =>
              /\ value[q].Version.NodeID = coord[q]
              /\ value[q].Version.Counter <= version[coord[q]]
        /\ \A q, p \in Write : q # p /\ value[q] # Nil /\ value[p] # Nil =>
              value[q].Version # value[p].Version

\* A message that carries a value of its key's writes stores only such values.
LEMMA SetAtOrigin ==
    ASSUME TypeInv, Provenance, NEW m \in Message, SetAt(m), Origin(m.Value, m.Key),
           NEW n \in Node, NEW k \in Key, store'[n][k] # Nil
    PROVE  Origin(store'[n][k], k)
<1>1. \/ store'[n][k] = store[n][k]
      \/ store'[n][k] = m.Value /\ m.Key = k
  BY DEF SetAt, KeepNewest, TypeInv, TypeOK, Message
<1> QED
  BY <1>1 DEF Provenance

\* Provenance is inductive, given the invariant of the quorum argument.
LEMMA ProvenanceStep == QuorumInv /\ Provenance /\ [Next]_vars => Provenance'
<1> SUFFICES ASSUME QuorumInv, Provenance, [Next]_vars PROVE Provenance'
  OBVIOUS
<1> USE DEF QuorumInv, TypeInv
<1>1. \A v, k : Origin(v, k) => Origin(v, k)'
  BY WriteStable DEF Origin
<1>2. \A q \in Request, r \in Node : pc[q] \in {"write", "repair"} =>
        /\ PutTo(q, r) \in Message
        /\ Origin(PutTo(q, r).Value, PutTo(q, r).Key)
  <2> TAKE q \in Request, r \in Node
  <2> HAVE pc[q] \in {"write", "repair"}
  <2>1. value[q] # Nil
    BY DEF WellFormed
  <2> QED
    BY <2>1, PutToType DEF Provenance, PutTo, PutMessage
<1>3. ASSUME NEW n \in Node, NEW k \in Key, store'[n][k] # Nil
      PROVE  Origin(store'[n][k], k)
  <2>1. \/ UNCHANGED store
        \/ \E q \in Request, r \in Node : pc[q] \in {"write", "repair"} /\ SetAt(PutTo(q, r))
        \/ \E x \in Node : \E m \in flush[x] : SetAt(m)
        \/ \E m \in delayed : SetAt(m)
    BY DEF Next, vars, StartStep, StartWrite, StartGet, Begin, RequestStep, ReadReply,
         ReadError, PutReply, PutError, RepairError, ReadQuorumMissed, AllocateVersion,
         FinishWrite, NotFound, ChooseLatest, FinishGet, FlushStep, FlushStart,
         FlushReply, FlushError, CrashRestart, LateDelivery
  <2>2. CASE UNCHANGED store
    BY <1>3, <2>2 DEF Provenance
  <2>3. ASSUME NEW m \in Message, SetAt(m), Origin(m.Value, m.Key)
        PROVE  Origin(store'[n][k], k)
    BY <1>3, <2>3, SetAtOrigin
  <2>4. \A x \in Node : \A m \in flush[x] : m \in Message /\ Origin(m.Value, m.Key)
    BY DEF Provenance, TypeOK
  <2>5. \A m \in delayed : m \in Message /\ Origin(m.Value, m.Key)
    BY DEF Provenance, TypeOK
  <2> QED
    BY <1>2, <2>1, <2>2, <2>3, <2>4, <2>5
<1>4. ASSUME NEW n \in Node, NEW r \in Node, NEW k \in Key, hints'[n][r][k] # Nil
      PROVE  Origin(hints'[n][r][k], k)
  <2>1. ASSUME NEW q \in Request, NEW x \in Node, PutError(q, x)
        PROVE  \/ hints'[n][r][k] = hints[n][r][k]
               \/ hints'[n][r][k] = value[q] /\ key[q] = k /\ value[q] # Nil
    <3>1. /\ PutTo(q, x) \in Message /\ coord[q] \in Node /\ key[q] \in Key
          /\ value[q] # Nil
      BY <2>1, PutToType DEF PutError, WellFormed
    <3> QED
      BY <2>1, <3>1 DEF PutError, AddHint, KeepNewest, PutTo, PutMessage, TypeOK
  <2>2. ASSUME NEW x \in Node, NEW m \in flush[x], FlushReply(x, m)
        PROVE  hints'[n][r][k] = hints[n][r][k]
    <3>1. m.Replica \in Node /\ m.Key \in Key
      BY DEF TypeOK, Message
    <3>2. CASE hints' = [hints EXCEPT ![x][m.Replica][m.Key] = Nil]
      BY <1>4, <3>1, <3>2 DEF TypeOK
    <3> QED
      BY <2>2, <3>2 DEF FlushReply, RemoveIfMatch
  <2>3. ASSUME NEW x \in Node, CrashRestart(x)
        PROVE  hints'[n][r][k] = hints[n][r][k]
    BY <1>4, <2>3 DEF CrashRestart, TypeOK
  <2>4. \/ hints'[n][r][k] = hints[n][r][k]
        \/ \E q \in Request : hints'[n][r][k] = value[q] /\ key[q] = k /\ value[q] # Nil
    BY <2>1, <2>2, <2>3
    DEF Next, vars, StartStep, StartWrite, StartGet, Begin, RequestStep, ReadReply,
        ReadError, PutReply, RepairError, ReadQuorumMissed, AllocateVersion,
        FinishWrite, NotFound, ChooseLatest, FinishGet, FlushStep, FlushStart,
        FlushError, LateDelivery
  <2> QED
    BY <1>4, <2>4 DEF Provenance
<1>5. ASSUME NEW n \in Node, NEW m \in flush'[n]
      PROVE  Origin(m.Value, m.Key)
  <2>1. m \in flush[n] \/ m \in List(n)
    <3>1. ASSUME NEW x \in Node,
                 \/ flush' = [flush EXCEPT ![x] = List(x)]
                 \/ flush' = [flush EXCEPT ![x] = {}]
                 \/ \E y \in flush[x] : flush' = [flush EXCEPT ![x] = @ \ {y}]
          PROVE  m \in flush[n] \/ m \in List(n)
      BY <1>5, <3>1 DEF TypeOK
    <3> QED
      BY <1>5, <3>1
      DEF Next, vars, StartStep, StartWrite, StartGet, Begin, RequestStep, ReadReply,
          ReadError, PutReply, PutError, RepairError, ReadQuorumMissed, AllocateVersion,
          FinishWrite, NotFound, ChooseLatest, FinishGet, FlushStep, FlushStart,
          FlushReply, FlushError, CrashRestart, LateDelivery
  <2>2. CASE m \in List(n)
    <3>1. PICK r \in Node, k \in Key :
            hints[n][r][k] # Nil /\ m = PutMessage(r, k, hints[n][r][k])
      BY <2>2 DEF List
    <3> QED
      BY <3>1 DEF Provenance, PutMessage
  <2> QED
    BY <2>1, <2>2 DEF Provenance
<1>6. ASSUME NEW m \in delayed'
      PROVE  Origin(m.Value, m.Key)
  <2>1. \/ m \in delayed
        \/ \E q \in Request, r \in Node : pc[q] \in {"write", "repair"} /\ m = PutTo(q, r)
        \/ \E n \in Node : m \in flush[n]
    <3>1. ASSUME NEW n \in Node, m \in InFlight(n)
          PROVE  \/ \E q \in Request, r \in Node :
                       pc[q] \in {"write", "repair"} /\ m = PutTo(q, r)
                 \/ m \in flush[n]
      BY <3>1 DEF InFlight, TypeOK
    <3>2. ASSUME NEW n \in Node, CrashRestart(n)
          PROVE  m \in delayed \/ m \in InFlight(n)
      BY <1>6, <3>2 DEF CrashRestart
    <3> QED
      BY <1>6, <3>1, <3>2
      DEF Next, vars, StartStep, StartWrite, StartGet, Begin, RequestStep, ReadReply,
          ReadError, PutReply, PutError, RepairError, ReadQuorumMissed,
          AllocateVersion, FinishWrite, NotFound, ChooseLatest, FinishGet, FlushStep,
          FlushStart, FlushReply, FlushError, LateDelivery, PutFails
  <2> QED
    BY <1>2, <2>1 DEF Provenance
<1>7. ASSUME NEW q \in Request, NEW r \in Node,
             seen'[q][r] # Unread, seen'[q][r] # Nil
      PROVE  Origin(seen'[q][r], key'[q])
  <2>1. ASSUME NEW p \in Request, NEW x \in Node, ReadReply(p, x)
        PROVE  Origin(seen'[q][r], key'[q])
    <3>1. key' = key /\ key[p] \in Key
      BY <2>1 DEF ReadReply, Reading, WellFormed
    <3>2. CASE p = q /\ x = r
      <4>1. seen'[q][r] = store[r][key[q]]
        BY <2>1, <3>2 DEF ReadReply, TypeOK
      <4> QED
        BY <1>7, <3>1, <3>2, <4>1 DEF Provenance
    <3>3. CASE ~(p = q /\ x = r)
      <4>1. seen'[q][r] = seen[q][r]
        BY <2>1, <3>3 DEF ReadReply, TypeOK
      <4> QED
        BY <1>7, <3>1, <4>1 DEF Provenance
    <3> QED
      BY <3>2, <3>3
  <2>2. ASSUME NEW p \in Request, NEW n \in Coordinators, NEW k \in Key,
               StartWrite(p, n, k) \/ StartGet(p, n, k)
        PROVE  seen'[q][r] = seen[q][r] /\ key'[q] = key[q]
    <3>1. seen' = seen /\ pc[p] = "idle" /\ key' = [key EXCEPT ![p] = k]
      BY <2>2 DEF StartWrite, StartGet, Begin
    <3>2. p # q
      BY <1>7, <3>1 DEF SeenHold
    <3> QED
      BY <3>1, <3>2 DEF TypeOK
  <2>3. ASSUME NEW p \in Request,
               seen' = [seen EXCEPT ![p] = [n \in Node |-> Unread]], key' = key
        PROVE  seen'[q][r] = seen[q][r] /\ key'[q] = key[q]
    BY <1>7, <2>3 DEF TypeOK
  <2>4. \/ \E p \in Request, x \in Node : ReadReply(p, x)
        \/ seen'[q][r] = seen[q][r] /\ key'[q] = key[q]
    BY <2>2, <2>3
    DEF Next, vars, StartStep, RequestStep, ReadError, PutReply, PutError, RepairError,
        ReadQuorumMissed, AllocateVersion, FinishWrite, NotFound, ChooseLatest,
        FinishGet, FlushStep, FlushStart, FlushReply, FlushError, CrashRestart,
        LateDelivery, requestVars
  <2> QED
    BY <1>7, <2>1, <2>4 DEF Provenance
<1>8. ASSUME NEW q \in Request, value'[q] # Nil
      PROVE  Origin(value[q], key[q])'
  <2>1. CASE q \in Write
    BY <1>8, <2>1 DEF Origin
  <2>2. CASE q \in Gets
    <3>1. ASSUME NEW p \in Request, ChooseLatest(p)
          PROVE  Origin(value'[q], key'[q])
      <4>1. key' = key /\ key[p] \in Key
        BY <3>1 DEF ChooseLatest, WellFormed
      <4>2. CASE p = q
        <5>1. value'[q] \in Found(q)
          BY <3>1, <4>2 DEF ChooseLatest, Latest, TypeOK
        <5>2. PICK r \in Answered(q) : value'[q] = seen[q][r]
          BY <5>1 DEF Found
        <5>3. r \in Node /\ seen[q][r] # Unread
          BY <4>1, <4>2, <5>2, ReplicaAssumption DEF Answered, Replicas
        <5> QED
          BY <1>8, <4>1, <5>2, <5>3 DEF Provenance
      <4>3. CASE p # q
        <5>1. value'[q] = value[q]
          BY <3>1, <4>3 DEF ChooseLatest, TypeOK
        <5> QED
          BY <1>8, <4>1, <5>1 DEF Provenance
      <4> QED
        BY <4>2, <4>3
    <3>2. ASSUME NEW p \in Request, AllocateVersion(p)
          PROVE  value'[q] = value[q] /\ key'[q] = key[q]
      <4>1. p # q
        BY <2>2, <3>2, RequestAssumption DEF AllocateVersion, WellFormed
      <4> QED
        BY <3>2, <4>1 DEF AllocateVersion, TypeOK
    <3>3. ASSUME NEW p \in Request, NEW n \in Coordinators, NEW k \in Key,
                 StartWrite(p, n, k) \/ StartGet(p, n, k)
          PROVE  value'[q] = value[q] /\ key'[q] = key[q]
      <4>1. value' = value /\ pc[p] = "idle" /\ key' = [key EXCEPT ![p] = k]
        BY <3>3 DEF StartWrite, StartGet, Begin
      <4>2. p # q
        BY <1>8, <4>1 DEF WellFormed
      <4> QED
        BY <4>1, <4>2 DEF TypeOK
    <3>4. \/ \E p \in Request : ChooseLatest(p)
          \/ value'[q] = value[q] /\ key'[q] = key[q]
      BY <3>2, <3>3
      DEF Next, vars, StartStep, RequestStep, ReadReply, ReadError, PutReply, PutError,
          RepairError, ReadQuorumMissed, FinishWrite, NotFound, FinishGet, FlushStep,
          FlushStart, FlushReply, FlushError, CrashRestart, LateDelivery, requestVars
    <3>5. Origin(value'[q], key'[q])
      BY <1>8, <3>1, <3>4 DEF Provenance
    <3> QED
      BY <1>1, <3>5 DEF Origin
  <2> QED
    BY <2>1, <2>2 DEF Request
<1>9. \A n \in Node, k \in Key : store'[n][k] # Nil => Origin(store[n][k], k)'
  BY <1>1, <1>3 DEF Origin
<1>10. \A n \in Node, r \in Node, k \in Key :
         hints'[n][r][k] # Nil => Origin(hints[n][r][k], k)'
  <2> TAKE n \in Node, r \in Node, k \in Key
  <2> HAVE hints'[n][r][k] # Nil
  <2>1. Origin(hints'[n][r][k], k)
    BY <1>4
  <2> QED
    BY <1>1, <2>1 DEF Origin
<1>11. \A n \in Node : \A m \in flush'[n] : Origin(m.Value, m.Key)'
  BY <1>1, <1>5
<1>12. \A m \in delayed' : Origin(m.Value, m.Key)'
  BY <1>1, <1>6
<1>13. \A q \in Request, r \in Node :
         seen'[q][r] # Unread /\ seen'[q][r] # Nil => Origin(seen[q][r], key[q])'
  BY <1>1, <1>7 DEF Origin
<1> QED
  BY <1>8, <1>9, <1>10, <1>11, <1>12, <1>13 DEF Provenance

\* Allocated is inductive.
LEMMA AllocatedStep == TypeInv /\ Allocated /\ [Next]_vars => Allocated'
<1> SUFFICES ASSUME TypeInv, Allocated, [Next]_vars, crashes' = 0
             PROVE  /\ \A q \in Write : value'[q] # Nil =>
                         /\ value'[q].Version.NodeID = coord'[q]
                         /\ value'[q].Version.Counter <= version'[coord'[q]]
                    /\ \A q, p \in Write : q # p /\ value'[q] # Nil /\ value'[p] # Nil =>
                         value'[q].Version # value'[p].Version
  BY DEF Allocated
<1> USE DEF TypeInv
<1>1. /\ \A q \in Write : value[q] # Nil =>
            /\ value[q].Version.NodeID = coord[q]
            /\ value[q].Version.Counter <= version[coord[q]]
      /\ \A q, p \in Write : q # p /\ value[q] # Nil /\ value[p] # Nil =>
            value[q].Version # value[p].Version
  <2>1. crashes = 0
    BY DEF Next, vars, StartStep, StartWrite, StartGet, Begin, RequestStep, ReadReply,
           ReadError, PutReply, PutError, RepairError, ReadQuorumMissed, AllocateVersion,
           FinishWrite, NotFound, ChooseLatest, FinishGet, FlushStep, FlushStart,
           FlushReply, FlushError, CrashRestart, LateDelivery, TypeOK
  <2> QED
    BY <2>1 DEF Allocated
<1>2. \A q \in Write : value[q] # Nil =>
        /\ value'[q] = value[q] /\ coord'[q] = coord[q] /\ coord[q] \in Node
        /\ value[q].Version.Counter \in Nat /\ value[q] \in Value
  <2> TAKE q \in Write
  <2> HAVE value[q] # Nil
  <2>1. q \in Request /\ value[q] \in Value /\ coord[q] \in Node
    BY DEF Request, TypeOK, MaybeValue, WellFormed
  <2> QED
    BY <2>1, WriteStable DEF Value, Version
<1>3. ASSUME NEW q \in Request, AllocateVersion(q)
      PROVE  /\ \A p \in Write : value'[p] # Nil =>
                  /\ value'[p].Version.NodeID = coord'[p]
                  /\ value'[p].Version.Counter <= version'[coord'[p]]
             /\ \A o, p \in Write : o # p /\ value'[o] # Nil /\ value'[p] # Nil =>
                  value'[o].Version # value'[p].Version
  <2>1. PICK base \in Counters(q) :
          /\ \A c \in Counters(q) : c <= base
          /\ version' = [version EXCEPT ![coord[q]] = base + 1]
          /\ value' = [value EXCEPT ![q] =
                          NewValue(q, [Counter |-> base + 1, NodeID |-> coord[q]])]
    BY <1>3 DEF AllocateVersion
  <2>2. coord[q] \in Node /\ key[q] \in Key /\ value[q] = Nil /\ coord' = coord
    BY <1>3 DEF AllocateVersion, WellFormed
  <2>3. base \in Nat /\ version[coord[q]] \in Nat /\ version[coord[q]] <= base
    BY <2>1, <2>2, CountersType DEF Counters, TypeOK
  <2>4. value'[q].Version = [Counter |-> base + 1, NodeID |-> coord[q]]
    BY <2>1 DEF NewValue, TypeOK
  <2>5. version'[coord[q]] = base + 1
    BY <2>1, <2>2 DEF TypeOK
  <2>6. ASSUME NEW p \in Write, p # q, value'[p] # Nil
        PROVE  /\ value'[p] = value[p] /\ value[p] # Nil
               /\ value'[p].Version.NodeID = coord'[p]
               /\ value'[p].Version.Counter <= version'[coord'[p]]
               /\ value'[p].Version # value'[q].Version
    <3>1. value'[p] = value[p] /\ value[p] # Nil
      BY <2>1, <2>6 DEF TypeOK, Request
    <3>2. /\ value[p].Version.NodeID = coord[p] /\ coord[p] \in Node
          /\ value[p].Version.Counter <= version[coord[p]]
          /\ value[p].Version.Counter \in Nat
      BY <1>1, <1>2, <3>1
    <3>3. CASE coord[p] = coord[q]
      <4>1. value[p].Version.Counter <= base
        BY <2>3, <3>2, <3>3
      <4> QED
        BY <2>2, <2>3, <2>4, <2>5, <3>1, <3>2, <3>3, <4>1
    <3>4. CASE coord[p] # coord[q]
      <4>1. version'[coord[p]] = version[coord[p]]
        BY <2>1, <3>2, <3>4 DEF TypeOK
      <4> QED
        BY <2>2, <2>4, <3>1, <3>2, <3>4, <4>1
    <3> QED
      BY <3>3, <3>4
  <2>7. /\ value'[q].Version.NodeID = coord'[q]
        /\ value'[q].Version.Counter <= version'[coord'[q]]
    BY <2>2, <2>3, <2>4, <2>5
  <2>8. ASSUME NEW o \in Write, NEW p \in Write, o # p, value'[o] # Nil, value'[p] # Nil
        PROVE  value'[o].Version # value'[p].Version
    <3>1. CASE o = q
      BY <2>6, <2>8, <3>1
    <3>2. CASE p = q
      BY <2>6, <2>8, <3>2
    <3>3. CASE o # q /\ p # q
      BY <1>1, <2>6, <2>8, <3>3
    <3> QED
      BY <3>1, <3>2, <3>3
  <2> QED
    BY <2>6, <2>7, <2>8
<1>4. ASSUME version' = version, \A q \in Write : value'[q] # Nil => value[q] # Nil
      PROVE  /\ \A p \in Write : value'[p] # Nil =>
                  /\ value'[p].Version.NodeID = coord'[p]
                  /\ value'[p].Version.Counter <= version'[coord'[p]]
             /\ \A o, p \in Write : o # p /\ value'[o] # Nil /\ value'[p] # Nil =>
                  value'[o].Version # value'[p].Version
  BY <1>1, <1>2, <1>4
<1>5. ASSUME NEW p \in Request, ChooseLatest(p)
      PROVE  version' = version /\ \A q \in Write : value'[q] # Nil => value[q] # Nil
  <2>1. p \notin Write
    BY <1>5, RequestAssumption DEF ChooseLatest, WellFormed
  <2> QED
    BY <1>5, <2>1 DEF ChooseLatest, TypeOK
<1>6. ASSUME NEW n \in Node, CrashRestart(n)
      PROVE  FALSE
  BY <1>6 DEF CrashRestart, TypeOK
<1>7. \/ \E q \in Request : AllocateVersion(q)
      \/ version' = version /\ \A q \in Write : value'[q] # Nil => value[q] # Nil
  BY <1>5, <1>6
  DEF Next, vars, StartStep, StartWrite, StartGet, Begin, RequestStep, ReadReply,
      ReadError, PutReply, PutError, RepairError, ReadQuorumMissed, FinishWrite,
      NotFound, FinishGet, FlushStep, FlushStart, FlushReply, FlushError,
      LateDelivery, requestVars
<1> QED
  BY <1>3, <1>4, <1>7

\* nextVersion: while no node has crashed, replicas that hold the same version of
\* a key hold the same value.  (After a crash this fails: see the run
\* kv_version_reuse.)
THEOREM VersionsIdentifyValues == Spec => [](crashes = 0 => SameVersionSameValue)
<1> DEFINE IInv == QuorumInv /\ Provenance /\ Allocated
<1>1. Init => IInv
  <2> SUFFICES ASSUME Init PROVE Provenance /\ Allocated
    BY QuorumInit
  <2>1. Provenance
    BY DEF Init, Provenance
  <2>2. Allocated
    BY DEF Init, Allocated, Request
  <2> QED
    BY <2>1, <2>2
<1>2. IInv /\ [Next]_vars => IInv'
  BY QuorumStep, ProvenanceStep, AllocatedStep DEF QuorumInv
<1>3. IInv => (crashes = 0 => SameVersionSameValue)
  <2> SUFFICES ASSUME IInv, crashes = 0,
                      NEW n \in Node, NEW m \in Node, NEW k \in Key,
                      store[n][k] # Nil, store[m][k] # Nil,
                      CompareVersion(store[n][k].Version, store[m][k].Version) = 0
               PROVE  store[n][k] = store[m][k]
    BY DEF SameVersionSameValue
  <2>1. store[n][k].Version = store[m][k].Version
    BY CompareEqual DEF QuorumInv, TypeInv, TypeOK, MaybeValue, Value
  <2>2. PICK q \in Write : value[q] # Nil /\ value[q] = store[n][k]
    BY DEF Provenance, Origin
  <2>3. PICK p \in Write : value[p] # Nil /\ value[p] = store[m][k]
    BY DEF Provenance, Origin
  <2> QED
    BY <2>1, <2>2, <2>3 DEF Allocated
<1> QED
  BY <1>1, <1>2, <1>3, PTL DEF Spec

=============================================================================
