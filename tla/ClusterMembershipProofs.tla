------------------------ MODULE ClusterMembershipProofs ------------------------
(***************************************************************************)
(* Proofs about ClusterMembership, for any number of nodes, virtual nodes, *)
(* replicas, changes, writes, failing calls and restarts.                  *)
(*                                                                         *)
(* That a ring is a function of its members (Exact) needs that no two      *)
(* nodes share a position; then equal members give equal placements.  Such *)
(* a ring finds as many replicas as are asked for (ReplicaCount), and a    *)
(* change of the members moves keys to the new one or from the old one     *)
(* only (AddMovesToNew, RemoveKeepsOthers).                                *)
(*                                                                         *)
(* An acknowledged value is never lost because a rebalance removes a copy  *)
(* only after every replica of its ring has confirmed it (CopiesHeld), and *)
(* none of these can lose it meanwhile: the rebalance that would remove it *)
(* there moves the value too, and as long as nothing crosses it moves it   *)
(* to the same replicas (PlacesAgree), of which that node is one.  So what *)
(* some node holds stays held, and every acknowledged write was held once  *)
(* (WritesHeld).  No assumption about the members or the ring is needed.   *)
(*                                                                         *)
(* That a change which succeeds is in effect at every member needs a       *)
(* coordinator that stays one.  The version of a change is above all that  *)
(* any node has or may still receive (NoneNewer), so every target takes it *)
(* (Targets), and one that has applied it keeps it (InEffect); a change    *)
(* that fails is overtaken by its compensation (UndoReaches).              *)
(*                                                                         *)
(* That such a change keeps the replicas follows one value through its     *)
(* phases (Carried): a member has it, or the drain brings it to a member;  *)
(* a member still to be called will rebalance, its rebalance brings the    *)
(* value to every new replica, and no later rebalance takes it away.       *)
(***************************************************************************)
EXTENDS ClusterMembership, NaturalFacts

LEMMA FirstIn ==
    ASSUME NEW S, S \subseteq Node, S # {}, NEW last
    PROVE  FirstOf(S, last) \in S
<1>1. CASE S = {last}
  BY <1>1 DEF FirstOf
<1>2. CASE S # {last}
  <2>1. S \ {last} # {} /\ S \ {last} \subseteq Nat
    BY <1>2, RingAssumption
  <2>2. PICK m \in S \ {last} : \A x \in S \ {last} : m <= x
    BY <2>1, LeastNatural
  <2> QED
    BY <1>2, <2>2 DEF FirstOf
<1> QED
  BY <1>1, <1>2

-----------------------------------------------------------------------------
(* Rings *)

LEMMA AddToType ==
    ASSUME NEW r \in Ring, NEW m \in Node
    PROVE  AddTo(r, m) \in Ring
BY DEF AddTo, Ring

LEMMA RemoveFromType ==
    ASSUME NEW r \in Ring, NEW m \in Node
    PROVE  RemoveFrom(r, m) \in Ring
BY DEF RemoveFrom, Ring

LEMMA NewRingType ==
    ASSUME NEW S, S \subseteq Node
    PROVE  NewRing(S) \in Ring /\ NewRing(S).members = S
BY DEF NewRing, Ring

\* A position is held by the member that has a virtual node there, and by no other.
Exact(r) ==
    /\ r \in Ring
    /\ \A p \in Position, m \in Node :
         r.owner[p] = m <=> m \in r.members /\ p \in points[m]

LEMMA NewRingExact ==
    ASSUME NoCollision, NEW S, S \subseteq Node
    PROVE  Exact(NewRing(S))
BY NewRingType, RingAssumption DEF Exact, NewRing, NoCollision

LEMMA AddToExact ==
    ASSUME NoCollision, NEW r, Exact(r), NEW m \in Node
    PROVE  /\ Exact(AddTo(r, m))
           /\ AddTo(r, m).members = r.members \cup {m}
BY AddToType, RingAssumption DEF Exact, AddTo, NoCollision, Ring

LEMMA RemoveFromExact ==
    ASSUME NoCollision, NEW r, Exact(r), NEW m \in Node
    PROVE  /\ Exact(RemoveFrom(r, m))
           /\ RemoveFrom(r, m).members = r.members \ {m}
BY RemoveFromType, RingAssumption DEF Exact, RemoveFrom, NoCollision, Ring

\* Where a key is placed depends on the members of the ring only.
LEMMA ExactPlacement ==
    ASSUME NEW r, Exact(r), NEW x, Exact(x), r.members = x.members, NEW k
    PROVE  GetN(r, k) = GetN(x, k)
<1>1. r.owner = x.owner
  <2>1. /\ r.owner \in [Position -> Node \cup {Nil}]
        /\ x.owner \in [Position -> Node \cup {Nil}]
    BY DEF Exact, Ring
  <2>2. ASSUME NEW p \in Position
        PROVE  r.owner[p] = x.owner[p]
    <3>1. \A m \in Node : r.owner[p] = m <=> x.owner[p] = m
      BY DEF Exact
    <3>2. r.owner[p] \in Node \cup {Nil} /\ x.owner[p] \in Node \cup {Nil}
      BY <2>1
    <3> QED
      BY <3>1, <3>2
  <2> QED
    BY <2>1, <2>2
<1> QED
  BY <1>1 DEF GetN, MetBefore, Nearer

LEMMA GetNNodes ==
    ASSUME NEW r, NEW k
    PROVE  GetN(r, k) \subseteq Node
BY DEF GetN

LEMMA ClockwiseNat ==
    ASSUME NEW p \in Position
    PROVE  Clockwise(p) \in Nat
BY RingAssumption DEF Clockwise, Position

-----------------------------------------------------------------------------
(* Types *)

LEMMA ValueType == Value \subseteq Nat /\ Version \subseteq Value /\ 0 \in Value
BY ValueAssumption DEF Value

LEMMA SetStoreType ==
    ASSUME TypeOK, NEW n \in Node, NEW v \in Value, SetStore(n, v)
    PROVE  store' \in [Node -> Value]
BY DEF TypeOK, SetStore

LEMMA AddHintType ==
    ASSUME TypeOK, NEW n \in Node \cup {Nil}, NEW r \in Node, NEW v \in Value, AddHint(n, r, v)
    PROVE  hints' \in [Node -> [Node -> Value]]
BY RingAssumption DEF TypeOK, AddHint

LEMMA ChangeFields ==
    ASSUME NEW o \in Change
    PROVE  /\ o.pc \in {"idle", "drain", "sync", "rebalance", "undo", "done"}
           /\ o.member \in Node \cup {Nil} /\ o.last \in Node \cup {Nil}
           /\ o.prev \subseteq Node /\ o.next \subseteq Node /\ o.version \in Nat
           /\ o.left \subseteq Node /\ o.applied \subseteq Node
           /\ o.busy \in BOOLEAN /\ o.floor \subseteq Version
BY DEF Change

\* A change stays one when fields of it are set.
LEMMA ChangeWith ==
    ASSUME NEW o \in Change, NEW b \in BOOLEAN, NEW A \in SUBSET Node, NEW x \in Nat,
           NEW l \in Node \cup {Nil}, NEW p \in {"rebalance", "done"}
    PROVE  /\ [o EXCEPT !.busy = b] \in Change
           /\ [o EXCEPT !.busy = b, !.applied = A] \in Change
           /\ [o EXCEPT !.busy = b, !.left = A] \in Change
           /\ [o EXCEPT !.pc = p] \in Change
           /\ [o EXCEPT !.pc = p, !.left = A] \in Change
           /\ [o EXCEPT !.pc = "undo", !.version = x, !.last = l, !.left = A, !.busy = b]
                \in Change
<1>1. [o EXCEPT !.busy = b] \in Change
  BY DEF Change
<1>2. [o EXCEPT !.busy = b, !.applied = A] \in Change
  BY DEF Change
<1>3. [o EXCEPT !.busy = b, !.left = A] \in Change
  BY DEF Change
<1>4. [o EXCEPT !.pc = p] \in Change
  BY DEF Change
<1>5. [o EXCEPT !.pc = p, !.left = A] \in Change
  BY DEF Change
<1>6. [o EXCEPT !.pc = "undo", !.version = x, !.last = l, !.left = A, !.busy = b] \in Change
  BY DEF Change
<1> QED
  BY <1>1, <1>2, <1>3, <1>4, <1>5, <1>6

LEMMA NoChangeType == NoChange \in Change
BY DEF NoChange, Change

LEMMA SetOpType ==
    ASSUME TypeOK, NEW c \in Node, NEW o \in Change, SetOp(c, o)
    PROVE  op' \in [Node -> Change]
BY DEF TypeOK, SetOp

LEMMA OpType ==
    ASSUME TypeOK, NEW c \in Node
    PROVE  op[c] \in Change
BY DEF TypeOK

LEMMA ReturnedType ==
    ASSUME TypeOK, NEW c \in Node, NEW t \in Node, Returned(c, t)
    PROVE  op' \in [Node -> Change]
<1> DEFINE A == op[c].applied \cup (IF op[c].pc = "sync" THEN {t} ELSE {})
<1>1. A \subseteq Node
  BY OpType, ChangeFields
<1>2. [op[c] EXCEPT !.busy = FALSE, !.applied = A] \in Change
  <2> HIDE DEF A
  <2> QED
    BY <1>1, OpType, ChangeWith
<1> QED
  BY <1>2, SetOpType DEF Returned

LEMMA CompensateType ==
    ASSUME TypeOK, NEW c \in Node, Compensate(c)
    PROVE  op' \in [Node -> Change]
<1>1. PICK o \in Change : o = op[c]
  BY OpType
<1>2. o.version + 1 \in Nat /\ o.applied \in SUBSET Node
  BY ChangeFields
<1>3. [o EXCEPT !.pc = "undo", !.version = o.version + 1, !.last = Nil,
                !.left = o.applied, !.busy = FALSE] \in Change
  BY <1>2, ChangeWith
<1> QED
  BY <1>1, <1>3, SetOpType DEF Compensate

LEMMA CallFailedType ==
    ASSUME TypeOK, NEW c \in Node, CallFailed(c)
    PROVE  op' \in [Node -> Change]
<1>1. CASE op[c].pc = "drain"
  BY <1>1, NoChangeType, SetOpType DEF CallFailed
<1>2. CASE op[c].pc = "undo"
  <2>1. [op[c] EXCEPT !.busy = FALSE] \in Change
    BY OpType, ChangeWith
  <2> QED
    BY <1>2, <2>1, SetOpType DEF CallFailed
<1>3. CASE op[c].pc \notin {"drain", "undo"}
  BY <1>3, CompensateType DEF CallFailed
<1> QED
  BY <1>1, <1>2, <1>3

LEMMA SyncPhaseType ==
    ASSUME TypeOK, NEW c \in Node, NEW m \in Node \cup {Nil}, NEW last \in Node \cup {Nil},
           NEW prev \in SUBSET Node, NEW next \in SUBSET Node, NEW floor \in SUBSET Version,
           SyncPhase(c, m, last, prev, next, floor)
    PROVE  op' \in [Node -> Change]
<1>1. config[c] + 1 \in Nat
  BY DEF TypeOK
<1>2. [pc |-> "sync", member |-> m, last |-> last, prev |-> prev, next |-> next,
       version |-> config[c] + 1, left |-> next, applied |-> {}, busy |-> FALSE,
       floor |-> floor] \in Change
  BY <1>1 DEF Change
<1> QED
  BY <1>2, SetOpType DEF SyncPhase

LEMMA SyncFields ==
    ASSUME NEW s \in Sync
    PROVE  /\ s.by \in Node /\ s.to \in Node /\ s.live \in BOOLEAN
           /\ s.pc \in {"sent", "apply"} /\ s.version \in Nat /\ s.members \subseteq Node
           /\ s.last \in Node \cup {Nil} /\ s.gone \subseteq Node /\ s.come \subseteq Node
BY DEF Sync

LEMMA RebalanceFields ==
    ASSUME NEW t \in Rebalance
    PROVE  /\ t.by \in Node /\ t.at \in Node /\ t.live \in BOOLEAN
           /\ t.pc \in {"sent", "read", "push"} /\ t.value \in Value
           /\ t.to \subseteq Node /\ t.left \subseteq Node /\ t.copied \subseteq Node
BY DEF Rebalance

LEMMA DrainFields ==
    ASSUME NEW d \in Drain
    PROVE  /\ d.by \in Node /\ d.at \in Node /\ d.pc \in {"sent", "push"}
           /\ d.future \subseteq Node /\ d.value \in Value /\ d.left \subseteq Node
BY DEF Drain

LEMMA RingMembers ==
    ASSUME TypeOK, NEW n \in Node
    PROVE  ring[n] \in Ring /\ ring[n].members \subseteq Node
BY DEF TypeOK, Ring

LEMMA CallTypes ==
    ASSUME TypeOK
    PROVE  syncs \subseteq Sync /\ rebalances \subseteq Rebalance /\ drains \subseteq Drain
BY DEF TypeOK

LEMMA FloorType ==
    ASSUME NEW M
    PROVE  Floor(M) \subseteq Version
BY DEF Floor

LEMMA WriteStepType ==
    ASSUME TypeOK, NEW v \in Version, WriteStep(v)
    PROVE  TypeOK'
<1>1. ASSUME NEW n \in Node, StartWrite(n, v)
      PROVE  TypeOK'
  BY <1>1, GetNNodes DEF TypeOK, StartWrite, Request, Write, calls
<1>2. ASSUME NEW n \in Node, PutReply(v, n)
      PROVE  TypeOK'
  <2>1. store' \in [Node -> Value]
    BY <1>2, SetStoreType, ValueType DEF PutReply
  <2> QED
    BY <1>2, <2>1 DEF TypeOK, PutReply, Write, calls, counts
<1>3. ASSUME NEW n \in Node, PutError(v, n)
      PROVE  TypeOK'
  <2>1. write[v].by \in Node \cup {Nil}
    BY <1>3 DEF TypeOK, PutError, Write
  <2>2. hints' \in [Node -> [Node -> Value]]
    BY <1>3, <2>1, AddHintType, ValueType DEF PutError
  <2>3. delayed' \subseteq Node \X Value
    BY <1>3, ValueType DEF TypeOK, PutError, PutLost
  <2> QED
    BY <1>3, <2>2, <2>3 DEF TypeOK, PutError, Fault, Write, calls
<1>4. ASSUME NEW n \in Node, LateDelivery(n, v)
      PROVE  TypeOK'
  <2>1. store' \in [Node -> Value]
    BY <1>4, SetStoreType, ValueType DEF LateDelivery
  <2> QED
    BY <1>4, <2>1 DEF TypeOK, LateDelivery, calls, counts
<1>5. CASE FinishWrite(v)
  BY <1>5 DEF TypeOK, FinishWrite, Write, calls, counts
<1> QED
  BY <1>1, <1>2, <1>3, <1>4, <1>5 DEF WriteStep

LEMMA ChangeStepType ==
    ASSUME TypeOK, NEW c \in Node, ChangeStep(c)
    PROVE  TypeOK'
<1> USE DEF calls, data, counts
<1>1. ASSUME NEW m \in Node, AddMember(c, m)
      PROVE  TypeOK'
  <2>1. ring[c].members \cup {m} \subseteq Node
    BY RingMembers
  <2>2. op' \in [Node -> Change]
    BY <1>1, <2>1, FloorType, RingMembers, SyncPhaseType DEF AddMember
  <2> QED
    BY <1>1, <2>2 DEF TypeOK, AddMember, CanChange, Request
<1>2. ASSUME NEW m \in Node, RemoveMember(c, m)
      PROVE  TypeOK'
  <2> DEFINE current == ring[c].members
             o == [pc |-> "drain", member |-> m, last |-> Nil, prev |-> current,
                   next |-> current \ {m}, version |-> 0, left |-> {}, applied |-> {},
                   busy |-> TRUE, floor |-> Floor(current)]
             d == [by |-> c, at |-> m, pc |-> "sent", future |-> current \ {m},
                   value |-> 0, left |-> {}]
  <2>1. current \subseteq Node /\ Floor(current) \subseteq Version
    BY FloorType, RingMembers
  <2>2. o \in Change
    BY <2>1 DEF Change
  <2>3. d \in Drain
    BY <2>1, ValueType DEF Drain
  <2>4. SetOp(c, o) /\ drains' = drains \cup {d}
    BY <1>2 DEF RemoveMember
  <2> HIDE DEF o, d
  <2>5. op' \in [Node -> Change]
    BY <2>2, <2>4, SetOpType
  <2>6. drains' \subseteq Drain
    BY <2>3, <2>4, CallTypes
  <2> QED
    BY <1>2, <2>5, <2>6 DEF TypeOK, RemoveMember, CanChange, Request
<1>3. CASE CallSync(c)
  <2> DEFINE o == op[c]
             t == FirstOf(o.left, o.last)
             M == IF o.pc = "sync" THEN o.next ELSE o.prev
             s == [by |-> c, to |-> t, live |-> TRUE, pc |-> "sent", version |-> o.version,
                   members |-> M, last |-> o.last, gone |-> {}, come |-> M]
  <2>1. o \in Change /\ t \in Node /\ M \subseteq Node
    BY <1>3, OpType, ChangeFields, FirstIn DEF CallSync
  <2>2. s \in Sync
    BY <2>1, ChangeFields DEF Sync
  <2>3. SetOp(c, [o EXCEPT !.busy = TRUE, !.left = o.left \ {t}]) /\ syncs' = syncs \cup {s}
    BY <1>3 DEF CallSync
  <2> HIDE DEF o, s
  <2>4. o.left \ {t} \in SUBSET Node
    BY <2>1, ChangeFields
  <2>5. op' \in [Node -> Change]
    BY <2>1, <2>3, <2>4, ChangeWith, SetOpType
  <2>6. syncs' \subseteq Sync
    BY <2>2, <2>3, CallTypes
  <2> QED
    BY <1>3, <2>5, <2>6 DEF TypeOK, CallSync
<1>4. CASE RebalancePhase(c)
  <2>1. [op[c] EXCEPT !.pc = "rebalance", !.left = op[c].next] \in Change
    BY OpType, ChangeFields, ChangeWith
  <2>2. op' \in [Node -> Change]
    BY <1>4, <2>1, SetOpType DEF RebalancePhase
  <2> QED
    BY <1>4, <2>2 DEF TypeOK, RebalancePhase
<1>5. CASE CallRebalance(c)
  <2> DEFINE o == op[c]
             t == FirstOf(o.left, o.last)
             b == [by |-> c, at |-> t, live |-> TRUE, pc |-> "sent", value |-> 0,
                   to |-> {}, left |-> {}, copied |-> {}]
  <2>1. o \in Change /\ t \in Node
    BY <1>5, OpType, ChangeFields, FirstIn DEF CallRebalance
  <2>2. b \in Rebalance
    BY <2>1, ValueType DEF Rebalance
  <2>3. /\ SetOp(c, [o EXCEPT !.busy = TRUE, !.left = o.left \ {t}])
        /\ rebalances' = rebalances \cup {b}
    BY <1>5 DEF CallRebalance
  <2> HIDE DEF o, b
  <2>4. o.left \ {t} \in SUBSET Node
    BY <2>1, ChangeFields
  <2>5. op' \in [Node -> Change]
    BY <2>1, <2>3, <2>4, ChangeWith, SetOpType
  <2>6. rebalances' \subseteq Rebalance
    BY <2>2, <2>3, CallTypes
  <2> QED
    BY <1>5, <2>5, <2>6 DEF TypeOK, CallRebalance
<1>6. CASE ChangeDone(c)
  <2>1. [op[c] EXCEPT !.pc = "done"] \in Change
    BY OpType, ChangeWith
  <2>2. op' \in [Node -> Change]
    BY <1>6, <2>1, SetOpType DEF ChangeDone
  <2> QED
    BY <1>6, <2>2 DEF TypeOK, ChangeDone
<1>7. CASE UndoDone(c)
  <2>1. op' \in [Node -> Change]
    BY <1>7, NoChangeType, SetOpType DEF UndoDone
  <2>2. config' \in [Node -> Nat]
    BY <1>7, OpType, ChangeFields DEF TypeOK, UndoDone
  <2> QED
    BY <1>7, <2>1, <2>2 DEF TypeOK, UndoDone
<1>8. CASE CallBroken(c)
  <2>1. op' \in [Node -> Change]
    BY <1>8, CallFailedType DEF CallBroken
  <2> QED
    BY <1>8, <2>1 DEF TypeOK, CallBroken
<1> QED
  BY <1>1, <1>2, <1>3, <1>4, <1>5, <1>6, <1>7, <1>8 DEF ChangeStep

\* Calls stay calls when fields of them are set.
LEMMA SyncWith ==
    ASSUME NEW s \in Sync, NEW A \in SUBSET Node, NEW b \in BOOLEAN
    PROVE  /\ [s EXCEPT !.pc = "apply", !.gone = A] \in Sync
           /\ [s EXCEPT !.gone = A] \in Sync
           /\ [s EXCEPT !.come = A] \in Sync
           /\ [s EXCEPT !.live = b] \in Sync
<1>1. [s EXCEPT !.pc = "apply", !.gone = A] \in Sync
  BY DEF Sync
<1>2. [s EXCEPT !.gone = A] \in Sync
  BY DEF Sync
<1>3. [s EXCEPT !.come = A] \in Sync
  BY DEF Sync
<1>4. [s EXCEPT !.live = b] \in Sync
  BY DEF Sync
<1> QED
  BY <1>1, <1>2, <1>3, <1>4

LEMMA RebalanceWith ==
    ASSUME NEW t \in Rebalance, NEW A \in SUBSET Node, NEW B \in SUBSET Node,
           NEW u \in Value, NEW b \in BOOLEAN
    PROVE  /\ [t EXCEPT !.pc = "read", !.value = u] \in Rebalance
           /\ [t EXCEPT !.pc = "push", !.to = A, !.left = B] \in Rebalance
           /\ [t EXCEPT !.left = A, !.copied = B] \in Rebalance
           /\ [t EXCEPT !.left = A] \in Rebalance
           /\ [t EXCEPT !.live = b] \in Rebalance
<1>1. [t EXCEPT !.pc = "read", !.value = u] \in Rebalance
  BY DEF Rebalance
<1>2. [t EXCEPT !.pc = "push", !.to = A, !.left = B] \in Rebalance
  BY DEF Rebalance
<1>3. [t EXCEPT !.left = A, !.copied = B] \in Rebalance
  BY DEF Rebalance
<1>4. [t EXCEPT !.left = A] \in Rebalance
  BY DEF Rebalance
<1>5. [t EXCEPT !.live = b] \in Rebalance
  BY DEF Rebalance
<1> QED
  BY <1>1, <1>2, <1>3, <1>4, <1>5

LEMMA DrainWith ==
    ASSUME NEW d \in Drain, NEW A \in SUBSET Node, NEW u \in Value
    PROVE  /\ [d EXCEPT !.pc = "push", !.value = u, !.left = A] \in Drain
           /\ [d EXCEPT !.left = A] \in Drain
<1>1. [d EXCEPT !.pc = "push", !.value = u, !.left = A] \in Drain
  BY DEF Drain
<1>2. [d EXCEPT !.left = A] \in Drain
  BY DEF Drain
<1> QED
  BY <1>1, <1>2

LEMMA SyncStepType ==
    ASSUME TypeOK, NEW s \in syncs, SyncStep(s)
    PROVE  TypeOK'
<1> USE DEF calls, data, counts
<1> s \in Sync /\ s.to \in Node /\ s.by \in Node
  BY CallTypes, SyncFields
<1>1. EndSync(s) => op' \in [Node -> Change] /\ syncs' \subseteq Sync
  <2>1. UNCHANGED op => op' \in [Node -> Change]
    BY DEF TypeOK
  <2> QED
    BY <2>1, CallTypes, ReturnedType DEF EndSync
<1>2. CASE SyncStart(s)
  <2>1. CASE s.version <= config[s.to]
    BY <1>1, <1>2, <2>1 DEF TypeOK, SyncStart
  <2>2. CASE ~(s.version <= config[s.to])
    <3>1. ring[s.to].members \ s.members \in SUBSET Node
      BY RingMembers
    <3>2. syncs' \subseteq Sync
      BY <1>2, <2>2, <3>1, CallTypes, SyncWith DEF SyncStart, Replace
    <3> QED
      BY <1>2, <2>2, <3>2 DEF TypeOK, SyncStart
  <2> QED
    BY <2>1, <2>2
<1>3. CASE SyncRemove(s)
  <2> DEFINE m == FirstOf(s.gone, Nil)
  <2>1. m \in Node /\ s.gone \ {m} \in SUBSET Node
    BY <1>3, FirstIn, SyncFields DEF SyncRemove
  <2>2. ring' \in [Node -> Ring]
    BY <1>3, <2>1, RingMembers, RemoveFromType DEF TypeOK, SyncRemove
  <2>3. syncs' \subseteq Sync
    BY <1>3, <2>1, CallTypes, SyncWith DEF SyncRemove, Replace
  <2> QED
    BY <1>3, <2>2, <2>3 DEF TypeOK, SyncRemove
<1>4. CASE SyncAdd(s)
  <2> DEFINE m == FirstOf(s.come, s.last)
  <2>1. m \in Node /\ s.come \ {m} \in SUBSET Node
    BY <1>4, FirstIn, SyncFields DEF SyncAdd
  <2>2. ring' \in [Node -> Ring]
    BY <1>4, <2>1, RingMembers, AddToType DEF TypeOK, SyncAdd
  <2>3. syncs' \subseteq Sync
    BY <1>4, <2>1, CallTypes, SyncWith DEF SyncAdd, Replace
  <2> QED
    BY <1>4, <2>2, <2>3 DEF TypeOK, SyncAdd
<1>5. CASE SyncEnd(s)
  BY <1>1, <1>5, SyncFields DEF TypeOK, SyncEnd
<1>6. CASE SyncLost(s)
  <2>1. op' \in [Node -> Change]
    BY <1>6, CallFailedType DEF SyncLost
  <2>2. syncs' \subseteq Sync
    BY <1>6, CallTypes, SyncWith DEF SyncLost, Replace
  <2> QED
    BY <1>6, <2>1, <2>2 DEF TypeOK, SyncLost
<1> QED
  BY <1>2, <1>3, <1>4, <1>5, <1>6 DEF SyncStep

LEMMA RebalanceStepType ==
    ASSUME TypeOK, NEW t \in rebalances, RebalanceStep(t)
    PROVE  TypeOK'
<1> USE DEF calls, data, counts
<1> t \in Rebalance /\ t.at \in Node /\ t.by \in Node /\ t.value \in Value
  BY CallTypes, RebalanceFields
<1>1. EndRebalance(t) => op' \in [Node -> Change] /\ rebalances' \subseteq Rebalance
  <2>1. UNCHANGED op => op' \in [Node -> Change]
    BY DEF TypeOK
  <2> QED
    BY <2>1, CallTypes, ReturnedType DEF EndRebalance
<1>2. CASE RebalanceRead(t)
  <2>1. CASE store[t.at] = 0
    BY <1>1, <1>2, <2>1 DEF TypeOK, RebalanceRead
  <2>2. CASE store[t.at] # 0
    <3>1. store[t.at] \in Value
      BY DEF TypeOK
    <3>2. rebalances' \subseteq Rebalance
      BY <1>2, <2>2, <3>1, CallTypes, RebalanceWith DEF RebalanceRead, Replace
    <3> QED
      BY <1>2, <2>2, <3>2 DEF TypeOK, RebalanceRead
  <2> QED
    BY <2>1, <2>2
<1>3. CASE RebalanceStart(t)
  <2> DEFINE R == GetN(ring[t.at], replicas)
  <2>1. R \in SUBSET Node /\ R \ {t.at} \in SUBSET Node
    BY GetNNodes
  <2>2. rebalances' \subseteq Rebalance
    <3> HIDE DEF R
    <3>1. rebalances' = Replace(rebalances, t, [t EXCEPT !.pc = "push", !.to = R,
                                                         !.left = R \ {t.at}])
      BY <1>3 DEF RebalanceStart, R
    <3> QED
      BY <2>1, <3>1, CallTypes, RebalanceWith DEF Replace
  <2>3. crossed' \subseteq Version
    BY <1>3 DEF TypeOK, RebalanceStart, Crosses
  <2>4. UNCHANGED <<ring, config, op, syncs, drains, data, requests, disturbed, faults>>
    BY <1>3 DEF RebalanceStart
  <2> QED
    BY <2>2, <2>3, <2>4 DEF TypeOK
<1>4. CASE RebalanceEnd(t)
  <2>1. store' \in [Node -> Value]
    BY <1>4, ValueType DEF TypeOK, RebalanceEnd, CleanUp
  <2>2. disturbed' \subseteq Node
    BY <1>4 DEF TypeOK, RebalanceEnd
  <2> QED
    BY <1>1, <1>4, <2>1, <2>2 DEF TypeOK, RebalanceEnd
<1>5. CASE RebalanceLost(t)
  <2>1. op' \in [Node -> Change]
    BY <1>5, CallFailedType DEF RebalanceLost
  <2>2. rebalances' \subseteq Rebalance
    BY <1>5, CallTypes, RebalanceWith DEF RebalanceLost, Replace
  <2> QED
    BY <1>5, <2>1, <2>2 DEF TypeOK, RebalanceLost, Fault
<1>6. ASSUME NEW p \in Node, RebalancePush(t, p)
      PROVE  TypeOK'
  <2>1. store' \in [Node -> Value]
    BY <1>6, SetStoreType DEF RebalancePush
  <2>2. t.left \ {p} \in SUBSET Node /\ t.copied \cup {p} \in SUBSET Node
    BY RebalanceFields
  <2>3. rebalances' \subseteq Rebalance
    BY <1>6, <2>2, CallTypes, RebalanceWith DEF RebalancePush, Replace
  <2> QED
    BY <1>6, <2>1, <2>3 DEF TypeOK, RebalancePush
<1>7. ASSUME NEW p \in Node, RebalancePushFails(t, p)
      PROVE  TypeOK'
  <2>1. hints' \in [Node -> [Node -> Value]]
    BY <1>7, AddHintType DEF RebalancePushFails
  <2>2. t.left \ {p} \in SUBSET Node
    BY RebalanceFields
  <2>3. rebalances' \subseteq Rebalance
    BY <1>7, <2>2, CallTypes, RebalanceWith DEF RebalancePushFails, Replace
  <2>4. delayed' \subseteq Node \X Value
    BY <1>7 DEF TypeOK, RebalancePushFails, PutLost
  <2>5. /\ requests' \in Nat /\ faults' \in Nat
        /\ disturbed' \subseteq Node /\ crossed' \subseteq Version
    <3>1. CASE t.live
      BY <1>7, <3>1 DEF TypeOK, RebalancePushFails, Fault
    <3>2. CASE ~t.live
      BY <1>7, <3>2 DEF TypeOK, RebalancePushFails
    <3> QED
      BY <3>1, <3>2
  <2>6. UNCHANGED <<ring, config, op, syncs, drains, store, write>>
    BY <1>7 DEF RebalancePushFails
  <2> QED
    BY <2>1, <2>3, <2>4, <2>5, <2>6 DEF TypeOK
<1> QED
  BY <1>2, <1>3, <1>4, <1>5, <1>6, <1>7 DEF RebalanceStep

LEMMA DrainStepType ==
    ASSUME TypeOK, NEW d \in drains, DrainStep(d)
    PROVE  TypeOK'
<1> USE DEF calls, data, counts
<1> d \in Drain /\ d.at \in Node /\ d.by \in Node /\ d.value \in Value
  BY CallTypes, DrainFields
<1>1. CASE DrainStart(d)
  <2> DEFINE L == IF store[d.at] = 0 THEN {} ELSE GetN(NewRing(d.future), replicas)
  <2>1. L \in SUBSET Node /\ store[d.at] \in Value
    BY GetNNodes DEF TypeOK
  <2>2. drains' = Replace(drains, d, [d EXCEPT !.pc = "push", !.value = store[d.at],
                                               !.left = L])
    BY <1>1 DEF DrainStart
  <2>3. drains' \subseteq Drain
    <3> HIDE DEF L
    <3> QED
      BY <2>1, <2>2, CallTypes, DrainWith DEF Replace
  <2> QED
    BY <1>1, <2>3 DEF TypeOK, DrainStart
<1>2. CASE DrainEnd(d)
  <2>1. d.future \in SUBSET Node /\ d.future \cup {d.at} \in SUBSET Node
    BY DrainFields
  <2>2. op[d.by].floor \in SUBSET Version
    BY OpType, ChangeFields
  <2>3. op' \in [Node -> Change]
    BY <1>2, <2>1, <2>2, SyncPhaseType DEF DrainEnd
  <2> QED
    BY <1>2, <2>3 DEF TypeOK, DrainEnd
<1>3. CASE DrainFails(d)
  <2>1. op' \in [Node -> Change]
    BY <1>3, CallFailedType DEF DrainFails
  <2>2. delayed' \subseteq Node \X Value
    BY <1>3, DrainFields DEF TypeOK, DrainFails
  <2> QED
    BY <1>3, <2>1, <2>2 DEF TypeOK, DrainFails, Fault
<1>4. ASSUME NEW p \in Node, DrainPush(d, p)
      PROVE  TypeOK'
  <2>1. store' \in [Node -> Value]
    BY <1>4, SetStoreType DEF DrainPush
  <2>2. d.left \ {p} \in SUBSET Node
    BY DrainFields
  <2>3. drains' \subseteq Drain
    BY <1>4, <2>2, CallTypes, DrainWith DEF DrainPush, Replace
  <2> QED
    BY <1>4, <2>1, <2>3 DEF TypeOK, DrainPush
<1> QED
  BY <1>1, <1>2, <1>3, <1>4 DEF DrainStep

LEMMA FlushHintType ==
    ASSUME TypeOK, NEW n \in Node, NEW r \in Node, FlushHint(n, r)
    PROVE  TypeOK'
<1>1. hints[n][r] \in Value
  BY DEF TypeOK
<1>2. store' \in [Node -> Value]
  BY <1>1, SetStoreType DEF FlushHint
<1>3. hints' \in [Node -> [Node -> Value]]
  BY ValueType DEF TypeOK, FlushHint
<1> QED
  BY <1>2, <1>3 DEF TypeOK, FlushHint, calls, counts

LEMMA RestartType ==
    ASSUME TypeOK, NEW n \in Node, Restart(n)
    PROVE  TypeOK'
<1>1. ring' \in [Node -> Ring]
  BY NewRingType, MemberAssumption DEF TypeOK, Restart
<1>2. op' \in [Node -> Change]
  BY NoChangeType, SetOpType DEF Restart, SetOp
<1>3. syncs' \subseteq Sync
  BY CallTypes, SyncFields, SyncWith DEF Restart, Without
<1>4. rebalances' \subseteq Rebalance
  BY CallTypes, RebalanceFields, RebalanceWith, ZenonT(60) DEF Restart, Without
<1>5. hints' \in [Node -> [Node -> Value]]
  BY ValueType DEF TypeOK, Restart
<1>6. write' \in [Version -> Write]
  BY DEF TypeOK, Restart, Write
<1>7. delayed' \subseteq Node \X Value
  <2>1. \A v \in Version : write[v].wait \subseteq Node
    BY DEF TypeOK, Write
  <2> QED
    BY <2>1, ValueType DEF TypeOK, Restart
<1> QED
  BY <1>1, <1>2, <1>3, <1>4, <1>5, <1>6, <1>7 DEF TypeOK, Restart

LEMMA InitType == Init => TypeOK
<1> SUFFICES ASSUME Init PROVE TypeOK
  OBVIOUS
<1>1. ring \in [Node -> Ring]
  BY NewRingType, MemberAssumption DEF Init
<1>2. op \in [Node -> Change]
  BY NoChangeType DEF Init
<1> QED
  BY <1>1, <1>2, ValueType DEF Init, TypeOK, Write

LEMMA NextType == TypeOK /\ [Next]_vars => TypeOK'
<1> SUFFICES ASSUME TypeOK, [Next]_vars PROVE TypeOK'
  OBVIOUS
<1>1. CASE UNCHANGED vars
  BY <1>1 DEF vars, data, calls, counts, TypeOK
<1> QED
  BY <1>1, ChangeStepType, SyncStepType, RebalanceStepType, DrainStepType, WriteStepType,
     FlushHintType, RestartType DEF Next

\* Every variable has its type (the data of a change, of its calls and of the rings).
THEOREM MembershipTypeCorrect == Spec => []TypeOK
BY InitType, NextType, PTL DEF Spec

-----------------------------------------------------------------------------
(* Placement *)

\* What a step may do to a ring: a handler removes or adds one member, or the node
\* starts again.
LEMMA RingChanges ==
    ASSUME TypeOK, Next
    PROVE  \/ UNCHANGED ring
           \/ \E n \in Node, m \in Node : ring' = [ring EXCEPT ![n] = AddTo(@, m)]
           \/ \E s \in syncs : \E m \in s.gone : ring' = [ring EXCEPT ![s.to] = RemoveFrom(@, m)]
           \/ \E n \in Node : ring' = [ring EXCEPT ![n] = NewRing(Seeds[n])]
<1>1. ASSUME NEW c \in Node, ChangeStep(c)
      PROVE  UNCHANGED ring
  BY <1>1 DEF ChangeStep, AddMember, RemoveMember, CallSync, RebalancePhase, CallRebalance,
              ChangeDone, UndoDone, CallBroken
<1>2. ASSUME NEW s \in syncs, SyncStep(s)
      PROVE  \/ UNCHANGED ring
             \/ \E m \in Node : ring' = [ring EXCEPT ![s.to] = AddTo(@, m)]
             \/ \E m \in s.gone : ring' = [ring EXCEPT ![s.to] = RemoveFrom(@, m)]
  <2>1. s.gone \subseteq Node /\ s.come \subseteq Node
    BY CallTypes, SyncFields
  <2>2. CASE SyncRemove(s)
    BY <2>1, <2>2, FirstIn DEF SyncRemove
  <2>3. CASE SyncAdd(s)
    BY <2>1, <2>3, FirstIn DEF SyncAdd
  <2> QED
    BY <1>2, <2>2, <2>3 DEF SyncStep, SyncStart, SyncEnd, SyncLost
<1>3. ASSUME NEW t \in rebalances, RebalanceStep(t)
      PROVE  UNCHANGED ring
  BY <1>3 DEF RebalanceStep, RebalanceRead, RebalanceStart, RebalanceEnd, RebalanceLost,
              RebalancePush, RebalancePushFails
<1>4. ASSUME NEW d \in drains, DrainStep(d)
      PROVE  UNCHANGED ring
  BY <1>4 DEF DrainStep, DrainStart, DrainEnd, DrainFails, DrainPush
<1>5. ASSUME NEW v \in Version, WriteStep(v)
      PROVE  UNCHANGED ring
  BY <1>5 DEF WriteStep, StartWrite, PutReply, PutError, LateDelivery, FinishWrite
<1>6. ASSUME NEW n \in Node, NEW r \in Node, FlushHint(n, r)
      PROVE  UNCHANGED ring
  BY <1>6 DEF FlushHint
<1>7. ASSUME NEW n \in Node, Restart(n)
      PROVE  ring' = [ring EXCEPT ![n] = NewRing(Seeds[n])]
  BY <1>7 DEF Restart
<1>8. \A s \in syncs : s.to \in Node
  BY CallTypes, SyncFields
<1> QED
  BY <1>1, <1>2, <1>3, <1>4, <1>5, <1>6, <1>7, <1>8 DEF Next

RingsExact == \A n \in Node : Exact(ring[n])

LEMMA RingsExactStep ==
    ASSUME NoCollision, TypeOK, RingsExact, [Next]_vars
    PROVE  RingsExact'
<1> SUFFICES ASSUME NEW x \in Node
             PROVE  Exact(ring'[x])
  BY DEF RingsExact
<1>1. ring \in [Node -> Ring] /\ Exact(ring[x])
  BY DEF TypeOK, RingsExact
<1>2. CASE UNCHANGED ring
  BY <1>1, <1>2
<1>3. ASSUME NEW n \in Node, NEW m \in Node, ring' = [ring EXCEPT ![n] = AddTo(@, m)]
      PROVE  Exact(ring'[x])
  <2>1. Exact(AddTo(ring[x], m))
    BY <1>1, AddToExact
  <2>2. ring'[x] = IF x = n THEN AddTo(ring[x], m) ELSE ring[x]
    BY <1>1, <1>3
  <2> QED
    BY <1>1, <2>1, <2>2
<1>4. ASSUME NEW s \in syncs, NEW m \in s.gone,
             ring' = [ring EXCEPT ![s.to] = RemoveFrom(@, m)]
      PROVE  Exact(ring'[x])
  <2>1. m \in Node
    BY CallTypes, SyncFields
  <2>2. Exact(RemoveFrom(ring[x], m))
    BY <1>1, <2>1, RemoveFromExact
  <2>3. ring'[x] = IF x = s.to THEN RemoveFrom(ring[x], m) ELSE ring[x]
    BY <1>1, <1>4
  <2> QED
    BY <1>1, <2>2, <2>3
<1>5. ASSUME NEW n \in Node, ring' = [ring EXCEPT ![n] = NewRing(Seeds[n])]
      PROVE  Exact(ring'[x])
  <2>1. Exact(NewRing(Seeds[x]))
    BY MemberAssumption, NewRingExact
  <2>2. ring'[x] = IF x = n THEN NewRing(Seeds[x]) ELSE ring[x]
    BY <1>1, <1>5
  <2> QED
    BY <1>1, <2>1, <2>2
<1> QED
  BY <1>2, <1>3, <1>4, <1>5, RingChanges DEF vars

\* Nodes whose rings have the same members place the key on the same replicas, however
\* the members came and went, for every number of nodes, virtual nodes and replicas.
THEOREM PlacementsAgree == ASSUME NoCollision PROVE Spec => []PlacementAgrees
<1>1. Init => RingsExact
  BY MemberAssumption, NewRingExact DEF Init, RingsExact
<1>2. RingsExact => PlacementAgrees
  BY ExactPlacement DEF RingsExact, PlacementAgrees
<1>3. TypeOK /\ RingsExact /\ [Next]_vars => RingsExact'
  BY RingsExactStep
<1> QED
  BY <1>1, <1>2, <1>3, MembershipTypeCorrect, PTL DEF Spec

-----------------------------------------------------------------------------
(* No write that was acknowledged is lost *)

\* A rebalance pushes v, or something newer, and may then remove it.
Moves(t, v) == t.pc = "push" /\ v <= t.value

\* Rebalances of different nodes that move a write agree on where it belongs.
PlacesAgree ==
    \A v \in Version \ crossed : \A t, x \in rebalances :
        Moves(t, v) /\ Moves(x, v) /\ t.at # x.at => t.to = x.to

\* There is a place to move it to, and the places that have confirmed it have it.
CopiesHeld ==
    \A t \in rebalances :
        /\ t.pc # "push" => t.copied = {}
        /\ t.pc = "push" => t.left \cup t.copied \subseteq t.to \ {t.at}
        /\ \A v \in Version \ crossed : Moves(t, v) =>
              t.to # {} /\ \A p \in t.copied : store[p] >= v

Held(v) == \E n \in Node : store[n] >= v

WritesHeld ==
    \A v \in Version :
        /\ v \notin crossed /\ write[v].acks # {} => Held(v)
        /\ write[v].pc = "ok" => write[v].acks # {}

\* What AckedHeld rests on.
DataKept == PlacesAgree /\ CopiesHeld /\ WritesHeld

\* Nothing is forgotten of what was moved in opposite directions.
LEMMA CrossedGrows ==
    ASSUME TypeOK, Next
    PROVE  crossed \subseteq crossed'
<1> USE DEF counts, Fault, Request
<1>1. ASSUME NEW c \in Node, ChangeStep(c)
      PROVE  crossed \subseteq crossed'
  BY <1>1 DEF ChangeStep, AddMember, RemoveMember, CanChange, CallSync, RebalancePhase,
              CallRebalance, ChangeDone, UndoDone, CallBroken
<1>2. ASSUME NEW s \in syncs, SyncStep(s)
      PROVE  crossed \subseteq crossed'
  BY <1>2 DEF SyncStep, SyncStart, SyncRemove, SyncAdd, SyncEnd, SyncLost
<1>3. ASSUME NEW t \in rebalances, RebalanceStep(t)
      PROVE  crossed \subseteq crossed'
  BY <1>3 DEF RebalanceStep, RebalanceRead, RebalanceStart, RebalanceEnd, RebalanceLost,
              RebalancePush, RebalancePushFails
<1>4. ASSUME NEW d \in drains, DrainStep(d)
      PROVE  crossed \subseteq crossed'
  BY <1>4 DEF DrainStep, DrainStart, DrainEnd, DrainFails, DrainPush
<1>5. ASSUME NEW v \in Version, WriteStep(v)
      PROVE  crossed \subseteq crossed'
  BY <1>5 DEF WriteStep, StartWrite, PutReply, PutError, LateDelivery, FinishWrite
<1>6. ASSUME NEW n \in Node, NEW r \in Node, FlushHint(n, r) \/ Restart(n)
      PROVE  crossed \subseteq crossed'
  BY <1>6 DEF FlushHint, Restart
<1> QED
  BY <1>1, <1>2, <1>3, <1>4, <1>5, <1>6 DEF Next

\* A rebalance that a step leaves: it stands as t did, or begins to push, to the replicas
\* R, which have been compared with those of all others, or does not push.
Alike(y, t) == y.pc = t.pc /\ y.at = t.at /\ y.value = t.value /\ y.to = t.to

Begins(y, t, R) ==
    /\ y.pc = "push" /\ y.at = t.at /\ y.value = t.value /\ y.to = R
    /\ y.left = R \ {t.at} /\ y.copied = {}
    /\ crossed' = crossed \cup Crosses(t, R)
    /\ rebalances' = (rebalances \ {t}) \cup {y}

\* A confirmed push.
Confirms(y, t, p) ==
    /\ y.copied = t.copied \cup {p} /\ y.left = t.left \ {p}
    /\ t.pc = "push" /\ p \in t.left /\ p \in Node /\ store'[p] >= t.value

Follows(y) ==
    \/ y.pc # "push" /\ y.copied = {}
    \/ \E t \in rebalances, R \in SUBSET Node : Begins(y, t, R)
    \/ \E t \in rebalances :
          /\ Alike(y, t)
          /\ \/ y.left \subseteq t.left /\ y.copied = t.copied
             \/ \E p \in Node : Confirms(y, t, p)

LEMMA RebalancesFollow ==
    ASSUME TypeOK, CopiesHeld, Next
    PROVE  \A y \in rebalances' : Follows(y)
<1>1. \A y \in rebalances : Follows(y)
  BY DEF Follows, Alike
<1>2. ASSUME NEW x, NEW y, Follows(y), rebalances' \subseteq (rebalances \ {x}) \cup {y}
      PROVE  \A z \in rebalances' : Follows(z)
  BY <1>1, <1>2
<1>3. ASSUME rebalances' \subseteq rebalances
      PROVE  \A z \in rebalances' : Follows(z)
  BY <1>1, <1>3
<1>4. ASSUME NEW c \in Node, ChangeStep(c)
      PROVE  \A z \in rebalances' : Follows(z)
  <2>1. CASE CallRebalance(c)
    <3> DEFINE y == [by |-> c, at |-> FirstOf(op[c].left, op[c].last), live |-> TRUE,
                     pc |-> "sent", value |-> 0, to |-> {}, left |-> {}, copied |-> {}]
    <3>1. y.pc = "sent" /\ y.copied = {}
      OBVIOUS
    <3>2. rebalances' = rebalances \cup {y}
      BY <2>1 DEF CallRebalance
    <3> HIDE DEF y
    <3>3. Follows(y)
      BY <3>1 DEF Follows
    <3> QED
      BY <1>1, <3>2, <3>3
  <2> QED
    BY <1>3, <1>4, <2>1 DEF ChangeStep, AddMember, RemoveMember, CallSync, RebalancePhase,
                            ChangeDone, UndoDone, CallBroken, calls
<1>5. ASSUME NEW t \in rebalances, RebalanceStep(t)
      PROVE  \A z \in rebalances' : Follows(z)
  <2>1. t \in Rebalance /\ t.at \in Node /\ t.copied \subseteq Node /\ t.value \in Nat
    BY CallTypes, RebalanceFields, ValueType
  <2>2. CASE RebalanceRead(t)
    <3>1. CASE store[t.at] = 0
      BY <1>3, <2>2, <3>1 DEF RebalanceRead, EndRebalance
    <3>2. CASE store[t.at] # 0
      <4> DEFINE y == [t EXCEPT !.pc = "read", !.value = store[t.at]]
      <4>1. y.pc = "read" /\ y.copied = t.copied
        BY <2>1 DEF Rebalance
      <4>2. t.copied = {}
        BY <2>2 DEF CopiesHeld, RebalanceRead
      <4>3. rebalances' = (rebalances \ {t}) \cup {y}
        BY <2>2, <3>2 DEF RebalanceRead, Replace
      <4> HIDE DEF y
      <4>4. Follows(y)
        BY <4>1, <4>2 DEF Follows
      <4> QED
        BY <1>2, <4>3, <4>4
    <3> QED
      BY <3>1, <3>2
  <2>3. CASE RebalanceStart(t)
    <3> DEFINE R == GetN(ring[t.at], replicas)
               y == [t EXCEPT !.pc = "push", !.to = R, !.left = R \ {t.at}]
    <3>1. /\ y.pc = "push" /\ y.copied = t.copied /\ y.to = R /\ y.left = R \ {t.at}
          /\ y.at = t.at /\ y.value = t.value
      BY <2>1 DEF Rebalance
    <3>2. t.copied = {}
      BY <2>3 DEF CopiesHeld, RebalanceStart
    <3>3. rebalances' = (rebalances \ {t}) \cup {y} /\ crossed' = crossed \cup Crosses(t, R)
      BY <2>3 DEF RebalanceStart, Replace
    <3>4. R \in SUBSET Node
      BY GetNNodes
    <3> HIDE DEF y, R
    <3>5. Begins(y, t, R)
      BY <3>1, <3>2, <3>3 DEF Begins
    <3>6. Follows(y)
      BY <3>4, <3>5 DEF Follows
    <3> QED
      BY <1>2, <3>3, <3>6
  <2>4. ASSUME NEW p \in Node, RebalancePush(t, p)
        PROVE  \A z \in rebalances' : Follows(z)
    <3> DEFINE y == [t EXCEPT !.left = @ \ {p}, !.copied = @ \cup {p}]
    <3>1. /\ y.pc = t.pc /\ y.to = t.to /\ y.value = t.value /\ y.at = t.at
          /\ y.copied = t.copied \cup {p} /\ y.left = t.left \ {p}
      BY <2>1 DEF Rebalance
    <3>2. t.pc = "push" /\ p \in t.left
      BY <2>4 DEF RebalancePush
    <3>3. store'[p] >= t.value
      <4>1. store[p] \in Nat /\ store \in [Node -> Value]
        BY ValueType DEF TypeOK
      <4>2. store'[p] = IF t.value > store[p] THEN t.value ELSE store[p]
        BY <2>4, <4>1 DEF RebalancePush, SetStore
      <4> QED
        BY <2>1, <4>1, <4>2
    <3>4. rebalances' = (rebalances \ {t}) \cup {y}
      BY <2>4 DEF RebalancePush, Replace
    <3> HIDE DEF y
    <3>5. Follows(y)
      BY <3>1, <3>2, <3>3 DEF Follows, Alike, Confirms
    <3> QED
      BY <1>2, <3>4, <3>5
  <2>5. ASSUME NEW p \in Node, RebalancePushFails(t, p)
        PROVE  \A z \in rebalances' : Follows(z)
    <3> DEFINE y == [t EXCEPT !.left = @ \ {p}]
    <3>1. /\ y.pc = t.pc /\ y.to = t.to /\ y.value = t.value /\ y.at = t.at
          /\ y.copied = t.copied /\ y.left = t.left \ {p}
      BY <2>1 DEF Rebalance
    <3>2. rebalances' = (rebalances \ {t}) \cup {y}
      BY <2>5 DEF RebalancePushFails, Replace
    <3> HIDE DEF y
    <3>3. Follows(y)
      BY <3>1 DEF Follows, Alike
    <3> QED
      BY <1>2, <3>2, <3>3
  <2>6. CASE RebalanceEnd(t)
    BY <1>3, <2>6 DEF RebalanceEnd, EndRebalance
  <2>7. CASE RebalanceLost(t)
    <3> DEFINE y == [t EXCEPT !.live = FALSE]
    <3>1. /\ y.pc = t.pc /\ y.to = t.to /\ y.value = t.value /\ y.at = t.at
          /\ y.copied = t.copied /\ y.left = t.left
      BY <2>1 DEF Rebalance
    <3>2. rebalances' \subseteq (rebalances \ {t}) \cup {y}
      BY <2>7 DEF RebalanceLost, Replace
    <3> HIDE DEF y
    <3>3. Follows(y)
      BY <3>1 DEF Follows, Alike
    <3> QED
      BY <1>2, <3>2, <3>3
  <2> QED
    BY <1>5, <2>2, <2>3, <2>4, <2>5, <2>6, <2>7 DEF RebalanceStep
<1>6. ASSUME NEW n \in Node, Restart(n)
      PROVE  \A z \in rebalances' : Follows(z)
  <2> SUFFICES ASSUME NEW x \in rebalances
               PROVE  Follows(Without(n, x))
    BY <1>6 DEF Restart
  <2>1. x \in Rebalance
    BY CallTypes
  <2> DEFINE y == Without(n, x)
  <2>2. /\ y.pc = x.pc /\ y.to = x.to /\ y.value = x.value /\ y.at = x.at
        /\ y.copied = x.copied /\ y.left = x.left
    BY <2>1 DEF Without, Rebalance
  <2> HIDE DEF y
  <2>3. Follows(y)
    BY <2>2 DEF Follows, Alike
  <2> QED
    BY <2>3 DEF y
<1>7. ASSUME NEW s \in syncs, SyncStep(s)
      PROVE  \A z \in rebalances' : Follows(z)
  BY <1>3, <1>7 DEF SyncStep, SyncStart, SyncRemove, SyncAdd, SyncEnd, SyncLost
<1>8. ASSUME NEW d \in drains, DrainStep(d)
      PROVE  \A z \in rebalances' : Follows(z)
  BY <1>3, <1>8 DEF DrainStep, DrainStart, DrainEnd, DrainFails, DrainPush
<1>9. ASSUME NEW v \in Version, WriteStep(v)
      PROVE  \A z \in rebalances' : Follows(z)
  BY <1>3, <1>9 DEF WriteStep, StartWrite, PutReply, PutError, LateDelivery, FinishWrite, calls
<1>10. ASSUME NEW n \in Node, NEW r \in Node, FlushHint(n, r)
       PROVE  \A z \in rebalances' : Follows(z)
  BY <1>3, <1>10 DEF FlushHint, calls
<1> QED
  BY <1>4, <1>5, <1>6, <1>7, <1>8, <1>9, <1>10 DEF Next

\* What a step may do to the values: one node is offered one, or a rebalance cleans up.
LEMMA StoreChanges ==
    ASSUME TypeOK, Next
    PROVE  \/ UNCHANGED store
           \/ \E n \in Node, v \in Value : SetStore(n, v)
           \/ \E t \in rebalances : RebalanceEnd(t)
<1> USE DEF data
<1>1. ASSUME NEW c \in Node, ChangeStep(c)
      PROVE  UNCHANGED store
  BY <1>1 DEF ChangeStep, AddMember, RemoveMember, CallSync, RebalancePhase, CallRebalance,
              ChangeDone, UndoDone, CallBroken
<1>2. ASSUME NEW s \in syncs, SyncStep(s)
      PROVE  UNCHANGED store
  BY <1>2 DEF SyncStep, SyncStart, SyncRemove, SyncAdd, SyncEnd, SyncLost
<1>3. ASSUME NEW t \in rebalances, RebalanceStep(t)
      PROVE  \/ UNCHANGED store \/ RebalanceEnd(t)
             \/ \E n \in Node, v \in Value : SetStore(n, v)
  <2>1. t.value \in Value
    BY CallTypes, RebalanceFields
  <2> QED
    BY <1>3, <2>1 DEF RebalanceStep, RebalanceRead, RebalanceStart, RebalanceLost,
                      RebalancePush, RebalancePushFails
<1>4. ASSUME NEW d \in drains, DrainStep(d)
      PROVE  UNCHANGED store \/ \E n \in Node, v \in Value : SetStore(n, v)
  <2>1. d.value \in Value
    BY CallTypes, DrainFields
  <2> QED
    BY <1>4, <2>1 DEF DrainStep, DrainStart, DrainEnd, DrainFails, DrainPush
<1>5. ASSUME NEW v \in Version, WriteStep(v)
      PROVE  UNCHANGED store \/ \E n \in Node, x \in Value : SetStore(n, x)
  BY <1>5, ValueType DEF WriteStep, StartWrite, PutReply, PutError, LateDelivery, FinishWrite
<1>6. ASSUME NEW n \in Node, NEW r \in Node, FlushHint(n, r)
      PROVE  \E m \in Node, x \in Value : SetStore(m, x)
  <2>1. hints[n][r] \in Value
    BY DEF TypeOK
  <2> QED
    BY <1>6, <2>1 DEF FlushHint
<1>7. ASSUME NEW n \in Node, Restart(n)
      PROVE  UNCHANGED store
  BY <1>7 DEF Restart
<1> QED
  BY <1>1, <1>2, <1>3, <1>4, <1>5, <1>6, <1>7 DEF Next

\* A value stays, unless a rebalance removes it that has moved it to other nodes.
LEMMA ValuesStay ==
    ASSUME TypeOK, CopiesHeld, Next, NEW v \in Version, NEW n \in Node, store[n] >= v
    PROVE  \/ store'[n] >= v
           \/ \E t \in rebalances : /\ t.at = n /\ Moves(t, v)
                                    /\ n \notin t.to /\ t.to = t.copied
<1>1. v \in Nat /\ store[n] \in Nat /\ store \in [Node -> Value]
  BY ValueType DEF TypeOK
<1>2. CASE UNCHANGED store
  BY <1>2
<1>3. ASSUME NEW m \in Node, NEW x \in Value, SetStore(m, x)
      PROVE  store'[n] >= v
  <2>1. x \in Nat
    BY ValueType
  <2>2. store'[n] = IF n = m THEN (IF x > store[n] THEN x ELSE store[n]) ELSE store[n]
    BY <1>1, <1>3 DEF SetStore
  <2> QED
    BY <1>1, <2>1, <2>2
<1>4. ASSUME NEW t \in rebalances, RebalanceEnd(t)
      PROVE  \/ store'[n] >= v
             \/ t.at = n /\ Moves(t, v) /\ n \notin t.to /\ t.to = t.copied
  <2>1. store'[n] = IF n = t.at /\ t.at \notin t.to /\ t.to = t.copied /\ store[n] = t.value
                    THEN 0 ELSE store[n]
    BY <1>1, <1>4 DEF RebalanceEnd, CleanUp
  <2>2. t.pc = "push"
    BY <1>4 DEF RebalanceEnd
  <2> QED
    BY <1>1, <2>1, <2>2 DEF Moves
<1> QED
  BY <1>2, <1>3, <1>4, StoreChanges

\* A value that was pushed stays where it was pushed to.
LEMMA CopyStays ==
    ASSUME TypeOK, PlacesAgree, CopiesHeld, Next,
           NEW v \in Version \ crossed, NEW t \in rebalances, Moves(t, v), NEW p \in t.copied
    PROVE  store'[p] >= v
<1>1. p \in t.to /\ p # t.at /\ p \in Node /\ store[p] >= v
  BY CallTypes, RebalanceFields DEF CopiesHeld, Moves
<1>2. ASSUME NEW x \in rebalances, x.at = p, Moves(x, v), p \notin x.to
      PROVE  FALSE
  <2>1. x.to = t.to
    BY <1>1, <1>2 DEF PlacesAgree
  <2> QED
    BY <1>1, <1>2, <2>1
<1> QED
  BY <1>1, <1>2, ValuesStay

\* What some node holds, some node goes on holding.
LEMMA HeldStays ==
    ASSUME TypeOK, PlacesAgree, CopiesHeld, Next, NEW v \in Version \ crossed, Held(v)
    PROVE  Held(v)'
<1>1. PICK n \in Node : store[n] >= v
  BY DEF Held
<1>2. CASE store'[n] >= v
  BY <1>2 DEF Held
<1>3. ASSUME NEW t \in rebalances, Moves(t, v), t.to = t.copied
      PROVE  Held(v)'
  <2>1. PICK p \in t.copied : TRUE
    BY <1>3 DEF CopiesHeld
  <2>2. p \in Node
    BY CallTypes, RebalanceFields
  <2> QED
    BY <1>3, <2>2, CopyStays DEF Held
<1> QED
  BY <1>1, <1>2, <1>3, ValuesStay

\* A rebalance that begins to push is compared with every other.
LEMMA PlacesAgreeStep ==
    ASSUME TypeOK, PlacesAgree, CopiesHeld, Next
    PROVE  PlacesAgree'
<1> SUFFICES ASSUME NEW v \in Version \ crossed', NEW y \in rebalances', NEW z \in rebalances',
                    Moves(y, v), Moves(z, v), y.at # z.at
             PROVE  y.to = z.to
  BY DEF PlacesAgree, Moves
<1>1. v \in Version \ crossed
  BY CrossedGrows
<1>2. Follows(y) /\ Follows(z)
  BY RebalancesFollow
<1>3. ASSUME NEW t \in rebalances, NEW R \in SUBSET Node, NEW b, Begins(b, t, R), Moves(b, v),
             NEW x \in rebalances', Moves(x, v), b.at # x.at
      PROVE  b.to = x.to
  <2>1. x \in rebalances
    BY <1>3 DEF Begins
  <2>2. v \notin Crosses(t, R)
    BY <1>3 DEF Begins
  <2>3. x.to = R
    BY <1>3, <2>1, <2>2 DEF Crosses, Begins, Moves
  <2> QED
    BY <1>3, <2>3 DEF Begins
<1>4. ASSUME NEW t \in rebalances, NEW x \in rebalances, Alike(y, t), Alike(z, x)
      PROVE  y.to = z.to
  <2>1. Moves(t, v) /\ Moves(x, v) /\ t.at # x.at
    BY <1>4 DEF Alike, Moves
  <2> QED
    BY <1>1, <1>4, <2>1 DEF PlacesAgree, Alike
<1> QED
  BY <1>2, <1>3, <1>4 DEF Follows, Moves

LEMMA CopiesHeldStep ==
    ASSUME TypeOK, PlacesAgree, CopiesHeld, Next
    PROVE  CopiesHeld'
<1> SUFFICES ASSUME NEW y \in rebalances'
             PROVE  /\ y.pc # "push" => y.copied = {}
                    /\ y.pc = "push" => y.left \cup y.copied \subseteq y.to \ {y.at}
                    /\ \A v \in Version \ crossed' : Moves(y, v) =>
                          y.to # {} /\ \A p \in y.copied : store'[p] >= v
  BY DEF CopiesHeld, Moves
<1>1. CASE y.pc # "push" /\ y.copied = {}
  BY <1>1 DEF Moves
<1>2. ASSUME NEW t \in rebalances, NEW R \in SUBSET Node, Begins(y, t, R)
      PROVE  /\ y.pc = "push" /\ y.copied = {} /\ y.left \subseteq y.to \ {y.at}
             /\ \A v \in Version \ crossed' : Moves(y, v) => y.to # {}
  BY <1>2 DEF Begins, Crosses, Moves
<1>3. ASSUME NEW t \in rebalances, Alike(y, t), y.left \subseteq t.left, y.copied = t.copied
      PROVE  /\ y.pc # "push" => y.copied = {}
             /\ y.pc = "push" => y.left \cup y.copied \subseteq y.to \ {y.at}
             /\ \A v \in Version \ crossed' : Moves(y, v) =>
                   y.to # {} /\ \A p \in y.copied : store'[p] >= v
  <2>1. ASSUME NEW v \in Version \ crossed', Moves(y, v)
        PROVE  y.to # {} /\ \A p \in y.copied : store'[p] >= v
    <3>1. v \in Version \ crossed /\ Moves(t, v)
      BY <1>3, <2>1, CrossedGrows DEF Alike, Moves
    <3> QED
      BY <1>3, <3>1, CopyStays DEF CopiesHeld, Alike
  <2> QED
    BY <1>3, <2>1 DEF CopiesHeld, Alike
<1>4. ASSUME NEW t \in rebalances, Alike(y, t), NEW p \in Node, Confirms(y, t, p)
      PROVE  /\ y.pc = "push" /\ y.left \cup y.copied \subseteq y.to \ {y.at}
             /\ \A v \in Version \ crossed' : Moves(y, v) =>
                   y.to # {} /\ \A q \in y.copied : store'[q] >= v
  <2>1. ASSUME NEW v \in Version \ crossed', Moves(y, v)
        PROVE  y.to # {} /\ \A q \in y.copied : store'[q] >= v
    <3>1. v \in Version \ crossed /\ Moves(t, v)
      BY <1>4, <2>1, CrossedGrows DEF Alike, Moves
    <3>2. v \in Nat /\ t.value \in Nat /\ store'[p] \in Nat
      BY CallTypes, RebalanceFields, ValueType, NextType DEF TypeOK
    <3>3. store'[p] >= v
      BY <1>4, <3>1, <3>2 DEF Confirms, Moves
    <3>4. y.to # {}
      BY <1>4, <3>1 DEF CopiesHeld, Alike
    <3> QED
      BY <1>4, <3>1, <3>3, <3>4, CopyStays DEF Confirms
  <2> QED
    BY <1>4, <2>1 DEF CopiesHeld, Alike, Confirms
<1> QED
  BY <1>1, <1>2, <1>3, <1>4, RebalancesFollow DEF Follows

LEMMA WritesHeldStep ==
    ASSUME TypeOK, PlacesAgree, CopiesHeld, WritesHeld, Next
    PROVE  WritesHeld'
<1> SUFFICES ASSUME NEW v \in Version
             PROVE  /\ v \notin crossed' /\ write'[v].acks # {} => Held(v)'
                    /\ write'[v].pc = "ok" => write'[v].acks # {}
  BY DEF WritesHeld, Held
<1>1. /\ v \notin crossed' /\ write[v].acks # {} => Held(v)'
      /\ write[v].pc = "ok" => write[v].acks # {}
  BY HeldStays, CrossedGrows DEF WritesHeld
<1>2. write \in [Version -> Write] /\ write[v] \in Write
  BY DEF TypeOK
<1>3. CASE UNCHANGED write
  BY <1>1, <1>3
<1>4. ASSUME NEW x \in Version, WriteStep(x)
      PROVE  /\ v \notin crossed' /\ write'[v].acks # {} => Held(v)'
             /\ write'[v].pc = "ok" => write'[v].acks # {}
  <2>1. CASE x # v
    BY <1>1, <1>2, <1>4, <2>1 DEF WriteStep, StartWrite, PutReply, PutError, LateDelivery,
                                  FinishWrite
  <2>2. ASSUME NEW n \in Node, StartWrite(n, v)
        PROVE  write'[v].acks = {} /\ write'[v].pc = "wait"
    BY <1>2, <2>2 DEF StartWrite
  <2>3. ASSUME NEW n \in Node, PutReply(v, n)
        PROVE  Held(v)' /\ write'[v].pc = "wait"
    <3>1. v \in Nat /\ store[n] \in Nat /\ store \in [Node -> Value]
      BY ValueType DEF TypeOK
    <3>2. store'[n] = IF v > store[n] THEN v ELSE store[n]
      BY <2>3, <3>1 DEF PutReply, SetStore
    <3>3. store'[n] >= v
      BY <3>1, <3>2
    <3> QED
      BY <1>2, <2>3, <3>3 DEF PutReply, Held
  <2>4. ASSUME NEW n \in Node, PutError(v, n)
        PROVE  write'[v].acks = write[v].acks /\ write'[v].pc = "wait"
    BY <1>2, <2>4 DEF PutError
  <2>5. CASE FinishWrite(v)
    <3>1. write'[v].acks = write[v].acks
      BY <1>2, <2>5 DEF FinishWrite
    <3>2. write'[v].pc = "ok" => Cardinality(write[v].acks) >= writeQuorum
      BY <1>2, <2>5 DEF FinishWrite
    <3>3. Cardinality({}) = 0
      BY FS_EmptySet
    <3>4. write'[v].pc = "ok" => write[v].acks # {}
      BY <3>2, <3>3, ValueAssumption
    <3> QED
      BY <1>1, <3>1, <3>4
  <2>6. ASSUME NEW n \in Node, LateDelivery(n, v)
        PROVE  UNCHANGED write
    BY <2>6 DEF LateDelivery
  <2> QED
    BY <1>1, <1>4, <2>1, <2>2, <2>3, <2>4, <2>5, <2>6 DEF WriteStep
<1>5. ASSUME NEW n \in Node, Restart(n)
      PROVE  /\ v \notin crossed' /\ write'[v].acks # {} => Held(v)'
             /\ write'[v].pc = "ok" => write'[v].acks # {}
  <2>1. write'[v].acks = write[v].acks /\ (write'[v].pc = write[v].pc \/ write'[v].pc = "failed")
    BY <1>5 DEF Restart
  <2> QED
    BY <1>1, <2>1
<1>6. ASSUME NEW c \in Node, ChangeStep(c)
      PROVE  UNCHANGED write
  BY <1>6 DEF ChangeStep, AddMember, RemoveMember, CallSync, RebalancePhase, CallRebalance,
              ChangeDone, UndoDone, CallBroken, data
<1>7. ASSUME NEW s \in syncs, SyncStep(s)
      PROVE  UNCHANGED write
  BY <1>7 DEF SyncStep, SyncStart, SyncRemove, SyncAdd, SyncEnd, SyncLost, data
<1>8. ASSUME NEW t \in rebalances, RebalanceStep(t)
      PROVE  UNCHANGED write
  BY <1>8 DEF RebalanceStep, RebalanceRead, RebalanceStart, RebalanceEnd, RebalanceLost,
              RebalancePush, RebalancePushFails, data
<1>9. ASSUME NEW d \in drains, DrainStep(d)
      PROVE  UNCHANGED write
  BY <1>9 DEF DrainStep, DrainStart, DrainEnd, DrainFails, DrainPush, data
<1>10. ASSUME NEW n \in Node, NEW r \in Node, FlushHint(n, r)
       PROVE  UNCHANGED write
  BY <1>10 DEF FlushHint
<1> QED
  BY <1>3, <1>4, <1>5, <1>6, <1>7, <1>8, <1>9, <1>10 DEF Next

LEMMA DataKeptInit ==
    ASSUME Init
    PROVE  DataKept
BY DEF Init, DataKept, PlacesAgree, CopiesHeld, WritesHeld

LEMMA DataKeptStep ==
    ASSUME TypeOK, DataKept, [Next]_vars
    PROVE  DataKept'
<1> USE DEF DataKept
<1>1. CASE Next
  BY <1>1, PlacesAgreeStep, CopiesHeldStep, WritesHeldStep
<1>2. CASE UNCHANGED vars
  BY <1>2 DEF vars, data, calls, counts, PlacesAgree, CopiesHeld, WritesHeld, Moves, Held
<1> QED
  BY <1>1, <1>2

\* A write that was acknowledged is held by some node, as it is or by something newer,
\* unless rebalances move it in opposite directions at the same time: whatever changes
\* succeed, fail and are undone, however many members are replaced, whichever calls go on
\* without their callers and whichever nodes restart (rebalance, DeleteIfMatch).
THEOREM AckedValuesHeld == Spec => []AckedHeld
<1>1. Init => DataKept
  BY DataKeptInit
<1>2. TypeOK /\ DataKept /\ [Next]_vars => DataKept'
  BY DataKeptStep
<1>3. DataKept => AckedHeld
  BY DEF DataKept, WritesHeld, AckedHeld, Held
<1> QED
  BY <1>1, <1>2, <1>3, MembershipTypeCorrect, PTL DEF Spec

-----------------------------------------------------------------------------
(* What a ring gives a key *)

\* A walk meets nodes only, and finitely many.
LEMMA MetNodes ==
    ASSUME NEW r \in Ring, NEW x \in Node, NEW p \in Position
    PROVE  MetBefore(r, x, p) \subseteq Node /\ IsFiniteSet(MetBefore(r, x, p))
<1>1. MetBefore(r, x, p) \subseteq Node
  BY DEF MetBefore, Nearer, Ring
<1> QED
  BY <1>1, RingAssumption, FS_Subset

\* Who is met earlier by fewer others is found as early.
LEMMA MetFewer ==
    ASSUME NEW r \in Ring, NEW q \in Ring, NEW x \in Node, NEW k \in Nat, NEW p \in Position,
           q.owner[p] = x, MetBefore(q, x, p) \subseteq MetBefore(r, x, p),
           Cardinality(MetBefore(r, x, p)) < k
    PROVE  x \in GetN(q, k)
<1>1. IsFiniteSet(MetBefore(r, x, p)) /\ IsFiniteSet(MetBefore(q, x, p))
  BY MetNodes
<1>2. /\ Cardinality(MetBefore(q, x, p)) <= Cardinality(MetBefore(r, x, p))
      /\ Cardinality(MetBefore(q, x, p)) \in Nat
      /\ Cardinality(MetBefore(r, x, p)) \in Nat
  BY <1>1, FS_Subset, FS_CardinalityType
<1>3. Cardinality(MetBefore(q, x, p)) < k
  BY <1>2
<1> QED
  BY <1>3 DEF GetN

\* Consistent hashing: a member that is added takes keys over, and moves none between the
\* others (Add, GetN).
THEOREM AddMovesToNew ==
    ASSUME NoCollision, NEW r, Exact(r), NEW m \in Node, NEW k \in Nat
    PROVE  GetN(AddTo(r, m), k) \subseteq GetN(r, k) \cup {m}
<1> DEFINE q == AddTo(r, m)
<1>1. r \in Ring /\ q \in Ring
  BY AddToType DEF Exact
<1>2. SUFFICES ASSUME m \notin r.members, NEW x \in GetN(q, k), x # m
               PROVE  x \in GetN(r, k)
  BY DEF AddTo
<1>3. \A p \in Position : q.owner[p] = IF p \in points[m] THEN m ELSE r.owner[p]
  BY <1>2 DEF AddTo
<1> HIDE DEF q
<1>4. PICK p \in Position : q.owner[p] = x /\ Cardinality(MetBefore(q, x, p)) < k
  BY <1>2 DEF GetN
<1>5. x \in Node
  BY <1>2 DEF GetN
<1>6. r.owner[p] = x
  BY <1>2, <1>3, <1>4
<1>7. MetBefore(r, x, p) \subseteq MetBefore(q, x, p)
  <2>1. ASSUME NEW y \in MetBefore(r, x, p)
        PROVE  y \in MetBefore(q, x, p)
    <3>1. PICK i \in Position : Clockwise(i) < Clockwise(p) /\ r.owner[i] = y
      BY <2>1 DEF MetBefore, Nearer
    <3>2. y \in Node /\ y # x /\ y # Nil
      <4>1. y \in Node
        BY <1>1, <1>5, <2>1, MetNodes
      <4> QED
        BY <2>1, <4>1 DEF MetBefore, Nearer
    <3>3. i \in points[y] /\ y \in r.members
      BY <3>1, <3>2 DEF Exact
    <3>4. i \notin points[m]
      BY <1>2, <3>2, <3>3 DEF NoCollision
    <3>5. q.owner[i] = y
      BY <1>3, <3>1, <3>4
    <3> QED
      BY <3>1, <3>2, <3>5 DEF MetBefore, Nearer
  <2> QED
    BY <2>1
<1> QED
  BY <1>1, <1>4, <1>5, <1>6, <1>7, MetFewer

\* When a member is removed, the others keep what they have (Remove, GetN).
THEOREM RemoveKeepsOthers ==
    ASSUME NoCollision, NEW r, Exact(r), NEW m \in Node, NEW k \in Nat
    PROVE  GetN(r, k) \subseteq GetN(RemoveFrom(r, m), k) \cup {m}
<1> DEFINE q == RemoveFrom(r, m)
<1>1. r \in Ring /\ q \in Ring
  BY RemoveFromType DEF Exact
<1>2. SUFFICES ASSUME m \in r.members, NEW x \in GetN(r, k), x # m
               PROVE  x \in GetN(q, k)
  BY DEF RemoveFrom
<1>3. \A p \in Position : q.owner[p] = IF p \in points[m] THEN Nil ELSE r.owner[p]
  BY <1>2 DEF RemoveFrom
<1> HIDE DEF q
<1>4. PICK p \in Position : r.owner[p] = x /\ Cardinality(MetBefore(r, x, p)) < k
  BY <1>2 DEF GetN
<1>5. x \in Node
  BY <1>2 DEF GetN
<1>6. q.owner[p] = x
  <2>1. p \in points[x]
    BY <1>4, <1>5 DEF Exact
  <2>2. p \notin points[m]
    BY <1>2, <1>5, <2>1 DEF NoCollision
  <2> QED
    BY <1>3, <1>4, <2>2
<1>7. MetBefore(q, x, p) \subseteq MetBefore(r, x, p)
  <2>1. ASSUME NEW y \in MetBefore(q, x, p)
        PROVE  y \in MetBefore(r, x, p)
    <3>1. PICK i \in Position : Clockwise(i) < Clockwise(p) /\ q.owner[i] = y
      BY <2>1 DEF MetBefore, Nearer
    <3>2. y # x /\ y # Nil
      BY <2>1 DEF MetBefore, Nearer
    <3>3. r.owner[i] = y
      BY <1>3, <3>1, <3>2
    <3> QED
      BY <3>1, <3>2, <3>3 DEF MetBefore, Nearer
  <2> QED
    BY <2>1
<1> QED
  BY <1>1, <1>4, <1>5, <1>6, <1>7, MetFewer

\* GetN finds as many different members as it is asked for, or all of them (GetN).
THEOREM ReplicaCount ==
    ASSUME NEW r, Exact(r), NEW k \in Nat
    PROVE  Cardinality(GetN(r, k)) =
             IF k <= Cardinality(r.members) THEN k ELSE Cardinality(r.members)
<1> DEFINE M == r.members
           Reach(m) == {Clockwise(p) : p \in points[m]}
           Least(m, d) == d \in Reach(m) /\ \A e \in Reach(m) : d <= e
           f == [m \in M |-> CHOOSE d : Least(m, d)]
<1>1. /\ M \subseteq Node
      /\ IsFiniteSet(M)
      /\ r.owner \in [Position -> Node \cup {Nil}]
  <2>1. M \subseteq Node /\ r.owner \in [Position -> Node \cup {Nil}]
    BY DEF Exact, Ring
  <2> QED
    BY <2>1, RingAssumption, FS_Subset
<1>2. ASSUME NEW m \in M
      PROVE  \E d : Least(m, d)
  <2>1. points[m] \subseteq Position /\ points[m] # {}
    BY <1>1, RingAssumption
  <2>2. Reach(m) \subseteq Nat /\ Reach(m) # {}
    BY <2>1, ClockwiseNat
  <2> HIDE DEF Reach
  <2>3. PICK d \in Reach(m) : \A e \in Reach(m) : d <= e
    BY <2>2, LeastNatural
  <2> QED
    BY <2>3
<1>3. \A m \in M : Least(m, f[m])
  <2> HIDE DEF Least
  <2> QED
    BY <1>2
<1> HIDE DEF f
<1>4. ASSUME NEW m \in M
      PROVE  /\ \E p \in points[m] : p \in Position /\ Clockwise(p) = f[m]
             /\ f[m] \in Nat
             /\ \A p \in points[m] : f[m] <= Clockwise(p)
  <2>1. Least(m, f[m])
    BY <1>3
  <2>2. PICK p \in points[m] : Clockwise(p) = f[m]
    BY <2>1
  <2>3. p \in Position
    BY <1>1, <2>2, RingAssumption
  <2> QED
    BY <2>1, <2>2, <2>3, ClockwiseNat
<1>5. f \in [M -> Nat]
  <2>1. f = [m \in M |-> f[m]]
    BY DEF f
  <2> QED
    BY <1>4, <2>1
<1> HIDE DEF Least, Reach
<1>6. \A m, n \in M : f[m] = f[n] => m = n
  <2> SUFFICES ASSUME NEW m \in M, NEW n \in M, f[m] = f[n]
               PROVE  m = n
    OBVIOUS
  <2>1. PICK p \in points[m] : p \in Position /\ Clockwise(p) = f[m]
    BY <1>4
  <2>2. PICK q \in points[n] : q \in Position /\ Clockwise(q) = f[n]
    BY <1>4
  <2>3. p = q
    BY <2>1, <2>2, RingAssumption DEF Clockwise, Position
  <2>4. r.owner[p] = m /\ r.owner[p] = n
    BY <1>1, <2>1, <2>2, <2>3 DEF Exact
  <2> QED
    BY <2>4
<1> DEFINE Before(x) == {y \in M : f[y] < f[x]}
<1>7. ASSUME NEW x \in M, NEW p \in Position, r.owner[p] = x
      PROVE  Before(x) \subseteq MetBefore(r, x, p)
  <2> SUFFICES ASSUME NEW y \in M, f[y] < f[x]
               PROVE  y \in MetBefore(r, x, p)
    OBVIOUS
  <2>1. p \in points[x]
    BY <1>1, <1>7 DEF Exact
  <2>2. f[x] <= Clockwise(p) /\ f[x] \in Nat /\ f[y] \in Nat /\ Clockwise(p) \in Nat
    BY <1>4, <2>1, ClockwiseNat
  <2>3. PICK q \in points[y] : q \in Position /\ Clockwise(q) = f[y]
    BY <1>4
  <2>4. r.owner[q] = y /\ y # x /\ y # Nil
    BY <1>1, <2>2, <2>3, RingAssumption DEF Exact
  <2>5. Clockwise(q) < Clockwise(p)
    BY <2>2, <2>3
  <2> QED
    BY <2>3, <2>4, <2>5 DEF MetBefore, Nearer
<1>8. ASSUME NEW x \in M, NEW p \in Position, Clockwise(p) = f[x]
      PROVE  MetBefore(r, x, p) \subseteq Before(x)
  <2> SUFFICES ASSUME NEW y \in MetBefore(r, x, p)
               PROVE  y \in M /\ f[y] < f[x]
    OBVIOUS
  <2>1. PICK q \in Position : Clockwise(q) < Clockwise(p) /\ r.owner[q] = y
    BY DEF MetBefore, Nearer
  <2>2. y \in Node
    BY <1>1, MetNodes DEF Exact
  <2>3. y \in M /\ q \in points[y]
    BY <2>1, <2>2 DEF Exact
  <2>4. f[y] <= Clockwise(q) /\ f[y] \in Nat /\ f[x] \in Nat /\ Clockwise(q) \in Nat
    BY <1>4, <2>3, ClockwiseNat
  <2> QED
    BY <1>8, <2>1, <2>3, <2>4
<1>9. ASSUME NEW x \in M
      PROVE  /\ IsFiniteSet(Before(x))
             /\ Cardinality(Before(x)) \in Nat
             /\ x \in GetN(r, k) <=> Cardinality(Before(x)) < k
  <2>1. IsFiniteSet(Before(x)) /\ Cardinality(Before(x)) \in Nat
    BY <1>1, FS_Subset, FS_CardinalityType
  <2>2. PICK q \in points[x] : q \in Position /\ Clockwise(q) = f[x]
    BY <1>4
  <2>3. r.owner[q] = x
    BY <1>1, <2>2 DEF Exact
  <2>4. MetBefore(r, x, q) = Before(x)
    BY <1>7, <1>8, <2>2, <2>3
  <2> HIDE DEF Before
  <2>5. ASSUME Cardinality(Before(x)) < k
        PROVE  x \in GetN(r, k)
    BY <1>1, <2>2, <2>3, <2>4, <2>5 DEF GetN
  <2>6. ASSUME x \in GetN(r, k)
        PROVE  Cardinality(Before(x)) < k
    <3>1. PICK p \in Position : r.owner[p] = x /\ Cardinality(MetBefore(r, x, p)) < k
      BY <2>6 DEF GetN
    <3>2. IsFiniteSet(MetBefore(r, x, p)) /\ Before(x) \subseteq MetBefore(r, x, p)
      BY <1>1, <1>7, <3>1, MetNodes DEF Exact
    <3>3. /\ Cardinality(Before(x)) <= Cardinality(MetBefore(r, x, p))
          /\ Cardinality(MetBefore(r, x, p)) \in Nat
      BY <3>2, FS_Subset, FS_CardinalityType
    <3> QED
      BY <2>1, <3>1, <3>3
  <2> QED
    BY <2>1, <2>5, <2>6
<1>10. GetN(r, k) = {x \in M : Cardinality(Before(x)) < k}
  <2>1. \A x \in GetN(r, k) : x \in M
    BY <1>1 DEF GetN, Exact
  <2> HIDE DEF Before
  <2> QED
    BY <1>9, <2>1
<1>11. Cardinality({x \in M : Cardinality(Before(x)) < k}) =
         IF k <= Cardinality(M) THEN k ELSE Cardinality(M)
  <2>1. IsFiniteSet(M) /\ f \in [M -> Nat] /\ \A m, n \in M : f[m] = f[n] => m = n
    BY <1>1, <1>5, <1>6
  <2> HIDE DEF M
  <2> QED
    BY <2>1, FirstCount, Zenon
<1> QED
  BY <1>10, <1>11

-----------------------------------------------------------------------------
(* Changes that succeed are in effect *)

\* Only c coordinates, and all calls are its own.
Callers(c) ==
    /\ \A n \in Node \ {c} : op[n] = NoChange
    /\ \A s \in syncs : s.by = c
    /\ \A t \in rebalances : t.by = c
    /\ \A d \in drains : d.by = c

\* It is a member of every configuration that can reach it.
StaysIn(c) ==
    /\ c \in ring[c].members
    /\ op[c].pc # "idle" => c \in op[c].prev /\ c \in op[c].next
    /\ \A s \in syncs : c \in s.members
    /\ \A d \in drains : c \in d.future

\* What a handler has still to do leads to the configuration it was sent, and no other
\* handler is at work at that node.
Applying ==
    \A s \in syncs :
        /\ s.come \subseteq s.members
        /\ s.gone \cap s.members = {}
        /\ s.pc = "sent" => s.come = s.members
        /\ s.pc = "apply" =>
             /\ ring[s.to].members \subseteq s.members \cup s.gone
             /\ s.members \subseteq ring[s.to].members \cup s.come
             /\ \A x \in syncs : x.pc = "apply" /\ x.to = s.to => x = s

\* c waits for one call at a time, and only for calls of its present change.
Waiting(c) ==
    /\ \A s, x \in syncs : s.live /\ x.live => s = x
    /\ \A t, x \in rebalances : t.live /\ x.live => t = x
    /\ \A d, x \in drains : d = x
    /\ \A s \in syncs : s.live =>
         /\ op[c].busy
         /\ op[c].pc \in {"sync", "undo"}
         /\ s.version = op[c].version
         /\ s.members = IF op[c].pc = "sync" THEN op[c].next ELSE op[c].prev
    /\ \A t \in rebalances : t.live => op[c].busy /\ op[c].pc = "rebalance"
    /\ \A d \in drains : op[c].busy /\ op[c].pc = "drain"
    /\ op[c].pc \in {"idle", "done"} => ~op[c].busy
    /\ op[c].busy => \/ \E s \in syncs : s.live
                     \/ \E t \in rebalances : t.live
                     \/ drains # {}

\* The highest version that was given to a configuration.
Top(c) == IF op[c].pc \in {"sync", "rebalance", "undo"} THEN op[c].version ELSE config[c]

\* No node has, and no message carries, a version above it.
NoneNewer(c) ==
    /\ \A n \in Node : config[n] <= Top(c)
    /\ \A s \in syncs : s.version <= Top(c)

\* In the first phase, the targets are those still to be called, the one being called
\* and those that have applied the change.  All others would accept its version.
Targets(c) ==
    op[c].pc = "sync" =>
        /\ \A n \in Node \ op[c].applied : config[n] < op[c].version
        /\ \A s \in syncs : s.live \/ s.version < op[c].version
        /\ op[c].left \cup op[c].applied \subseteq op[c].next
        /\ op[c].left \cap op[c].applied = {}
        /\ \A s \in syncs : s.live => s.to \in op[c].next \ (op[c].left \cup op[c].applied)
        /\ \A n \in op[c].next \ (op[c].left \cup op[c].applied) :
             \E s \in syncs : s.live /\ s.to = n

\* A target that has applied the change keeps it.
InEffect(c) ==
    /\ op[c].pc \in {"rebalance", "done"} => op[c].applied = op[c].next
    /\ op[c].pc = "done" => config[c] = op[c].version
    /\ op[c].pc \in {"sync", "rebalance", "done"} =>
         \A t \in op[c].applied :
             /\ config[t] = op[c].version
             /\ ring[t].members = op[c].next
             /\ \A s \in syncs : s.pc = "apply" => s.to # t

\* A compensation stores its version at c, which the next change counts on from.
UndoReaches(c) ==
    op[c].pc = "undo" /\ c \in op[c].applied =>
        \/ c \in op[c].left
        \/ \E s \in syncs : s.live /\ s.to = c
        \/ config[c] = op[c].version

\* Where the versions are.
Issued(c) == NoneNewer(c) /\ Targets(c) /\ InEffect(c) /\ UndoReaches(c)

\* The invariant.
Orderly(c) == Callers(c) /\ StaysIn(c) /\ Applying /\ Waiting(c) /\ Issued(c)

\* A node that was disturbed stays so.
LEMMA DisturbedGrows ==
    ASSUME TypeOK, Next, disturbed' = {}
    PROVE  /\ disturbed = {}
           /\ \A n \in Node : ~Restart(n)
<1>1. disturbed \subseteq disturbed'
  <2>1. ASSUME NEW c \in Node, ChangeStep(c)
        PROVE  disturbed \subseteq disturbed'
    BY <2>1 DEF ChangeStep, AddMember, RemoveMember, CallSync, RebalancePhase, CallRebalance,
                ChangeDone, UndoDone, CallBroken, CanChange, Request, counts
  <2>2. ASSUME NEW s \in syncs, SyncStep(s)
        PROVE  disturbed \subseteq disturbed'
    BY <2>2 DEF SyncStep, SyncStart, SyncRemove, SyncAdd, SyncEnd, SyncLost, counts
  <2>3. ASSUME NEW t \in rebalances, RebalanceStep(t)
        PROVE  disturbed \subseteq disturbed'
    BY <2>3 DEF RebalanceStep, RebalanceRead, RebalanceStart, RebalanceEnd, RebalanceLost,
                RebalancePush, RebalancePushFails, Fault, counts
  <2>4. ASSUME NEW d \in drains, DrainStep(d)
        PROVE  disturbed \subseteq disturbed'
    BY <2>4 DEF DrainStep, DrainStart, DrainEnd, DrainFails, DrainPush, Fault, counts
  <2>5. ASSUME NEW v \in Version, WriteStep(v)
        PROVE  disturbed \subseteq disturbed'
    BY <2>5 DEF WriteStep, StartWrite, PutReply, PutError, LateDelivery, FinishWrite,
                Request, Fault, counts
  <2>6. ASSUME NEW n \in Node, NEW r \in Node, FlushHint(n, r)
        PROVE  disturbed \subseteq disturbed'
    BY <2>6 DEF FlushHint, counts
  <2>7. ASSUME NEW n \in Node, Restart(n)
        PROVE  disturbed \subseteq disturbed'
    BY <2>7 DEF Restart
  <2> QED
    BY <2>1, <2>2, <2>3, <2>4, <2>5, <2>6, <2>7 DEF Next
<1>2. \A n \in Node : ~Restart(n)
  BY DEF Restart
<1> QED
  BY <1>1, <1>2

\* What becomes of a change when its coordinator makes a call, gets an answer, or fails.
LEMMA OpCalls ==
    ASSUME TypeOK, NEW c \in Node, NEW t,
           SetOp(c, [op[c] EXCEPT !.busy = TRUE, !.left = op[c].left \ {t}])
    PROVE  /\ op'[c].pc = op[c].pc /\ op'[c].version = op[c].version
           /\ op'[c].prev = op[c].prev /\ op'[c].next = op[c].next
           /\ op'[c].floor = op[c].floor
           /\ op'[c].left = op[c].left \ {t} /\ op'[c].applied = op[c].applied
           /\ op'[c].busy = TRUE
           /\ \A n \in Node \ {c} : op'[n] = op[n]
<1> DEFINE x == [op[c] EXCEPT !.busy = TRUE, !.left = op[c].left \ {t}]
<1>1. /\ x.pc = op[c].pc /\ x.version = op[c].version
      /\ x.prev = op[c].prev /\ x.next = op[c].next /\ x.floor = op[c].floor
      /\ x.left = op[c].left \ {t} /\ x.applied = op[c].applied
      /\ x.busy = TRUE
  BY OpType DEF Change
<1>2. op' = [op EXCEPT ![c] = x]
  BY DEF SetOp
<1> HIDE DEF x
<1> QED
  BY <1>1, <1>2 DEF TypeOK

LEMMA OpReturns ==
    ASSUME TypeOK, NEW c \in Node, NEW t, Returned(c, t)
    PROVE  /\ op'[c].pc = op[c].pc /\ op'[c].version = op[c].version
           /\ op'[c].prev = op[c].prev /\ op'[c].next = op[c].next
           /\ op'[c].floor = op[c].floor
           /\ op'[c].left = op[c].left
           /\ op'[c].applied = op[c].applied \cup (IF op[c].pc = "sync" THEN {t} ELSE {})
           /\ op'[c].busy = FALSE
           /\ \A n \in Node \ {c} : op'[n] = op[n]
<1> DEFINE A == op[c].applied \cup (IF op[c].pc = "sync" THEN {t} ELSE {})
           x == [op[c] EXCEPT !.busy = FALSE, !.applied = A]
<1>1. /\ x.pc = op[c].pc /\ x.version = op[c].version
      /\ x.prev = op[c].prev /\ x.next = op[c].next /\ x.floor = op[c].floor
      /\ x.left = op[c].left /\ x.applied = A
      /\ x.busy = FALSE
  <2> HIDE DEF A
  <2> QED
    BY OpType DEF Change
<1>2. op' = [op EXCEPT ![c] = x]
  BY DEF Returned, SetOp
<1> HIDE DEF x, A
<1>3. /\ op'[c] = x
      /\ \A n \in Node \ {c} : op'[n] = op[n]
  BY <1>2 DEF TypeOK
<1> QED
  BY <1>1, <1>3 DEF A

LEMMA OpUndoes ==
    ASSUME TypeOK, NEW c \in Node, CallFailed(c), op[c].pc \in {"sync", "rebalance"}
    PROVE  /\ op'[c].pc = "undo" /\ op'[c].version = op[c].version + 1
           /\ op'[c].prev = op[c].prev /\ op'[c].next = op[c].next
           /\ op'[c].floor = op[c].floor
           /\ op'[c].left = op[c].applied /\ op'[c].applied = op[c].applied
           /\ op'[c].busy = FALSE
           /\ \A n \in Node \ {c} : op'[n] = op[n]
<1> DEFINE x == [op[c] EXCEPT !.pc = "undo", !.version = op[c].version + 1, !.last = Nil,
                              !.left = op[c].applied, !.busy = FALSE]
<1>1. /\ x.pc = "undo" /\ x.version = op[c].version + 1
      /\ x.prev = op[c].prev /\ x.next = op[c].next /\ x.floor = op[c].floor
      /\ x.left = op[c].applied /\ x.applied = op[c].applied
      /\ x.busy = FALSE
  BY OpType DEF Change
<1>2. op' = [op EXCEPT ![c] = x]
  BY DEF CallFailed, Compensate, SetOp
<1> HIDE DEF x
<1> QED
  BY <1>1, <1>2 DEF TypeOK

\* An update of op touches one change.
LEMMA OpSet ==
    ASSUME TypeOK, NEW c \in Node, NEW x, SetOp(c, x)
    PROVE  op'[c] = x /\ \A n \in Node \ {c} : op'[n] = op[n]
BY DEF TypeOK, SetOp

\* The changes of the other nodes stay.
Same(c) == \A n \in Node \ {c} : op'[n] = op[n]

\* Steps that change a rebalance or a drain, and nothing that the invariant is about.
LEMMA OrderlyQuiet ==
    ASSUME NEW c \in Node, Orderly(c), UNCHANGED <<ring, config, op, syncs>>,
           \/ UNCHANGED rebalances
           \/ \E t \in rebalances : \E y :
              /\ rebalances' = (rebalances \ {t}) \cup {y}
              /\ y.by = t.by /\ y.live = t.live,
           \/ UNCHANGED drains
           \/ \E d \in drains : \E y :
              /\ drains' = (drains \ {d}) \cup {y}
              /\ y.by = d.by /\ y.future = d.future
    PROVE  Orderly(c)'
<1>1. Applying'
  BY DEF Orderly, Applying
<1>2. Issued(c)'
  BY DEF Orderly, Issued, NoneNewer, Top, Targets, InEffect, UndoReaches
<1>3. Callers(c)'
  BY DEF Orderly, Callers
<1>4. StaysIn(c)'
  BY DEF Orderly, StaysIn
<1>5. Waiting(c)'
  BY DEF Orderly, Waiting
<1> QED
  BY <1>1, <1>2, <1>3, <1>4, <1>5 DEF Orderly

\* A change begins.
LEMMA OrderlyAdd ==
    ASSUME NEW c \in Node, CoordinatorStays, Coordinators = {c}, TypeOK, Orderly(c),
           NEW k \in Node, NEW m \in Node, AddMember(k, m)
    PROVE  Orderly(c)'
<1> DEFINE current == ring[c].members
<1>1. k = c /\ op[c].pc \in {"idle", "done"} /\ SyncPhase(c, m, m, current, current \cup {m}, Floor(current))
  BY DEF AddMember, CanChange
<1>2. UNCHANGED <<ring, config, syncs, rebalances, drains>>
  BY DEF AddMember, calls
<1> DEFINE next == current \cup {m}
<1>3. /\ op'[c].pc = "sync" /\ op'[c].version = config[c] + 1
      /\ op'[c].prev = current /\ op'[c].next = next
      /\ op'[c].left = next /\ op'[c].applied = {}
      /\ op'[c].busy = FALSE
      /\ Same(c)
  <2> DEFINE o == [pc |-> "sync", member |-> m, last |-> m, prev |-> current, next |-> next,
                   version |-> config[c] + 1, left |-> next, applied |-> {},
                   busy |-> FALSE, floor |-> Floor(current)]
  <2>1. SetOp(c, o)
    BY <1>1 DEF SyncPhase
  <2>2. o.pc = "sync" /\ o.version = config[c] + 1 /\ o.prev = current /\ o.next = next
        /\ o.left = next /\ o.applied = {} /\ o.busy = FALSE
    OBVIOUS
  <2> HIDE DEF current, next, o
  <2> QED
    BY <2>1, <2>2, OpSet DEF Same
<1>4. \A n \in Node : config[n] \in Nat
  BY DEF TypeOK
<1>5. /\ \A s \in syncs : ~s.live /\ s.version \in Nat
      /\ \A t \in rebalances : ~t.live
      /\ drains = {}
  BY <1>1, CallTypes, SyncFields DEF Orderly, Waiting
<1>6. Callers(c)'
  BY <1>2, <1>3 DEF Orderly, Callers, Same
<1>7. StaysIn(c)'
  BY <1>2, <1>3 DEF Orderly, StaysIn
<1>8. Applying'
  BY <1>2 DEF Orderly, Applying
<1>9. Waiting(c)'
  BY <1>2, <1>3, <1>5 DEF Orderly, Waiting
<1>10. /\ \A n \in Node : config[n] <= config[c]
       /\ \A s \in syncs : s.version <= config[c]
  BY <1>1 DEF Orderly, Issued, NoneNewer, Top
<1>11. NoneNewer(c)'
  BY <1>2, <1>3, <1>4, <1>5, <1>10 DEF NoneNewer, Top
<1>12. Targets(c)'
  BY <1>2, <1>3, <1>4, <1>5, <1>10 DEF Targets
<1>13. InEffect(c)' /\ UndoReaches(c)'
  BY <1>2, <1>3 DEF InEffect, UndoReaches
<1> QED
  BY <1>6, <1>7, <1>8, <1>9, <1>11, <1>12, <1>13 DEF Orderly, Issued

\* A removal begins, with its drain.
LEMMA OrderlyRemove ==
    ASSUME NEW c \in Node, CoordinatorStays, Coordinators = {c}, TypeOK, Orderly(c),
           NEW k \in Node, NEW m \in Node, RemoveMember(k, m)
    PROVE  Orderly(c)'
<1> DEFINE current == ring[c].members
           o == [pc |-> "drain", member |-> m, last |-> Nil, prev |-> current,
                 next |-> current \ {m}, version |-> 0, left |-> {}, applied |-> {},
                 busy |-> TRUE, floor |-> Floor(current)]
           d == [by |-> c, at |-> m, pc |-> "sent", future |-> current \ {m},
                 value |-> 0, left |-> {}]
<1>1. k = c /\ op[c].pc \in {"idle", "done"} /\ m # c /\ m \in current
      /\ SetOp(c, o) /\ drains' = drains \cup {d}
  BY DEF RemoveMember, CanChange, CoordinatorStays
<1>2. UNCHANGED <<ring, config, syncs, rebalances>>
  BY DEF RemoveMember
<1>3. /\ o.pc = "drain" /\ o.prev = current /\ o.next = current \ {m} /\ o.busy = TRUE
      /\ d.by = c /\ d.future = current \ {m}
  OBVIOUS
<1> HIDE DEF o, d
<1>4. op'[c] = o /\ Same(c)
  BY <1>1 DEF SetOp, TypeOK, Same
<1>5. /\ \A s \in syncs : ~s.live
      /\ \A t \in rebalances : ~t.live
      /\ drains = {}
  BY <1>1 DEF Orderly, Waiting
<1>6. Callers(c)'
  BY <1>1, <1>2, <1>3, <1>4 DEF Orderly, Callers, Same
<1>7. StaysIn(c)'
  BY <1>1, <1>2, <1>3, <1>4 DEF Orderly, StaysIn
<1>8. Applying'
  BY <1>2 DEF Orderly, Applying
<1>9. Waiting(c)'
  BY <1>1, <1>2, <1>3, <1>4, <1>5 DEF Orderly, Waiting
<1>10. NoneNewer(c)'
  BY <1>1, <1>2, <1>3, <1>4 DEF Orderly, Issued, NoneNewer, Top
<1>11. Targets(c)' /\ InEffect(c)' /\ UndoReaches(c)'
  BY <1>3, <1>4 DEF Targets, InEffect, UndoReaches
<1> QED
  BY <1>6, <1>7, <1>8, <1>9, <1>10, <1>11 DEF Orderly, Issued

\* The coordinator calls the next target.
LEMMA OrderlyCallSync ==
    ASSUME TypeOK, NEW c \in Node, Orderly(c), CallSync(c)
    PROVE  Orderly(c)'
<1> DEFINE t == FirstOf(op[c].left, op[c].last)
           M == IF op[c].pc = "sync" THEN op[c].next ELSE op[c].prev
           s == [by |-> c, to |-> t, live |-> TRUE, pc |-> "sent",
                 version |-> op[c].version, members |-> M, last |-> op[c].last,
                 gone |-> {}, come |-> M]
<1>1. /\ op[c].pc \in {"sync", "undo"} /\ op[c].busy = FALSE
      /\ syncs' = syncs \cup {s}
      /\ SetOp(c, [op[c] EXCEPT !.busy = TRUE, !.left = op[c].left \ {t}])
      /\ UNCHANGED <<ring, config, rebalances, drains>>
  BY OpType, ChangeFields DEF CallSync
<1>2. t \in op[c].left /\ op[c].left \subseteq Node
  BY OpType, ChangeFields, FirstIn DEF CallSync
<1>3. /\ s.by = c /\ s.to = t /\ s.live = TRUE /\ s.pc = "sent" /\ s.version = op[c].version
      /\ s.members = M /\ s.gone = {} /\ s.come = M
  OBVIOUS
<1> HIDE DEF s
<1>4. c \in M /\ (op[c].pc = "sync" => M = op[c].next) /\ (op[c].pc # "sync" => M = op[c].prev)
  BY <1>1 DEF Orderly, StaysIn
<1> HIDE DEF t, M
<1>5. /\ op'[c].pc = op[c].pc /\ op'[c].version = op[c].version
      /\ op'[c].prev = op[c].prev /\ op'[c].next = op[c].next
      /\ op'[c].left = op[c].left \ {t} /\ op'[c].applied = op[c].applied
      /\ op'[c].busy = TRUE
      /\ Same(c)
  BY <1>1, OpCalls DEF Same
<1>6. /\ \A x \in syncs : ~x.live
      /\ \A x \in rebalances : ~x.live
      /\ drains = {}
  BY <1>1 DEF Orderly, Waiting
<1>7. op[c].version \in Nat
  BY OpType, ChangeFields
<1>8. Callers(c)'
  BY <1>1, <1>3, <1>5 DEF Orderly, Callers, Same
<1>9. StaysIn(c)'
  BY <1>1, <1>3, <1>4, <1>5 DEF Orderly, StaysIn
<1>10. Applying'
  BY <1>1, <1>3 DEF Orderly, Applying
<1>11. Waiting(c)'
  BY <1>1, <1>3, <1>4, <1>5, <1>6 DEF Waiting
<1>12. NoneNewer(c)'
  BY <1>1, <1>3, <1>5, <1>7 DEF Orderly, Issued, NoneNewer, Top
<1>13. Targets(c)'
  BY <1>1, <1>2, <1>3, <1>5, <1>6 DEF Orderly, Issued, Targets
<1>14. InEffect(c)'
  BY <1>1, <1>3, <1>5 DEF Orderly, Issued, InEffect
<1>15. UndoReaches(c)'
  BY <1>1, <1>3, <1>5, <1>6 DEF Orderly, Issued, UndoReaches
<1> QED
  BY <1>8, <1>9, <1>10, <1>11, <1>12, <1>13, <1>14, <1>15 DEF Orderly, Issued

\* The first phase is over.
LEMMA OrderlyPhase ==
    ASSUME TypeOK, NEW c \in Node, Orderly(c), RebalancePhase(c) \/ ChangeDone(c)
    PROVE  Orderly(c)'
<1>1. /\ op[c].busy = FALSE /\ op[c].left = {}
      /\ UNCHANGED <<ring, config, syncs, rebalances, drains>>
  BY OpType, ChangeFields DEF RebalancePhase, ChangeDone, calls
<1>2. /\ \/ op[c].pc = "sync" /\ op'[c].pc = "rebalance"
         \/ op[c].pc = "rebalance" /\ op'[c].pc = "done"
      /\ op'[c].version = op[c].version
      /\ op'[c].prev = op[c].prev /\ op'[c].next = op[c].next
      /\ op'[c].applied = op[c].applied
      /\ op'[c].busy = FALSE
      /\ Same(c)
  <2>1. CASE RebalancePhase(c)
    <3> DEFINE x == [op[c] EXCEPT !.pc = "rebalance", !.left = op[c].next]
    <3>1. /\ x.pc = "rebalance" /\ x.version = op[c].version
          /\ x.prev = op[c].prev /\ x.next = op[c].next
          /\ x.applied = op[c].applied /\ x.busy = op[c].busy
      BY OpType DEF Change
    <3>2. SetOp(c, x) /\ op[c].pc = "sync"
      BY <2>1 DEF RebalancePhase
    <3> HIDE DEF x
    <3> QED
      BY <1>1, <3>1, <3>2, OpSet DEF Same
  <2>2. CASE ChangeDone(c)
    <3> DEFINE x == [op[c] EXCEPT !.pc = "done"]
    <3>1. /\ x.pc = "done" /\ x.version = op[c].version
          /\ x.prev = op[c].prev /\ x.next = op[c].next
          /\ x.applied = op[c].applied /\ x.busy = op[c].busy
      BY OpType DEF Change
    <3>2. SetOp(c, x) /\ op[c].pc = "rebalance"
      BY <2>2 DEF ChangeDone
    <3> HIDE DEF x
    <3> QED
      BY <1>1, <3>1, <3>2, OpSet DEF Same
  <2> QED
    BY <2>1, <2>2
<1>3. /\ \A x \in syncs : ~x.live
      /\ \A x \in rebalances : ~x.live
      /\ drains = {}
  BY <1>1 DEF Orderly, Waiting
<1>4. op[c].applied = op[c].next
  BY <1>1, <1>2, <1>3 DEF Orderly, Issued, Targets, InEffect
<1>5. config[c] = op[c].version
  BY <1>2, <1>4 DEF Orderly, StaysIn, Issued, InEffect
<1>6. Callers(c)' /\ StaysIn(c)'
  BY <1>1, <1>2 DEF Orderly, Callers, StaysIn, Same
<1>7. Applying'
  BY <1>1 DEF Orderly, Applying
<1>8. Waiting(c)'
  BY <1>1, <1>2, <1>3 DEF Waiting
<1>9. NoneNewer(c)'
  BY <1>1, <1>2, <1>5 DEF Orderly, Issued, NoneNewer, Top
<1>10. Targets(c)' /\ UndoReaches(c)'
  BY <1>1, <1>2 DEF Targets, UndoReaches
<1>11. InEffect(c)'
  BY <1>1, <1>2, <1>4, <1>5 DEF Orderly, Issued, InEffect
<1> QED
  BY <1>6, <1>7, <1>8, <1>9, <1>10, <1>11 DEF Orderly, Issued

\* The coordinator asks the next target to rebalance.
LEMMA OrderlyCallRebalance ==
    ASSUME TypeOK, NEW c \in Node, Orderly(c), CallRebalance(c)
    PROVE  Orderly(c)'
<1> DEFINE t == FirstOf(op[c].left, op[c].last)
           b == [by |-> c, at |-> t, live |-> TRUE, pc |-> "sent", value |-> 0,
                 to |-> {}, left |-> {}, copied |-> {}]
<1>1. /\ op[c].pc = "rebalance" /\ op[c].busy = FALSE
      /\ rebalances' = rebalances \cup {b}
      /\ SetOp(c, [op[c] EXCEPT !.busy = TRUE, !.left = op[c].left \ {t}])
      /\ UNCHANGED <<ring, config, syncs, drains>>
  BY OpType, ChangeFields DEF CallRebalance
<1>2. b.by = c /\ b.live = TRUE
  OBVIOUS
<1> HIDE DEF t, b
<1>3. /\ op'[c].pc = "rebalance" /\ op'[c].version = op[c].version
      /\ op'[c].prev = op[c].prev /\ op'[c].next = op[c].next
      /\ op'[c].applied = op[c].applied
      /\ op'[c].busy = TRUE
      /\ Same(c)
  BY <1>1, OpCalls DEF Same
<1>4. /\ \A x \in syncs : ~x.live
      /\ \A x \in rebalances : ~x.live
      /\ drains = {}
  BY <1>1 DEF Orderly, Waiting
<1>5. Callers(c)' /\ StaysIn(c)'
  BY <1>1, <1>2, <1>3 DEF Orderly, Callers, StaysIn, Same
<1>6. Applying'
  BY <1>1 DEF Orderly, Applying
<1>7. Waiting(c)'
  BY <1>1, <1>2, <1>3, <1>4 DEF Waiting
<1>8. NoneNewer(c)' /\ Targets(c)' /\ UndoReaches(c)'
  BY <1>1, <1>3 DEF Orderly, Issued, NoneNewer, Top, Targets, UndoReaches
<1>9. InEffect(c)'
  BY <1>1, <1>3 DEF Orderly, Issued, InEffect
<1> QED
  BY <1>5, <1>6, <1>7, <1>8, <1>9 DEF Orderly, Issued

\* A compensation is over.
LEMMA OrderlyUndoDone ==
    ASSUME TypeOK, NEW c \in Node, Orderly(c), UndoDone(c)
    PROVE  Orderly(c)'
<1>1. /\ op[c].pc = "undo" /\ op[c].busy = FALSE /\ op[c].left = {}
      /\ config' = IF c \in op[c].applied THEN config
                   ELSE [config EXCEPT ![c] = op[c].version]
      /\ op' = [op EXCEPT ![c] = NoChange]
      /\ UNCHANGED <<ring, syncs, rebalances, drains>>
  BY OpType, ChangeFields DEF UndoDone, SetOp, calls
<1>2. op'[c] = NoChange /\ op'[c].pc = "idle" /\ op'[c].busy = FALSE /\ Same(c)
  BY <1>1 DEF TypeOK, NoChange, Same
<1>3. /\ \A x \in syncs : ~x.live
      /\ \A x \in rebalances : ~x.live
      /\ drains = {}
  BY <1>1 DEF Orderly, Waiting
<1>4. config'[c] = op[c].version /\ \A n \in Node \ {c} : config'[n] = config[n]
  BY <1>1, <1>3 DEF Orderly, Issued, UndoReaches, TypeOK
<1>5. Callers(c)' /\ StaysIn(c)'
  BY <1>1, <1>2 DEF Orderly, Callers, StaysIn, Same
<1>6. Applying'
  BY <1>1 DEF Orderly, Applying
<1>7. Waiting(c)'
  BY <1>1, <1>2, <1>3 DEF Waiting
<1>8. NoneNewer(c)'
  <2>1. op[c].version \in Nat
    BY OpType, ChangeFields
  <2> QED
    BY <1>1, <1>2, <1>4, <2>1 DEF Orderly, Issued, NoneNewer, Top
<1>9. Targets(c)' /\ UndoReaches(c)' /\ InEffect(c)'
  BY <1>2 DEF Targets, UndoReaches, InEffect
<1> QED
  BY <1>5, <1>6, <1>7, <1>8, <1>9 DEF Orderly, Issued

\* The call of a change that is being undone is not given up twice.
LEMMA OrderlyNoBreak ==
    ASSUME NEW c \in Node, Orderly(c)
    PROVE  ~CallBroken(c)
BY DEF CallBroken, Orderly, Callers, Waiting

\* A handler begins to apply a configuration, or removes or adds a member.
LEMMA OrderlyApplies ==
    ASSUME NEW c \in Node, TypeOK, Orderly(c), NEW s \in syncs, NEW y,
           syncs' = (syncs \ {s}) \cup {y},
           y.by = s.by, y.to = s.to, y.live = s.live, y.version = s.version,
           y.members = s.members, y.pc = "apply",
           y.come \subseteq s.members, y.gone \cap s.members = {},
           ring'[s.to].members \subseteq s.members \cup y.gone,
           s.members \subseteq ring'[s.to].members \cup y.come,
           \A n \in Node \ {s.to} : ring'[n] = ring[n],
           c \in ring'[c].members,
           \A x \in syncs : x.pc = "apply" /\ x.to = s.to => x = s,
           op[c].pc \in {"sync", "rebalance", "done"} => s.to \notin op[c].applied,
           UNCHANGED <<config, op, rebalances, drains>>
    PROVE  Orderly(c)'
<1>1. Callers(c)' /\ StaysIn(c)'
  BY DEF Orderly, Callers, StaysIn
<1>2. Applying'
  <2> SUFFICES ASSUME NEW x \in syncs'
               PROVE  /\ x.come \subseteq x.members
                      /\ x.gone \cap x.members = {}
                      /\ x.pc = "sent" => x.come = x.members
                      /\ x.pc = "apply" =>
                           /\ ring'[x.to].members \subseteq x.members \cup x.gone
                           /\ x.members \subseteq ring'[x.to].members \cup x.come
                           /\ \A z \in syncs' : z.pc = "apply" /\ z.to = x.to => z = x
    BY DEF Applying
  <2>1. CASE x = y
    BY <2>1
  <2>2. CASE x # y /\ x \in syncs /\ x # s
    <3>1. x.to \in Node
      BY <2>2, CallTypes, SyncFields
    <3>2. x.pc = "apply" => x.to # s.to
      BY <2>2
    <3> QED
      BY <2>2, <3>1, <3>2 DEF Orderly, Applying
  <2> QED
    BY <2>1, <2>2
<1>3. Waiting(c)'
  BY DEF Orderly, Waiting
<1>4. NoneNewer(c)'
  BY DEF Orderly, Issued, NoneNewer, Top
<1>5. Targets(c)'
  BY DEF Orderly, Issued, Targets
<1>6. InEffect(c)'
  <2>1. op[c].applied \subseteq Node
    BY OpType, ChangeFields
  <2> QED
    BY <2>1 DEF Orderly, Issued, InEffect
<1>7. UndoReaches(c)'
  BY DEF Orderly, Issued, UndoReaches
<1> QED
  BY <1>1, <1>2, <1>3, <1>4, <1>5, <1>6, <1>7 DEF Orderly, Issued

\* A handler answers.
LEMMA OrderlyAnswers ==
    ASSUME NEW c \in Node, TypeOK, TypeOK', Orderly(c), NEW s \in syncs, EndSync(s),
           UNCHANGED <<ring, rebalances, drains>>,
           \A n \in Node \ {s.to} : config'[n] = config[n],
           config'[s.to] \in {config[s.to], s.version},
           config'[s.to] >= config[s.to],
           config'[s.to] >= s.version,
           config'[s.to] # config[s.to] /\ op[c].pc \in {"sync", "rebalance", "done"}
             => s.to \notin op[c].applied,
           s.live /\ op[c].pc = "sync" =>
             /\ config'[s.to] = s.version
             /\ ring[s.to].members = s.members
             /\ \A x \in syncs : x.pc = "apply" /\ x.to = s.to => x = s
    PROVE  Orderly(c)'
<1>1. syncs' = syncs \ {s} /\ s.by = c
  BY DEF EndSync, Orderly, Callers
<1>2. /\ op'[c].pc = op[c].pc /\ op'[c].version = op[c].version
      /\ op'[c].prev = op[c].prev /\ op'[c].next = op[c].next
      /\ op'[c].left = op[c].left
      /\ op'[c].applied = IF s.live /\ op[c].pc = "sync" THEN op[c].applied \cup {s.to}
                          ELSE op[c].applied
      /\ op'[c].busy = IF s.live THEN FALSE ELSE op[c].busy
      /\ Same(c)
  <2>1. CASE s.live
    <3>1. Returned(c, s.to)
      BY <1>1, <2>1 DEF EndSync
    <3>2. op'[c].applied = op[c].applied \cup (IF op[c].pc = "sync" THEN {s.to} ELSE {})
      BY <3>1, OpReturns
    <3>3. op'[c].applied = IF op[c].pc = "sync" THEN op[c].applied \cup {s.to}
                           ELSE op[c].applied
      BY <3>2
    <3> QED
      BY <2>1, <3>1, <3>3, OpReturns DEF Same
  <2>2. CASE ~s.live
    BY <2>2 DEF EndSync, Same
  <2> QED
    BY <2>1, <2>2
<1>3. /\ s.live => /\ op[c].pc \in {"sync", "undo"}
                   /\ s.version = op[c].version
                   /\ op[c].pc = "sync" => s.members = op[c].next
                   /\ \A x \in syncs' : ~x.live
                   /\ \A t \in rebalances : ~t.live
                   /\ drains = {}
  BY <1>1 DEF Orderly, Waiting
<1>4. /\ s.to \in Node /\ s.version \in Nat /\ op[c].version \in Nat
      /\ \A n \in Node : config[n] \in Nat /\ config'[n] \in Nat
      /\ op[c].applied \subseteq Node /\ op[c].next \subseteq Node
  BY CallTypes, SyncFields, OpType, ChangeFields DEF TypeOK
<1>5. /\ s.version <= Top(c)
      /\ \A n \in Node : config[n] <= Top(c)
      /\ \A x \in syncs : x.version <= Top(c)
  BY DEF Orderly, Issued, NoneNewer
<1>6. Top(c)' = Top(c) /\ Top(c) \in Nat
  <2>1. CASE op[c].pc \in {"sync", "rebalance", "undo"}
    BY <1>2, <1>4, <2>1 DEF Top
  <2>2. CASE op[c].pc \notin {"sync", "rebalance", "undo"}
    <3>1. Top(c) = config[c] /\ Top(c)' = config'[c]
      BY <1>2, <2>2 DEF Top
    <3>2. CASE s.to # c
      BY <1>4, <3>1, <3>2
    <3>3. CASE s.to = c
      BY <1>4, <1>5, <3>1, <3>3
    <3> QED
      BY <3>2, <3>3
  <2> QED
    BY <2>1, <2>2
<1>7. Callers(c)' /\ StaysIn(c)'
  BY <1>1, <1>2 DEF Orderly, Callers, StaysIn, Same
<1>8. Applying'
  BY <1>1 DEF Orderly, Applying
<1>9. Waiting(c)'
  <2>1. CASE s.live
    BY <1>1, <1>2, <1>3, <2>1 DEF Orderly, Waiting
  <2>2. CASE ~s.live
    <3>1. op'[c].busy = op[c].busy
      BY <1>2, <2>2
    <3>2. op[c].busy => \/ \E x \in syncs' : x.live
                        \/ \E t \in rebalances : t.live
                        \/ drains # {}
      BY <1>1, <2>2 DEF Orderly, Waiting
    <3> QED
      BY <1>1, <1>2, <3>1, <3>2 DEF Orderly, Waiting
  <2> QED
    BY <2>1, <2>2
<1>10. NoneNewer(c)'
  <2>1. \A n \in Node : config'[n] <= Top(c)
    BY <1>4, <1>5, <1>6
  <2>2. \A x \in syncs' : x.version <= Top(c)
    BY <1>1, <1>5
  <2> QED
    BY <1>6, <2>1, <2>2 DEF NoneNewer
<1>11. Targets(c)'
  <2> SUFFICES ASSUME op[c].pc = "sync"
               PROVE  Targets(c)'
    BY <1>2 DEF Targets
  <2>1. /\ \A n \in Node \ op[c].applied : config[n] < op[c].version
        /\ \A x \in syncs : x.live \/ x.version < op[c].version
        /\ op[c].left \cup op[c].applied \subseteq op[c].next
        /\ op[c].left \cap op[c].applied = {}
        /\ \A x \in syncs : x.live => x.to \in op[c].next \ (op[c].left \cup op[c].applied)
        /\ \A n \in op[c].next \ (op[c].left \cup op[c].applied) :
             \E x \in syncs : x.live /\ x.to = n
    BY DEF Orderly, Issued, Targets
  <2>2. CASE s.live
    <3>1. op'[c].applied = op[c].applied \cup {s.to}
      BY <1>2, <2>2
    <3>2. \A n \in Node \ op'[c].applied : config'[n] < op[c].version
      BY <2>1, <3>1
    <3>3. \A x \in syncs' : x.version < op[c].version
      BY <1>1, <1>3, <2>1, <2>2
    <3>4. s.to \in op[c].next \ (op[c].left \cup op[c].applied)
      BY <2>1, <2>2
    <3>5. \A n \in op[c].next \ (op[c].left \cup op'[c].applied) : FALSE
      <4>1. \A x \in syncs : x.live => x = s
        BY <1>1, <1>3, <2>2
      <4> QED
        BY <2>1, <3>1, <4>1
    <3> QED
      BY <1>2, <1>3, <2>1, <2>2, <3>1, <3>2, <3>3, <3>4, <3>5 DEF Targets
  <2>3. CASE ~s.live
    <3>1. \A n \in Node \ op[c].applied : config'[n] < op[c].version
      BY <2>1, <2>3
    <3>2. op'[c].applied = op[c].applied
      BY <1>2, <2>3
    <3>3. \A n \in op[c].next \ (op[c].left \cup op[c].applied) :
            \E x \in syncs' : x.live /\ x.to = n
      BY <1>1, <2>1, <2>3
    <3> QED
      BY <1>1, <1>2, <2>1, <3>1, <3>2, <3>3 DEF Targets
  <2> QED
    BY <2>2, <2>3
<1>12. InEffect(c)'
  <2>1. op[c].pc \in {"rebalance", "done"} => op'[c].applied = op[c].applied
    BY <1>2
  <2>2. op[c].pc = "done" => config'[c] = op[c].version
    <3> HAVE op[c].pc = "done"
    <3>1. c \in op[c].applied /\ config[c] = op[c].version
      BY DEF Orderly, Issued, InEffect, StaysIn
    <3> QED
      BY <3>1
  <2>3. ASSUME op[c].pc \in {"sync", "rebalance", "done"}, NEW t \in op[c].applied
        PROVE  /\ config'[t] = op[c].version
               /\ ring[t].members = op[c].next
               /\ \A x \in syncs' : x.pc = "apply" => x.to # t
    BY <1>1, <1>4, <2>3 DEF Orderly, Issued, InEffect
  <2>4. ASSUME op[c].pc = "sync", s.live
        PROVE  /\ config'[s.to] = op[c].version
               /\ ring[s.to].members = op[c].next
               /\ \A x \in syncs' : x.pc = "apply" => x.to # s.to
    BY <1>1, <1>3, <2>4
  <2>5. op[c].pc \in {"rebalance", "done"} => op[c].applied = op[c].next
    BY DEF Orderly, Issued, InEffect
  <2> QED
    BY <1>2, <2>1, <2>2, <2>3, <2>4, <2>5 DEF InEffect
<1>13. UndoReaches(c)'
  <2> SUFFICES ASSUME op[c].pc = "undo", c \in op[c].applied, c \notin op[c].left,
                      config'[c] # op[c].version
               PROVE  \E x \in syncs' : x.live /\ x.to = c
    BY <1>2 DEF UndoReaches
  <2>1. Top(c) = op[c].version
    BY DEF Top
  <2>2. config'[c] < op[c].version
    BY <1>4, <1>6, <1>10, <2>1 DEF NoneNewer
  <2>3. config[c] # op[c].version
    BY <1>4, <2>2
  <2>4. PICK x \in syncs : x.live /\ x.to = c
    BY <2>3 DEF Orderly, Issued, UndoReaches
  <2>5. x # s
    BY <1>3, <1>4, <2>2, <2>4
  <2> QED
    BY <1>1, <2>4, <2>5
<1> QED
  BY <1>7, <1>8, <1>9, <1>10, <1>11, <1>12, <1>13 DEF Orderly, Issued

\* The coordinator gives up on a sync, and begins to undo the change.
LEMMA OrderlySyncLost ==
    ASSUME NEW c \in Node, TypeOK, Orderly(c), CallFailed(c), op[c].pc = "sync",
           NEW s \in syncs, s.live, NEW y,
           syncs' \subseteq (syncs \ {s}) \cup {y},
           y.by = s.by, y.to = s.to, y.live = FALSE, y.version = s.version, y.pc = s.pc,
           y.members = s.members, y.come = s.come, y.gone = s.gone,
           UNCHANGED <<ring, config, rebalances, drains>>
    PROVE  Orderly(c)'
<1>1. /\ op'[c].pc = "undo" /\ op'[c].version = op[c].version + 1
      /\ op'[c].prev = op[c].prev /\ op'[c].next = op[c].next
      /\ op'[c].left = op[c].applied /\ op'[c].applied = op[c].applied
      /\ op'[c].busy = FALSE
      /\ Same(c)
  BY OpUndoes DEF Same
<1>2. /\ \A x \in syncs' : ~x.live
      /\ \A t \in rebalances : ~t.live
      /\ drains = {}
  BY DEF Orderly, Waiting
<1>3. Callers(c)' /\ StaysIn(c)'
  BY <1>1 DEF Orderly, Callers, StaysIn, Same
<1>4. Applying'
  <2> SUFFICES ASSUME NEW x \in syncs'
               PROVE  /\ x.come \subseteq x.members
                      /\ x.gone \cap x.members = {}
                      /\ x.pc = "sent" => x.come = x.members
                      /\ x.pc = "apply" =>
                           /\ ring[x.to].members \subseteq x.members \cup x.gone
                           /\ x.members \subseteq ring[x.to].members \cup x.come
                           /\ \A z \in syncs' : z.pc = "apply" /\ z.to = x.to => z = x
    BY DEF Applying
  <2> QED
    BY DEF Orderly, Applying
<1>5. Waiting(c)'
  BY <1>1, <1>2 DEF Waiting
<1>6. NoneNewer(c)'
  <2>1. Top(c) = op[c].version /\ Top(c)' = op[c].version + 1
    BY <1>1 DEF Top
  <2>2. op[c].version \in Nat /\ \A n \in Node : config[n] \in Nat
    BY OpType, ChangeFields DEF TypeOK
  <2>3. \A x \in syncs : x.version \in Nat
    BY CallTypes, SyncFields
  <2>4. \A n \in Node : config[n] <= op[c].version + 1
    BY <2>1, <2>2 DEF Orderly, Issued, NoneNewer
  <2>5. \A x \in syncs' : x.version <= op[c].version + 1
    BY <2>1, <2>2, <2>3 DEF Orderly, Issued, NoneNewer
  <2> QED
    BY <2>1, <2>4, <2>5 DEF NoneNewer
<1>7. Targets(c)' /\ InEffect(c)' /\ UndoReaches(c)'
  BY <1>1 DEF Targets, InEffect, UndoReaches
<1> QED
  BY <1>3, <1>4, <1>5, <1>6, <1>7 DEF Orderly, Issued

\* The coordinator gives up on a rebalance, and begins to undo the change.
LEMMA OrderlyRebalanceLost ==
    ASSUME NEW c \in Node, TypeOK, Orderly(c), CallFailed(c), op[c].pc = "rebalance",
           NEW t \in rebalances, t.live, NEW y,
           rebalances' \subseteq (rebalances \ {t}) \cup {y},
           y.by = t.by, y.live = FALSE,
           UNCHANGED <<ring, config, syncs, drains>>
    PROVE  Orderly(c)'
<1>1. /\ op'[c].pc = "undo" /\ op'[c].version = op[c].version + 1
      /\ op'[c].prev = op[c].prev /\ op'[c].next = op[c].next
      /\ op'[c].left = op[c].applied /\ op'[c].applied = op[c].applied
      /\ op'[c].busy = FALSE
      /\ Same(c)
  BY OpUndoes DEF Same
<1>2. /\ \A s \in syncs : ~s.live
      /\ \A x \in rebalances' : ~x.live
      /\ drains = {}
  BY DEF Orderly, Waiting
<1>3. Callers(c)' /\ StaysIn(c)'
  BY <1>1 DEF Orderly, Callers, StaysIn, Same
<1>4. Applying'
  BY DEF Orderly, Applying
<1>5. Waiting(c)'
  BY <1>1, <1>2 DEF Waiting
<1>6. NoneNewer(c)'
  <2>1. Top(c) = op[c].version /\ Top(c)' = op[c].version + 1
    BY <1>1 DEF Top
  <2>2. op[c].version \in Nat /\ \A n \in Node : config[n] \in Nat
    BY OpType, ChangeFields DEF TypeOK
  <2>3. \A x \in syncs : x.version \in Nat
    BY CallTypes, SyncFields
  <2>4. \A n \in Node : config[n] <= op[c].version + 1
    BY <2>1, <2>2 DEF Orderly, Issued, NoneNewer
  <2>5. \A x \in syncs : x.version <= op[c].version + 1
    BY <2>1, <2>2, <2>3 DEF Orderly, Issued, NoneNewer
  <2> QED
    BY <2>1, <2>4, <2>5 DEF NoneNewer
<1>7. Targets(c)' /\ InEffect(c)' /\ UndoReaches(c)'
  BY <1>1 DEF Targets, InEffect, UndoReaches
<1> QED
  BY <1>3, <1>4, <1>5, <1>6, <1>7 DEF Orderly, Issued

\* A rebalance is over.
LEMMA OrderlyRebalanced ==
    ASSUME NEW c \in Node, TypeOK, Orderly(c), NEW t \in rebalances, EndRebalance(t),
           UNCHANGED <<ring, config, syncs, drains>>
    PROVE  Orderly(c)'
<1>1. rebalances' = rebalances \ {t} /\ t.by = c
  BY DEF EndRebalance, Orderly, Callers
<1>2. CASE ~t.live
  <2>1. UNCHANGED op
    BY <1>2 DEF EndRebalance
  <2>2. op[c].busy => \/ \E s \in syncs : s.live
                      \/ \E x \in rebalances' : x.live
                      \/ drains # {}
    BY <1>1, <1>2 DEF Orderly, Waiting
  <2>3. Waiting(c)'
    BY <1>1, <2>1, <2>2 DEF Orderly, Waiting
  <2>4. Callers(c)' /\ StaysIn(c)' /\ Applying'
    BY <1>1, <2>1 DEF Orderly, Callers, StaysIn, Applying
  <2>5. Issued(c)'
    BY <2>1 DEF Orderly, Issued, NoneNewer, Top, Targets, InEffect, UndoReaches
  <2> QED
    BY <2>3, <2>4, <2>5 DEF Orderly
<1>3. CASE t.live
  <2>1. /\ op[c].pc = "rebalance"
        /\ \A s \in syncs : ~s.live
        /\ \A x \in rebalances' : ~x.live
        /\ drains = {}
    BY <1>1, <1>3 DEF Orderly, Waiting
  <2>2. /\ op'[c].pc = "rebalance" /\ op'[c].version = op[c].version
        /\ op'[c].prev = op[c].prev /\ op'[c].next = op[c].next
        /\ op'[c].left = op[c].left
        /\ op'[c].applied = op[c].applied
        /\ op'[c].busy = FALSE
        /\ Same(c)
    <3>1. Returned(c, t.at)
      BY <1>1, <1>3 DEF EndRebalance
    <3>2. op'[c].applied = op[c].applied \cup (IF op[c].pc = "sync" THEN {t.at} ELSE {})
      BY <3>1, OpReturns
    <3>3. op'[c].applied = op[c].applied
      BY <2>1, <3>2
    <3> QED
      BY <2>1, <3>1, <3>3, OpReturns DEF Same
  <2>3. Callers(c)' /\ StaysIn(c)' /\ Applying'
    BY <1>1, <2>1, <2>2 DEF Orderly, Callers, StaysIn, Applying, Same
  <2>4. Waiting(c)'
    BY <2>1, <2>2 DEF Waiting
  <2>5. NoneNewer(c)' /\ Targets(c)' /\ UndoReaches(c)'
    BY <2>1, <2>2 DEF Orderly, Issued, NoneNewer, Top, Targets, UndoReaches
  <2>6. InEffect(c)'
    BY <2>1, <2>2 DEF Orderly, Issued, InEffect
  <2> QED
    BY <2>3, <2>4, <2>5, <2>6 DEF Orderly, Issued
<1> QED
  BY <1>2, <1>3

\* The drain is over: the configuration follows, or nothing is changed.
LEMMA OrderlyDrained ==
    ASSUME NEW c \in Node, TypeOK, Orderly(c), NEW d \in drains,
           DrainEnd(d) \/ DrainFails(d)
    PROVE  Orderly(c)'
<1>1. /\ d.by = c /\ drains' = {} /\ op[c].pc = "drain" /\ c \in d.future
      /\ UNCHANGED <<ring, config, syncs, rebalances>>
      /\ \A s \in syncs : ~s.live
      /\ \A t \in rebalances : ~t.live
  BY DEF DrainEnd, DrainFails, Orderly, Callers, Waiting, StaysIn
<1>2. Top(c) = config[c] /\ \A n \in Node : config[n] \in Nat
  BY <1>1 DEF Top, TypeOK
<1>3. \A s \in syncs : s.version \in Nat
  BY CallTypes, SyncFields
<1>4. Applying'
  BY <1>1 DEF Orderly, Applying
<1>5. CASE DrainFails(d)
  <2>1. op'[c] = NoChange /\ Same(c)
    BY <1>1, <1>5, OpSet DEF DrainFails, CallFailed, Same
  <2>2. op'[c].pc = "idle" /\ op'[c].busy = FALSE
    BY <2>1 DEF NoChange
  <2>3. Callers(c)' /\ StaysIn(c)'
    BY <1>1, <2>1, <2>2 DEF Orderly, Callers, StaysIn, Same
  <2>4. Waiting(c)'
    BY <1>1, <2>2 DEF Waiting
  <2>5. Issued(c)'
    BY <1>1, <1>2, <2>2 DEF Orderly, Issued, NoneNewer, Top, Targets, InEffect, UndoReaches
  <2> QED
    BY <1>4, <2>3, <2>4, <2>5 DEF Orderly
<1>6. CASE DrainEnd(d)
  <2> DEFINE prev == d.future \cup {d.at}
             o == [pc |-> "sync", member |-> d.at, last |-> Nil, prev |-> prev,
                   next |-> d.future, version |-> config[c] + 1, left |-> d.future,
                   applied |-> {}, busy |-> FALSE, floor |-> op[c].floor]
  <2>1. SetOp(c, o)
    BY <1>1, <1>6 DEF DrainEnd, SyncPhase
  <2>2. /\ o.pc = "sync" /\ o.version = config[c] + 1 /\ o.prev = prev /\ o.next = d.future
        /\ o.left = d.future /\ o.applied = {} /\ o.busy = FALSE
    OBVIOUS
  <2>3. c \in prev
    BY <1>1
  <2> HIDE DEF prev, o
  <2>4. op'[c] = o /\ Same(c)
    BY <2>1, OpSet DEF Same
  <2>5. Callers(c)'
    BY <1>1, <2>4 DEF Orderly, Callers, Same
  <2>6. StaysIn(c)'
    BY <1>1, <2>2, <2>3, <2>4 DEF Orderly, StaysIn
  <2>7. Waiting(c)'
    BY <1>1, <2>2, <2>4 DEF Waiting
  <2>8. NoneNewer(c)'
    BY <1>1, <1>2, <1>3, <2>2, <2>4 DEF Orderly, Issued, NoneNewer, Top
  <2>9. Targets(c)'
    BY <1>1, <1>2, <1>3, <2>2, <2>4 DEF Orderly, Issued, NoneNewer, Targets
  <2>10. InEffect(c)' /\ UndoReaches(c)'
    BY <2>2, <2>4 DEF InEffect, UndoReaches
  <2> QED
    BY <1>4, <2>5, <2>6, <2>7, <2>8, <2>9, <2>10 DEF Orderly, Issued
<1> QED
  BY <1>5, <1>6

LEMMA OrderlyChangeStep ==
    ASSUME NEW c \in Node, CoordinatorStays, Coordinators = {c}, TypeOK, Orderly(c),
           NEW k \in Node, ChangeStep(k)
    PROVE  Orderly(c)'
<1>1. CASE \E m \in Node : AddMember(k, m) \/ RemoveMember(k, m)
  BY <1>1, OrderlyAdd, OrderlyRemove
<1>2. CASE k # c /\ ~(\E m \in Node : AddMember(k, m) \/ RemoveMember(k, m))
  <2>1. op[k].pc = "idle" /\ ~op[k].busy
    BY <1>2 DEF Orderly, Callers, NoChange
  <2> QED
    BY <1>2, <2>1 DEF ChangeStep, CallSync, RebalancePhase, CallRebalance, ChangeDone,
                      UndoDone, CallBroken
<1>3. CASE k = c /\ ~(\E m \in Node : AddMember(k, m) \/ RemoveMember(k, m))
  BY <1>3, OrderlyCallSync, OrderlyPhase, OrderlyCallRebalance, OrderlyUndoDone,
     OrderlyNoBreak DEF ChangeStep
<1> QED
  BY <1>1, <1>2, <1>3

LEMMA OrderlySyncStep ==
    ASSUME NEW c \in Node, TypeOK, TypeOK', Orderly(c), disturbed' = {},
           NEW s \in syncs, SyncStep(s)
    PROVE  Orderly(c)'
<1>1. /\ s \in Sync /\ s.to \in Node /\ s.version \in Nat /\ s.by = c
      /\ s.members \subseteq Node /\ s.gone \subseteq Node /\ s.come \subseteq Node
      /\ s.live \in BOOLEAN
  BY CallTypes, SyncFields DEF Orderly, Callers
<1>2. /\ s.come \subseteq s.members
      /\ s.gone \cap s.members = {}
      /\ s.pc = "sent" => s.come = s.members
      /\ s.pc = "apply" =>
           /\ ring[s.to].members \subseteq s.members \cup s.gone
           /\ s.members \subseteq ring[s.to].members \cup s.come
           /\ \A x \in syncs : x.pc = "apply" /\ x.to = s.to => x = s
      /\ c \in s.members /\ c \in ring[c].members
  BY DEF Orderly, Applying, StaysIn
<1>3. /\ s.pc = "apply" /\ op[c].pc \in {"sync", "rebalance", "done"} => s.to \notin op[c].applied
      /\ s.version <= Top(c)
  BY DEF Orderly, Issued, InEffect, NoneNewer
<1>4. config \in [Node -> Nat] /\ ring \in [Node -> Ring]
  BY DEF TypeOK
<1>5. CASE SyncStart(s) /\ s.version <= config[s.to]
  <2>1. ~(s.live /\ op[c].pc = "sync")
    BY <1>1, <1>4, <1>5 DEF Orderly, Waiting, Issued, Targets
  <2>2. EndSync(s) /\ UNCHANGED <<ring, config, rebalances, drains>>
    BY <1>5 DEF SyncStart
  <2>3. config[s.to] \in Nat
    BY <1>1, <1>4
  <2> QED
    BY <1>1, <1>5, <2>1, <2>2, <2>3, OrderlyAnswers
<1>6. CASE SyncStart(s) /\ ~(s.version <= config[s.to])
  <2> DEFINE y == [s EXCEPT !.pc = "apply", !.gone = ring[s.to].members \ s.members]
  <2>1. /\ y.by = s.by /\ y.to = s.to /\ y.live = s.live /\ y.version = s.version
        /\ y.members = s.members /\ y.pc = "apply" /\ y.come = s.come
        /\ y.gone = ring[s.to].members \ s.members
    BY <1>1 DEF Sync
  <2>2. /\ s.pc = "sent" /\ syncs' = (syncs \ {s}) \cup {y}
        /\ UNCHANGED <<ring, config, op, rebalances, drains>>
    BY <1>6 DEF SyncStart, Replace
  <2> HIDE DEF y
  <2>3. \A x \in syncs : x.pc = "apply" => x.to # s.to
    BY <1>6 DEF SyncStart
  <2>4. op[c].pc \in {"sync", "rebalance", "done"} => s.to \notin op[c].applied
    <3> SUFFICES ASSUME op[c].pc \in {"sync", "rebalance", "done"}, s.to \in op[c].applied
                 PROVE  FALSE
      OBVIOUS
    <3>1. config[s.to] = op[c].version
      BY DEF Orderly, Issued, InEffect
    <3>2. op[c].pc = "done" => config[c] = op[c].version
      BY DEF Orderly, Issued, InEffect
    <3>3. Top(c) = op[c].version
      BY <3>2 DEF Top
    <3> QED
      BY <1>3, <1>6, <3>1, <3>3
  <2> QED
    BY <1>2, <2>1, <2>2, <2>3, <2>4, OrderlyApplies
<1>7. CASE SyncRemove(s)
  <2> DEFINE m == FirstOf(s.gone, Nil)
             y == [s EXCEPT !.gone = s.gone \ {m}]
  <2>1. /\ y.by = s.by /\ y.to = s.to /\ y.live = s.live /\ y.version = s.version
        /\ y.members = s.members /\ y.pc = s.pc /\ y.come = s.come
        /\ y.gone = s.gone \ {m}
    BY <1>1 DEF Sync
  <2>2. /\ s.pc = "apply" /\ syncs' = (syncs \ {s}) \cup {y}
        /\ UNCHANGED <<config, op, rebalances, drains>>
    BY <1>7 DEF SyncRemove, Replace
  <2>3. m \in s.gone
    BY <1>1, <1>7, FirstIn DEF SyncRemove
  <2>4. /\ ring'[s.to] = RemoveFrom(ring[s.to], m)
        /\ \A n \in Node \ {s.to} : ring'[n] = ring[n]
    BY <1>1, <1>4, <1>7 DEF SyncRemove
  <2> HIDE DEF m, y
  <2>5. ring'[s.to].members = ring[s.to].members \ {m}
    BY <2>4 DEF RemoveFrom
  <2>6. c \in ring'[c].members
    BY <1>2, <2>3, <2>4, <2>5
  <2>7. /\ ring'[s.to].members \subseteq s.members \cup y.gone
        /\ s.members \subseteq ring'[s.to].members \cup y.come
        /\ y.come \subseteq s.members /\ y.gone \cap s.members = {}
    BY <1>2, <2>1, <2>2, <2>3, <2>5
  <2> QED
    BY <1>2, <1>3, <2>1, <2>2, <2>4, <2>6, <2>7, OrderlyApplies
<1>8. CASE SyncAdd(s)
  <2> DEFINE m == FirstOf(s.come, s.last)
             y == [s EXCEPT !.come = s.come \ {m}]
  <2>1. /\ y.by = s.by /\ y.to = s.to /\ y.live = s.live /\ y.version = s.version
        /\ y.members = s.members /\ y.pc = s.pc /\ y.gone = s.gone
        /\ y.come = s.come \ {m}
    BY <1>1 DEF Sync
  <2>2. /\ s.pc = "apply" /\ s.gone = {} /\ syncs' = (syncs \ {s}) \cup {y}
        /\ UNCHANGED <<config, op, rebalances, drains>>
    BY <1>8 DEF SyncAdd, Replace
  <2>3. m \in s.come
    BY <1>1, <1>8, FirstIn DEF SyncAdd
  <2>4. /\ ring'[s.to] = AddTo(ring[s.to], m)
        /\ \A n \in Node \ {s.to} : ring'[n] = ring[n]
    BY <1>1, <1>4, <1>8 DEF SyncAdd
  <2> HIDE DEF m, y
  <2>5. ring'[s.to].members = ring[s.to].members \cup {m}
    BY <2>4 DEF AddTo
  <2>6. c \in ring'[c].members
    BY <1>2, <2>4, <2>5
  <2>7. /\ ring'[s.to].members \subseteq s.members \cup y.gone
        /\ s.members \subseteq ring'[s.to].members \cup y.come
        /\ y.come \subseteq s.members /\ y.gone \cap s.members = {}
    BY <1>2, <2>1, <2>2, <2>3, <2>5
  <2> QED
    BY <1>2, <1>3, <2>1, <2>2, <2>4, <2>6, <2>7, OrderlyApplies
<1>9. CASE SyncEnd(s)
  <2>1. /\ s.pc = "apply" /\ s.gone = {} /\ s.come = {}
        /\ EndSync(s)
        /\ UNCHANGED <<ring, rebalances, drains>>
    BY <1>9 DEF SyncEnd
  <2>2. /\ config'[s.to] = s.version
        /\ \A n \in Node \ {s.to} : config'[n] = config[n]
    BY <1>1, <1>4, <1>9 DEF SyncEnd
  <2>3. ~(s.version < config[s.to])
    BY <1>9 DEF SyncEnd
  <2>4. ring[s.to].members = s.members
    BY <1>2, <2>1
  <2>5. s.version >= config[s.to] /\ s.version >= s.version
    BY <1>1, <1>4, <2>3
  <2> QED
    BY <1>1, <1>2, <1>3, <2>1, <2>2, <2>4, <2>5, OrderlyAnswers
<1>10. CASE SyncLost(s)
  <2> DEFINE y == [s EXCEPT !.live = FALSE]
  <2>1. /\ y.by = s.by /\ y.to = s.to /\ y.live = FALSE /\ y.version = s.version
        /\ y.members = s.members /\ y.pc = s.pc /\ y.come = s.come
        /\ y.gone = s.gone
    BY <1>1 DEF Sync
  <2>2. /\ s.live /\ syncs' \subseteq (syncs \ {s}) \cup {y}
        /\ CallFailed(c)
        /\ UNCHANGED <<ring, config, rebalances, drains>>
    BY <1>1, <1>10 DEF SyncLost, Replace
  <2> HIDE DEF y
  <2>3. op[c].pc # "undo"
    BY <1>1, <1>10 DEF SyncLost
  <2>4. op[c].pc = "sync"
    BY <2>2, <2>3 DEF Orderly, Waiting
  <2> QED
    BY <2>1, <2>2, <2>4, OrderlySyncLost
<1> QED
  BY <1>5, <1>6, <1>7, <1>8, <1>9, <1>10 DEF SyncStep

LEMMA OrderlyRebalanceStep ==
    ASSUME NEW c \in Node, TypeOK, Orderly(c), NEW t \in rebalances, RebalanceStep(t)
    PROVE  Orderly(c)'
<1>1. t \in Rebalance /\ t.by = c
  BY CallTypes DEF Orderly, Callers
<1>2. CASE RebalanceLost(t)
  <2> DEFINE y == [t EXCEPT !.live = FALSE]
  <2>1. y.by = t.by /\ y.live = FALSE
    BY <1>1 DEF Rebalance
  <2>2. /\ t.live /\ rebalances' \subseteq (rebalances \ {t}) \cup {y}
        /\ CallFailed(c)
        /\ UNCHANGED <<ring, config, syncs, drains>>
    BY <1>1, <1>2 DEF RebalanceLost, Replace
  <2> HIDE DEF y
  <2>3. op[c].pc = "rebalance"
    BY <2>2 DEF Orderly, Waiting
  <2> QED
    BY <2>1, <2>2, <2>3, OrderlyRebalanceLost
<1>3. ASSUME EndRebalance(t), UNCHANGED <<ring, config, syncs, drains>>
      PROVE  Orderly(c)'
  BY <1>3, OrderlyRebalanced
<1>4. ASSUME NEW y, y.by = t.by, y.live = t.live, rebalances' = (rebalances \ {t}) \cup {y},
             UNCHANGED <<ring, config, op, syncs, drains>>
      PROVE  Orderly(c)'
  <2>1. \E x \in rebalances : \E z :
          /\ rebalances' = (rebalances \ {x}) \cup {z}
          /\ z.by = x.by /\ z.live = x.live
    BY <1>4
  <2> QED
    BY <1>4, <2>1, OrderlyQuiet
<1>5. CASE RebalanceRead(t)
  <2>1. CASE store[t.at] = 0
    BY <1>3, <1>5, <2>1 DEF RebalanceRead
  <2>2. CASE store[t.at] # 0
    <3> DEFINE y == [t EXCEPT !.pc = "read", !.value = store[t.at]]
    <3>1. y.by = t.by /\ y.live = t.live
      BY <1>1 DEF Rebalance
    <3>2. rebalances' = (rebalances \ {t}) \cup {y} /\ UNCHANGED <<ring, config, op, syncs, drains>>
      BY <1>5, <2>2 DEF RebalanceRead, Replace
    <3> HIDE DEF y
    <3> QED
      BY <1>4, <3>1, <3>2
  <2> QED
    BY <2>1, <2>2
<1>6. CASE RebalanceStart(t)
  <2> DEFINE R == GetN(ring[t.at], replicas)
             y == [t EXCEPT !.pc = "push", !.to = R, !.left = R \ {t.at}]
  <2>1. y.by = t.by /\ y.live = t.live
    <3> HIDE DEF R
    <3> QED
      BY <1>1 DEF Rebalance
  <2>2. rebalances' = (rebalances \ {t}) \cup {y} /\ UNCHANGED <<ring, config, op, syncs, drains>>
    BY <1>6 DEF RebalanceStart, Replace
  <2> HIDE DEF y
  <2> QED
    BY <1>4, <2>1, <2>2
<1>7. ASSUME NEW p \in Node, RebalancePush(t, p)
      PROVE  Orderly(c)'
  <2> DEFINE y == [t EXCEPT !.left = @ \ {p}, !.copied = @ \cup {p}]
  <2>1. y.by = t.by /\ y.live = t.live
    BY <1>1 DEF Rebalance
  <2>2. rebalances' = (rebalances \ {t}) \cup {y} /\ UNCHANGED <<ring, config, op, syncs, drains>>
    BY <1>7 DEF RebalancePush, Replace
  <2> HIDE DEF y
  <2> QED
    BY <1>4, <2>1, <2>2
<1>8. ASSUME NEW p \in Node, RebalancePushFails(t, p)
      PROVE  Orderly(c)'
  <2> DEFINE y == [t EXCEPT !.left = @ \ {p}]
  <2>1. y.by = t.by /\ y.live = t.live
    BY <1>1 DEF Rebalance
  <2>2. rebalances' = (rebalances \ {t}) \cup {y} /\ UNCHANGED <<ring, config, op, syncs, drains>>
    BY <1>8 DEF RebalancePushFails, Replace
  <2> HIDE DEF y
  <2> QED
    BY <1>4, <2>1, <2>2
<1>9. CASE RebalanceEnd(t)
  BY <1>3, <1>9 DEF RebalanceEnd
<1> QED
  BY <1>2, <1>5, <1>6, <1>7, <1>8, <1>9 DEF RebalanceStep

LEMMA OrderlyDrainStep ==
    ASSUME NEW c \in Node, TypeOK, Orderly(c), NEW d \in drains, DrainStep(d)
    PROVE  Orderly(c)'
<1>1. d \in Drain
  BY CallTypes
<1>2. ASSUME NEW y, y.by = d.by, y.future = d.future, drains' = (drains \ {d}) \cup {y},
             UNCHANGED <<ring, config, op, syncs, rebalances>>
      PROVE  Orderly(c)'
  <2>1. \E x \in drains : \E z :
          /\ drains' = (drains \ {x}) \cup {z}
          /\ z.by = x.by /\ z.future = x.future
    BY <1>2
  <2> QED
    BY <1>2, <2>1, OrderlyQuiet
<1>3. CASE DrainStart(d)
  <2> DEFINE L == IF store[d.at] = 0 THEN {} ELSE GetN(NewRing(d.future), replicas)
             y == [d EXCEPT !.pc = "push", !.value = store[d.at], !.left = L]
  <2>1. y.by = d.by /\ y.future = d.future
    <3> HIDE DEF L
    <3> QED
      BY <1>1 DEF Drain
  <2>2. drains' = (drains \ {d}) \cup {y} /\ UNCHANGED <<ring, config, op, syncs, rebalances>>
    BY <1>3 DEF DrainStart, Replace
  <2> HIDE DEF y
  <2> QED
    BY <1>2, <2>1, <2>2
<1>4. ASSUME NEW p \in Node, DrainPush(d, p)
      PROVE  Orderly(c)'
  <2> DEFINE y == [d EXCEPT !.left = @ \ {p}]
  <2>1. y.by = d.by /\ y.future = d.future
    BY <1>1 DEF Drain
  <2>2. drains' = (drains \ {d}) \cup {y} /\ UNCHANGED <<ring, config, op, syncs, rebalances>>
    BY <1>4 DEF DrainPush, Replace
  <2> HIDE DEF y
  <2> QED
    BY <1>2, <2>1, <2>2
<1> QED
  BY <1>3, <1>4, OrderlyDrained DEF DrainStep

LEMMA OrderlyStep ==
    ASSUME NEW c \in Node, CoordinatorStays, Coordinators = {c}, TypeOK,
           disturbed = {} => Orderly(c), [Next]_vars
    PROVE  disturbed' = {} => Orderly(c)'
<1>1. CASE UNCHANGED vars
  BY <1>1 DEF vars, calls, counts, Orderly, Callers, StaysIn, Applying, Waiting, Issued,
              NoneNewer, Top, Targets, InEffect, UndoReaches
<1>2. CASE Next
  <2> SUFFICES ASSUME disturbed' = {}
               PROVE  Orderly(c)'
    OBVIOUS
  <2>1. Orderly(c) /\ \A n \in Node : ~Restart(n)
    BY <1>2, DisturbedGrows
  <2>2. TypeOK'
    BY NextType
  <2>3. ASSUME NEW v \in Version, WriteStep(v)
        PROVE  Orderly(c)'
    <3>1. UNCHANGED <<ring, config, op, syncs, rebalances, drains>>
      BY <2>3 DEF WriteStep, StartWrite, PutReply, PutError, LateDelivery, FinishWrite, calls
    <3> QED
      BY <2>1, <3>1, OrderlyQuiet
  <2>4. ASSUME NEW n \in Node, NEW r \in Node, FlushHint(n, r)
        PROVE  Orderly(c)'
    <3>1. UNCHANGED <<ring, config, op, syncs, rebalances, drains>>
      BY <2>4 DEF FlushHint, calls
    <3> QED
      BY <2>1, <3>1, OrderlyQuiet
  <2> QED
    BY <1>2, <2>1, <2>2, <2>3, <2>4, OrderlyChangeStep, OrderlySyncStep,
       OrderlyRebalanceStep, OrderlyDrainStep DEF Next
<1> QED
  BY <1>1, <1>2

LEMMA OrderlyInit ==
    ASSUME NEW c \in Node, CoordinatorStays, Coordinators = {c}, Init
    PROVE  Orderly(c)
<1>1. op[c].pc = "idle" /\ op[c].busy = FALSE /\ \A n \in Node : op[n] = NoChange
  BY DEF Init, NoChange
<1>2. c \in ring[c].members
  BY NewRingType, MemberAssumption DEF Init, CoordinatorStays
<1> QED
  BY <1>1, <1>2 DEF Init, Orderly, Callers, StaysIn, Applying, Waiting, Issued,
              NoneNewer, Top, Targets, InEffect, UndoReaches

\* A change of the only coordinator that succeeds is in effect at every member, whatever
\* failed before it, unless a node was disturbed; the coordinator must be a member that
\* is never removed (applyClusterConfig, compensateClusterConfig,
\* handleMembershipSync).
THEOREM ChangesTakeEffect ==
    ASSUME CoordinatorStays
    PROVE  Spec => []ChangeAgreed
<1> DEFINE Calm == \A c \in Node : Coordinators = {c} /\ disturbed = {} => Orderly(c)
<1>1. Init => Calm
  BY OrderlyInit
<1>2. TypeOK /\ Calm /\ [Next]_vars => Calm'
  BY OrderlyStep
<1>3. Calm => ChangeAgreed
  BY DEF ChangeAgreed, Undisturbed, Orderly, Issued, InEffect
<1> HIDE DEF Calm
<1> QED
  BY <1>1, <1>2, <1>3, MembershipTypeCorrect, PTL DEF Spec

-----------------------------------------------------------------------------
(* Changes that succeed keep what was acknowledged *)

LEMMA GetNMembers ==
    ASSUME NEW r, Exact(r), NEW k
    PROVE  GetN(r, k) \subseteq r.members
BY DEF GetN, Exact

\* The walk finds a replica in every ring that has a member.
LEMMA GetNSome ==
    ASSUME NEW r, Exact(r), r.members # {}, NEW k \in Nat \ {0}
    PROVE  GetN(r, k) # {}
<1> DEFINE Taken == {q \in Position : r.owner[q] # Nil}
           Reach == {Clockwise(q) : q \in Taken}
<1>1. r.members \subseteq Node /\ r.owner \in [Position -> Node \cup {Nil}]
  BY DEF Exact, Ring
<1>2. \E q \in Taken : TRUE
  <2>1. PICK m \in r.members : m \in Node
    BY <1>1
  <2>2. PICK q \in points[m] : q \in Position
    BY <2>1, RingAssumption
  <2>3. r.owner[q] = m
    BY <2>1, <2>2 DEF Exact
  <2> QED
    BY <2>1, <2>2, <2>3, RingAssumption
<1>3. Reach \subseteq Nat /\ Reach # {}
  BY <1>2, ClockwiseNat
<1>4. PICK x \in Reach : \A y \in Reach : x <= y
  <2> HIDE DEF Reach
  <2> QED
    BY <1>3, LeastNatural
<1>5. PICK p \in Taken : Clockwise(p) = x
  BY <1>4
<1>6. \A q \in Taken : Clockwise(p) <= Clockwise(q)
  BY <1>4, <1>5
<1>7. r.owner[p] \in Node /\ p \in Position
  BY <1>1, <1>5
<1>8. MetBefore(r, r.owner[p], p) = {}
  <2> SUFFICES ASSUME NEW q \in Position, Clockwise(q) < Clockwise(p), r.owner[q] # Nil
               PROVE  FALSE
    BY DEF MetBefore, Nearer
  <2>1. Clockwise(q) \in Nat /\ Clockwise(p) \in Nat
    BY <1>7, ClockwiseNat
  <2> QED
    BY <1>6, <2>1
<1>9. Cardinality(MetBefore(r, r.owner[p], p)) < k
  BY <1>8, FS_EmptySet
<1> QED
  BY <1>7, <1>9 DEF GetN

\* Node r has v or something newer, or a hint of it waits for r.
KeptAt(r, v) == store[r] >= v \/ \E h \in Node : hints[h][r] >= v

\* Where the new configuration of c places the key.
NewReplicas(c) == GetN(NewRing(op[c].next), replicas)

LEMMA NewReplicasNodes ==
    ASSUME NEW c
    PROVE  NewReplicas(c) \subseteq Node
BY GetNNodes DEF NewReplicas

\* Rebalance t will bring v to the new replicas, or has done so.
Brings(c, t, v) ==
    \/ t.pc = "sent" /\ store[t.at] >= v
    \/ t.pc = "read" /\ store[t.at] >= v /\ t.value >= v
    \/ /\ t.pc = "push" /\ t.value >= v
       /\ t.to = NewReplicas(c)
       /\ \A r \in t.to : r \in t.left \/ KeptAt(r, v)

\* Drain d leaves v with a member of the new configuration.
Copies(c, d, v) ==
    \/ \E n \in op[c].next : store[n] >= v
    \/ d.pc = "sent" /\ store[d.at] >= v
    \/ /\ d.pc = "push" /\ d.value >= v
       /\ \A r \in NewReplicas(c) : r \in d.left \/ store[r] >= v

\* Where v is in each phase of the change of c.
Carried(c, v) ==
    /\ op[c].pc = "drain" => \A d \in drains : Copies(c, d, v)
    /\ op[c].pc = "sync" => \E n \in op[c].next : store[n] >= v
    /\ op[c].pc = "rebalance" => \/ \A r \in NewReplicas(c) : KeptAt(r, v)
                                 \/ \E n \in op[c].left : store[n] >= v
                                 \/ \E t \in rebalances : Brings(c, t, v)
    /\ op[c].pc = "done" => \A r \in NewReplicas(c) : KeptAt(r, v)

\* Rebalances and drains belong to the change that is going on.
Movers(c) ==
    /\ op[c].floor # {} /\ op[c].pc # "undo" => \A t \in rebalances : t.live
    /\ op[c].pc = "rebalance" =>
         /\ op[c].left \subseteq op[c].next
         /\ \A t \in rebalances : t.live => t.at \in op[c].next \ op[c].left
    /\ \A d \in drains : d.future = op[c].next

\* The invariant.
Keeps(c) == Movers(c) /\ \A v \in op[c].floor : Carried(c, v)

\* No value and no hint becomes older.
Grows ==
    /\ \A n \in Node : store'[n] >= store[n]
    /\ \A r \in Node, v \in Version : KeptAt(r, v) => KeptAt(r, v)'

\* Versions are natural numbers.
LEMMA Naturals ==
    ASSUME TypeOK
    PROVE  /\ store \in [Node -> Value] /\ hints \in [Node -> [Node -> Value]]
           /\ \A n \in Node : store[n] \in Nat
           /\ \A h, r \in Node : hints[h][r] \in Nat
           /\ \A v \in Version : v \in Nat
BY ValueType DEF TypeOK

LEMMA GrowsSame ==
    ASSUME TypeOK, UNCHANGED <<store, hints>>
    PROVE  Grows
BY Naturals DEF Grows, KeptAt

LEMMA GrowsSet ==
    ASSUME TypeOK, NEW n \in Node, NEW u \in Value, SetStore(n, u), UNCHANGED hints
    PROVE  Grows /\ store'[n] >= u
<1>1. \A x \in Node : store'[x] = IF x = n THEN (IF u > store[x] THEN u ELSE store[x])
                                  ELSE store[x]
  BY Naturals DEF SetStore
<1>2. u \in Nat
  BY ValueType
<1>3. /\ \A x \in Node : store'[x] >= store[x] /\ store'[x] \in Nat
      /\ store'[n] >= u
  BY <1>1, <1>2, Naturals
<1> QED
  BY <1>3, Naturals DEF Grows, KeptAt

LEMMA GrowsHint ==
    ASSUME TypeOK, NEW n \in Node, NEW p \in Node, NEW u \in Value, AddHint(n, p, u),
           UNCHANGED store
    PROVE  Grows /\ KeptAt(p, u)'
<1>1. u \in Nat
  BY ValueType
<1>2. \A h, r \in Node : hints'[h][r] = IF h = n /\ r = p
                                        THEN (IF u > hints[h][r] THEN u ELSE hints[h][r])
                                        ELSE hints[h][r]
  BY Naturals DEF AddHint
<1>3. /\ \A h, r \in Node : hints'[h][r] >= hints[h][r] /\ hints'[h][r] \in Nat
      /\ hints'[n][p] >= u
  BY <1>1, <1>2, Naturals
<1> QED
  BY <1>3, Naturals DEF Grows, KeptAt

LEMMA GrowsFlush ==
    ASSUME TypeOK, NEW n \in Node, NEW p \in Node, FlushHint(n, p)
    PROVE  Grows
<1> DEFINE u == hints[n][p]
<1>1. u \in Nat
  BY Naturals
<1>2. \A x \in Node : store'[x] = IF x = p THEN (IF u > store[x] THEN u ELSE store[x])
                                  ELSE store[x]
  BY Naturals DEF FlushHint, SetStore
<1>3. \A h, r \in Node : hints'[h][r] = IF h = n /\ r = p THEN 0 ELSE hints[h][r]
  BY Naturals DEF FlushHint
<1>4. /\ \A x \in Node : store'[x] >= store[x] /\ store'[x] \in Nat
      /\ store'[p] >= u
  BY <1>1, <1>2, Naturals
<1>5. ASSUME NEW r \in Node, NEW v \in Version, KeptAt(r, v)
      PROVE  KeptAt(r, v)'
  <2>1. CASE store[r] >= v
    BY <1>4, <2>1, Naturals DEF KeptAt
  <2>2. ASSUME NEW h \in Node, hints[h][r] >= v
        PROVE  KeptAt(r, v)'
    <3>1. CASE h = n /\ r = p
      BY <1>1, <1>4, <2>2, <3>1, Naturals DEF KeptAt
    <3>2. CASE ~(h = n /\ r = p)
      BY <1>3, <2>2, <3>2 DEF KeptAt
    <3> QED
      BY <3>1, <3>2
  <2> QED
    BY <1>5, <2>1, <2>2 DEF KeptAt
<1> QED
  BY <1>4, <1>5 DEF Grows

\* What was new enough stays so.
LEMMA GrowsKeeps ==
    ASSUME TypeOK, TypeOK', Grows, NEW n \in Node, NEW v \in Version
    PROVE  /\ store[n] >= v => store'[n] >= v
           /\ KeptAt(n, v) => KeptAt(n, v)'
<1>1. store[n] \in Nat /\ store'[n] \in Nat /\ v \in Nat
  BY Naturals, ValueType DEF TypeOK
<1> QED
  BY <1>1 DEF Grows

LEMMA FloorVersions ==
    ASSUME TypeOK, NEW c \in Node
    PROVE  /\ op[c].floor \subseteq Version /\ op[c].next \subseteq Node
           /\ op[c].left \subseteq Node
BY OpType, ChangeFields

\* Steps that have no part in a change.
LEMMA KeepsQuiet ==
    ASSUME NEW c \in Node, TypeOK, TypeOK', Keeps(c), Grows,
           UNCHANGED <<op, rebalances, drains>>
    PROVE  Keeps(c)'
<1>1. Movers(c)'
  BY DEF Keeps, Movers
<1>2. NewReplicas(c)' = NewReplicas(c)
  BY DEF NewReplicas
<1>3. ASSUME NEW v \in op[c].floor
      PROVE  Carried(c, v)'
  <2>1. v \in Version /\ Carried(c, v)
    BY FloorVersions DEF Keeps
  <2>2. ASSUME NEW d \in drains, Copies(c, d, v)
        PROVE  Copies(c, d, v)'
    <3>1. d.at \in Node
      BY CallTypes, DrainFields
    <3> QED
      BY <1>2, <2>1, <2>2, <3>1, FloorVersions, NewReplicasNodes, GrowsKeeps DEF Copies
  <2>3. ASSUME NEW t \in rebalances, Brings(c, t, v)
        PROVE  Brings(c, t, v)'
    <3>1. t.at \in Node /\ t.to \subseteq Node
      BY CallTypes, RebalanceFields
    <3> QED
      BY <1>2, <2>1, <2>3, <3>1, GrowsKeeps DEF Brings
  <2>4. (\A r \in NewReplicas(c) : KeptAt(r, v)) => \A r \in NewReplicas(c) : KeptAt(r, v)'
    BY <2>1, NewReplicasNodes, GrowsKeeps
  <2>5. ASSUME NEW n \in Node, store[n] >= v
        PROVE  store'[n] >= v
    BY <2>1, <2>5, GrowsKeeps
  <2> QED
    BY <1>2, <2>1, <2>2, <2>3, <2>4, <2>5, FloorVersions DEF Carried
<1> QED
  BY <1>1, <1>3 DEF Keeps

\* A change that is undone or given up keeps nothing.
LEMMA KeepsNothing ==
    ASSUME NEW c \in Node, drains' = {},
           op'[c].pc = "undo" \/ op'[c] = NoChange
    PROVE  Keeps(c)'
<1>1. op'[c].pc = "undo" \/ (op'[c].pc = "idle" /\ op'[c].floor = {})
  BY DEF NoChange
<1> QED
  BY <1>1 DEF Keeps, Movers, Carried

\* The coordinator makes calls of its first phase, or gets answers to them.
LEMMA KeepsSyncs ==
    ASSUME NEW c \in Node, TypeOK, TypeOK', Keeps(c), op[c].pc \in {"sync", "undo"},
           op'[c].pc = op[c].pc, op'[c].next = op[c].next, op'[c].floor = op[c].floor,
           UNCHANGED <<store, rebalances, drains>>
    PROVE  Keeps(c)'
BY DEF Keeps, Movers, Carried

\* What a change has to keep is held by a member when it begins.
LEMMA FloorHeld ==
    ASSUME NEW M, NEW v \in Floor(M)
    PROVE  rebalances = {} /\ \E n \in M : store[n] >= v
BY DEF Floor

\* An addition begins.
LEMMA KeepsAdd ==
    ASSUME NEW c \in Node, Coordinators = {c}, TypeOK, Orderly(c), NEW k \in Node,
           NEW m \in Node, AddMember(k, m)
    PROVE  Keeps(c)'
<1> DEFINE current == ring[c].members
           next == current \cup {m}
           o == [pc |-> "sync", member |-> m, last |-> m, prev |-> current, next |-> next,
                 version |-> config[c] + 1, left |-> next, applied |-> {},
                 busy |-> FALSE, floor |-> Floor(current)]
<1>1. op[c].pc \in {"idle", "done"} /\ SetOp(c, o) /\ UNCHANGED <<store, rebalances, drains>>
  BY DEF AddMember, CanChange, SyncPhase, calls, data
<1>2. o.pc = "sync" /\ o.next = next /\ o.floor = Floor(current)
  OBVIOUS
<1>3. drains = {}
  BY <1>1 DEF Orderly, Waiting
<1>4. Floor(current) # {} => rebalances = {}
  BY FloorHeld
<1>5. \A v \in Floor(current) : \E n \in next : store[n] >= v
  BY FloorHeld
<1> HIDE DEF o, next, current
<1>6. op'[c] = o
  BY <1>1, OpSet
<1> QED
  BY <1>1, <1>2, <1>3, <1>4, <1>5, <1>6 DEF Keeps, Movers, Carried

\* A removal begins.
LEMMA KeepsRemove ==
    ASSUME NEW c \in Node, Coordinators = {c}, TypeOK, Orderly(c), NEW k \in Node,
           NEW m \in Node, RemoveMember(k, m)
    PROVE  Keeps(c)'
<1> DEFINE current == ring[c].members
           next == current \ {m}
           o == [pc |-> "drain", member |-> m, last |-> Nil, prev |-> current,
                 next |-> next, version |-> 0, left |-> {}, applied |-> {},
                 busy |-> TRUE, floor |-> Floor(current)]
           d == [by |-> c, at |-> m, pc |-> "sent", future |-> next,
                 value |-> 0, left |-> {}]
<1>1. /\ op[c].pc \in {"idle", "done"} /\ SetOp(c, o) /\ drains' = drains \cup {d}
      /\ UNCHANGED <<store, rebalances>>
  BY DEF RemoveMember, CanChange, data
<1>2. /\ o.pc = "drain" /\ o.next = next /\ o.floor = Floor(current)
      /\ d.at = m /\ d.pc = "sent" /\ d.future = next
  OBVIOUS
<1>3. drains = {}
  BY <1>1 DEF Orderly, Waiting
<1>4. Floor(current) # {} => rebalances = {}
  BY FloorHeld
<1>5. \A v \in Floor(current) : store[m] >= v \/ \E n \in next : store[n] >= v
  BY FloorHeld
<1> HIDE DEF o, d, next, current
<1>6. op'[c] = o
  BY <1>1, OpSet
<1> QED
  BY <1>1, <1>2, <1>3, <1>4, <1>5, <1>6 DEF Keeps, Movers, Carried, Copies

\* The rebalances begin.
LEMMA KeepsRebalancePhase ==
    ASSUME NEW c \in Node, TypeOK, Orderly(c), Keeps(c), RebalancePhase(c)
    PROVE  Keeps(c)'
<1> DEFINE x == [op[c] EXCEPT !.pc = "rebalance", !.left = op[c].next]
<1>1. /\ x.pc = "rebalance" /\ x.next = op[c].next /\ x.floor = op[c].floor
      /\ x.left = op[c].next
  BY OpType DEF Change
<1>2. /\ SetOp(c, x) /\ op[c].pc = "sync" /\ ~op[c].busy
      /\ UNCHANGED <<store, rebalances, drains>>
  BY DEF RebalancePhase, calls, data
<1>3. drains = {} /\ \A t \in rebalances : ~t.live
  BY <1>2 DEF Orderly, Waiting
<1> HIDE DEF x
<1>4. op'[c] = x
  BY <1>2, OpSet
<1>5. Movers(c)'
  BY <1>1, <1>2, <1>3, <1>4 DEF Keeps, Movers
<1>6. \A v \in op[c].floor : \E n \in op[c].next : store[n] >= v
  BY <1>2 DEF Keeps, Carried
<1> QED
  BY <1>1, <1>2, <1>4, <1>5, <1>6 DEF Keeps, Carried

\* The coordinator asks the next target to rebalance.
LEMMA KeepsCallRebalance ==
    ASSUME NEW c \in Node, TypeOK, Orderly(c), Keeps(c), CallRebalance(c)
    PROVE  Keeps(c)'
<1> DEFINE t == FirstOf(op[c].left, op[c].last)
           b == [by |-> c, at |-> t, live |-> TRUE, pc |-> "sent", value |-> 0,
                 to |-> {}, left |-> {}, copied |-> {}]
<1>1. /\ op[c].pc = "rebalance" /\ ~op[c].busy
      /\ rebalances' = rebalances \cup {b}
      /\ SetOp(c, [op[c] EXCEPT !.busy = TRUE, !.left = op[c].left \ {t}])
      /\ UNCHANGED <<store, hints, drains>>
  BY DEF CallRebalance, data
<1>2. t \in op[c].left
  BY OpType, ChangeFields, FirstIn DEF CallRebalance
<1>3. b.at = t /\ b.live = TRUE /\ b.pc = "sent"
  OBVIOUS
<1> HIDE DEF t, b
<1>4. /\ op'[c].pc = "rebalance" /\ op'[c].next = op[c].next /\ op'[c].floor = op[c].floor
      /\ op'[c].left = op[c].left \ {t}
  BY <1>1, OpCalls
<1>5. drains = {} /\ \A x \in rebalances : ~x.live
  BY <1>1 DEF Orderly, Waiting
<1>6. Movers(c)'
  BY <1>1, <1>2, <1>3, <1>4, <1>5 DEF Keeps, Movers
<1>7. ASSUME NEW v \in op[c].floor
      PROVE  Carried(c, v)'
  <2>1. rebalances = {}
    BY <1>1, <1>5, <1>7 DEF Keeps, Movers
  <2>2. NewReplicas(c)' = NewReplicas(c)
    BY <1>4 DEF NewReplicas
  <2>3. \/ \A r \in NewReplicas(c) : KeptAt(r, v)
        \/ \E n \in op[c].left : store[n] >= v
    BY <1>1, <2>1 DEF Keeps, Carried
  <2>4. CASE \A r \in NewReplicas(c) : KeptAt(r, v)
    BY <1>1, <1>4, <2>2, <2>4 DEF Carried, KeptAt
  <2>5. ASSUME NEW n \in op[c].left, store[n] >= v
        PROVE  Carried(c, v)'
    <3>1. CASE n # t
      BY <1>1, <1>4, <2>5, <3>1 DEF Carried
    <3>2. CASE n = t
      BY <1>1, <1>3, <1>4, <2>5, <3>2 DEF Carried, Brings
    <3> QED
      BY <3>1, <3>2
  <2> QED
    BY <2>3, <2>4, <2>5
<1> QED
  BY <1>4, <1>6, <1>7 DEF Keeps

\* The change is over.
LEMMA KeepsChangeDone ==
    ASSUME NEW c \in Node, TypeOK, Orderly(c), Keeps(c), ChangeDone(c)
    PROVE  Keeps(c)'
<1> DEFINE x == [op[c] EXCEPT !.pc = "done"]
<1>1. x.pc = "done" /\ x.next = op[c].next /\ x.floor = op[c].floor
  BY OpType DEF Change
<1>2. /\ SetOp(c, x) /\ op[c].pc = "rebalance" /\ ~op[c].busy /\ op[c].left = {}
      /\ UNCHANGED <<store, hints, rebalances, drains>>
  BY DEF ChangeDone, calls, data
<1>3. drains = {} /\ \A t \in rebalances : ~t.live
  BY <1>2 DEF Orderly, Waiting
<1> HIDE DEF x
<1>4. op'[c] = x
  BY <1>2, OpSet
<1>5. Movers(c)'
  BY <1>1, <1>2, <1>3, <1>4 DEF Keeps, Movers
<1>6. ASSUME NEW v \in op[c].floor
      PROVE  \A r \in NewReplicas(c) : KeptAt(r, v)
  <2>1. rebalances = {}
    BY <1>2, <1>3, <1>6 DEF Keeps, Movers
  <2> QED
    BY <1>2, <1>6, <2>1 DEF Keeps, Carried
<1>7. NewReplicas(c)' = NewReplicas(c)
  BY <1>1, <1>4 DEF NewReplicas
<1> QED
  BY <1>1, <1>2, <1>4, <1>5, <1>6, <1>7 DEF Keeps, Carried, KeptAt

LEMMA KeepsChangeStep ==
    ASSUME NEW c \in Node, Coordinators = {c}, TypeOK, TypeOK', Orderly(c), Keeps(c),
           NEW k \in Node, ChangeStep(k)
    PROVE  Keeps(c)'
<1>1. CASE \E m \in Node : AddMember(k, m) \/ RemoveMember(k, m)
  BY <1>1, KeepsAdd, KeepsRemove
<1>2. CASE k # c /\ ~(\E m \in Node : AddMember(k, m) \/ RemoveMember(k, m))
  <2>1. op[k].pc = "idle" /\ ~op[k].busy
    BY <1>2 DEF Orderly, Callers, NoChange
  <2> QED
    BY <1>2, <2>1 DEF ChangeStep, CallSync, RebalancePhase, CallRebalance, ChangeDone,
                      UndoDone, CallBroken
<1>3. CASE CallSync(c)
  <2>1. /\ op[c].pc \in {"sync", "undo"}
        /\ UNCHANGED <<store, rebalances, drains>>
        /\ \E t : SetOp(c, [op[c] EXCEPT !.busy = TRUE, !.left = op[c].left \ {t}])
    BY <1>3 DEF CallSync, data
  <2>2. op'[c].pc = op[c].pc /\ op'[c].next = op[c].next /\ op'[c].floor = op[c].floor
    BY <2>1, OpCalls
  <2> QED
    BY <2>1, <2>2, KeepsSyncs
<1>4. CASE UndoDone(c)
  <2>1. op'[c] = NoChange /\ drains' = drains /\ op[c].pc = "undo"
    BY <1>4, OpSet DEF UndoDone, calls
  <2>2. drains = {}
    BY <2>1 DEF Orderly, Waiting
  <2> QED
    BY <2>1, <2>2, KeepsNothing
<1>5. CASE k = c /\ ~(\E m \in Node : AddMember(k, m) \/ RemoveMember(k, m))
  BY <1>3, <1>4, <1>5, KeepsRebalancePhase, KeepsCallRebalance, KeepsChangeDone,
     OrderlyNoBreak DEF ChangeStep
<1> QED
  BY <1>1, <1>2, <1>5

LEMMA KeepsSyncStep ==
    ASSUME NEW c \in Node, TypeOK, TypeOK', Orderly(c), Keeps(c), disturbed' = {},
           NEW s \in syncs, SyncStep(s)
    PROVE  Keeps(c)'
<1>1. UNCHANGED <<store, hints, rebalances, drains>> /\ s.by = c
  BY DEF SyncStep, SyncStart, SyncRemove, SyncAdd, SyncEnd, SyncLost, data, Orderly, Callers
<1>2. CASE UNCHANGED op
  BY <1>1, <1>2, GrowsSame, KeepsQuiet
<1>3. CASE EndSync(s) /\ s.live
  <2>1. op[c].pc \in {"sync", "undo"}
    BY <1>3 DEF Orderly, Waiting
  <2>2. Returned(c, s.to)
    BY <1>1, <1>3 DEF EndSync
  <2> QED
    BY <1>1, <2>1, <2>2, OpReturns, KeepsSyncs
<1>4. CASE SyncLost(s)
  <2>1. s.live /\ CallFailed(c)
    BY <1>1, <1>4 DEF SyncLost
  <2>2. op[c].pc \in {"sync", "undo"} /\ drains = {}
    BY <2>1 DEF Orderly, Waiting
  <2>3. op[c].pc # "undo"
    BY <1>1, <1>4 DEF SyncLost
  <2>4. op'[c].pc = "undo"
    BY <2>1, <2>2, <2>3, OpUndoes
  <2> QED
    BY <1>1, <2>2, <2>4, KeepsNothing
<1> QED
  BY <1>2, <1>3, <1>4 DEF SyncStep, SyncStart, SyncRemove, SyncAdd, SyncEnd, EndSync

\* In the second phase every target places the key as the new configuration does.
LEMMA TargetsPlace ==
    ASSUME NEW c \in Node, NoCollision, TypeOK, RingsExact, Orderly(c),
           op[c].pc = "rebalance", NEW n \in op[c].next
    PROVE  GetN(ring[n], replicas) = NewReplicas(c)
<1>1. n \in Node /\ op[c].next \subseteq Node
  BY FloorVersions
<1>2. ring[n].members = op[c].next
  BY DEF Orderly, Issued, InEffect
<1>3. Exact(ring[n]) /\ Exact(NewRing(op[c].next))
  BY <1>1, NewRingExact DEF RingsExact
<1>4. NewRing(op[c].next).members = op[c].next
  BY <1>1, NewRingType
<1> QED
  BY <1>2, <1>3, <1>4, ExactPlacement DEF NewReplicas

\* While a change has something to keep, the rebalance it waits for is the only one.
LEMMA OnlyRebalance ==
    ASSUME NEW c \in Node, TypeOK, Orderly(c), Keeps(c), NEW t \in rebalances,
           NEW v \in op[c].floor, op[c].pc # "undo"
    PROVE  /\ op[c].pc = "rebalance" /\ t.live /\ rebalances = {t}
           /\ t.at \in op[c].next \ op[c].left
<1>1. \A x \in rebalances : x.live
  BY DEF Keeps, Movers
<1>2. rebalances = {t} /\ op[c].pc = "rebalance"
  BY <1>1 DEF Orderly, Waiting
<1> QED
  BY <1>1, <1>2 DEF Keeps, Movers

\* A rebalance goes on.
LEMMA KeepsMove ==
    ASSUME NEW c \in Node, TypeOK, TypeOK', Orderly(c), Keeps(c), Grows,
           NEW t \in rebalances, NEW y, rebalances' = (rebalances \ {t}) \cup {y},
           y.at = t.at, y.live = t.live, UNCHANGED <<op, drains>>,
           \A v \in Version : Brings(c, t, v) /\ t.at \in op[c].next /\ op[c].pc = "rebalance"
                                => Brings(c, y, v)'
    PROVE  Keeps(c)'
<1>1. Movers(c)'
  BY DEF Keeps, Movers
<1>2. ASSUME NEW v \in op[c].floor
      PROVE  Carried(c, v)'
  <2>1. v \in Version /\ Carried(c, v)
    BY FloorVersions DEF Keeps
  <2>2. CASE op[c].pc = "undo"
    BY <2>2 DEF Carried
  <2>3. CASE op[c].pc # "undo"
    <3>1. /\ op[c].pc = "rebalance" /\ rebalances = {t} /\ t.at \in op[c].next
          /\ rebalances' = {y}
      BY <2>3, OnlyRebalance
    <3>2. CASE \A r \in NewReplicas(c) : KeptAt(r, v)
      <4>1. \A r \in NewReplicas(c) : KeptAt(r, v)'
        BY <2>1, <3>2, NewReplicasNodes, GrowsKeeps
      <4>2. NewReplicas(c)' = NewReplicas(c)
        BY DEF NewReplicas
      <4> QED
        BY <3>1, <4>1, <4>2 DEF Carried
    <3>3. ASSUME NEW n \in op[c].left, store[n] >= v
          PROVE  Carried(c, v)'
      <4>1. store'[n] >= v
        BY <2>1, <3>3, FloorVersions, GrowsKeeps
      <4> QED
        BY <3>1, <4>1 DEF Carried
    <3>4. CASE Brings(c, t, v)
      <4>1. Brings(c, y, v)'
        BY <2>1, <3>1, <3>4
      <4> QED
        BY <3>1, <4>1 DEF Carried
    <3> QED
      BY <2>1, <3>1, <3>2, <3>3, <3>4 DEF Carried
  <2> QED
    BY <2>2, <2>3
<1> QED
  BY <1>1, <1>2 DEF Keeps

\* A rebalance is over: what it brought is everywhere now, and it removed no copy that
\* counts.
LEMMA KeepsRebalanced ==
    ASSUME NEW c \in Node, TypeOK, TypeOK', Orderly(c), Keeps(c),
           NEW t \in rebalances, EndRebalance(t), UNCHANGED <<hints, drains>>,
           \A n \in Node \ {t.at} : store'[n] = store[n],
           t.at \in NewReplicas(c) => store'[t.at] = store[t.at],
           \A v \in Version : Brings(c, t, v) => \A r \in NewReplicas(c) : KeptAt(r, v)
    PROVE  Keeps(c)'
<1>1. t.by = c /\ rebalances' = rebalances \ {t}
  BY DEF Orderly, Callers, EndRebalance
<1>2. /\ op'[c].pc = op[c].pc /\ op'[c].next = op[c].next /\ op'[c].left = op[c].left
      /\ op'[c].floor = op[c].floor
  <2>1. CASE t.live
    BY <1>1, <2>1, OpReturns DEF EndRebalance
  <2>2. CASE ~t.live
    BY <2>2 DEF EndRebalance
  <2> QED
    BY <2>1, <2>2
<1>3. NewReplicas(c)' = NewReplicas(c)
  BY <1>2 DEF NewReplicas
<1>4. Movers(c)'
  BY <1>1, <1>2 DEF Keeps, Movers
<1>5. ASSUME NEW v \in op[c].floor
      PROVE  Carried(c, v)'
  <2>1. v \in Version /\ Carried(c, v)
    BY FloorVersions DEF Keeps
  <2>2. CASE op[c].pc = "undo"
    BY <1>2, <2>2 DEF Carried
  <2>3. CASE op[c].pc # "undo"
    <3>1. /\ op[c].pc = "rebalance" /\ rebalances = {t} /\ t.at \notin op[c].left
      BY <2>3, OnlyRebalance
    <3>2. CASE \A r \in NewReplicas(c) : KeptAt(r, v)
      <4>1. \A r \in NewReplicas(c) : KeptAt(r, v)'
        BY <3>2, NewReplicasNodes DEF KeptAt
      <4> QED
        BY <1>2, <1>3, <3>1, <4>1 DEF Carried
    <3>3. ASSUME NEW n \in op[c].left, store[n] >= v
          PROVE  Carried(c, v)'
      <4>1. store'[n] = store[n]
        BY <3>1, FloorVersions
      <4> QED
        BY <1>2, <3>1, <3>3, <4>1 DEF Carried
    <3>4. Brings(c, t, v) => \A r \in NewReplicas(c) : KeptAt(r, v)
      BY <2>1
    <3> QED
      BY <2>1, <3>1, <3>2, <3>3, <3>4 DEF Carried
  <2> QED
    BY <2>2, <2>3
<1> QED
  BY <1>2, <1>4, <1>5 DEF Keeps

LEMMA KeepsRebalanceStep ==
    ASSUME NEW c \in Node, NoCollision, TypeOK, TypeOK', RingsExact, Orderly(c), Keeps(c),
           disturbed' = {}, NEW t \in rebalances, RebalanceStep(t)
    PROVE  Keeps(c)'
<1>1. /\ t \in Rebalance /\ t.at \in Node /\ t.value \in Value /\ t.by = c
      /\ t.to \subseteq Node /\ t.left \subseteq Node
  BY CallTypes, RebalanceFields DEF Orderly, Callers
<1>2. CASE RebalanceRead(t)
  <2>1. CASE store[t.at] = 0
    <3>1. EndRebalance(t) /\ UNCHANGED <<store, hints, drains>> /\ t.pc = "sent"
      BY <1>2, <2>1 DEF RebalanceRead, data
    <3>2. \A v \in Version : ~Brings(c, t, v)
      <4> SUFFICES ASSUME NEW v \in Version
                   PROVE  ~(store[t.at] >= v)
        BY <3>1 DEF Brings
      <4> QED
        BY <2>1, ValueAssumption
    <3> QED
      BY <3>1, <3>2, KeepsRebalanced
  <2>2. CASE store[t.at] # 0
    <3> DEFINE u == store[t.at]
    <3>1. PICK y : y = [t EXCEPT !.pc = "read", !.value = u]
      OBVIOUS
    <3>2. y.at = t.at /\ y.live = t.live /\ y.pc = "read" /\ y.value = u
      BY <1>1, <3>1 DEF Rebalance
    <3>3. /\ rebalances' = (rebalances \ {t}) \cup {y}
          /\ UNCHANGED <<op, store, hints, drains>> /\ t.pc = "sent"
      BY <1>2, <2>2, <3>1 DEF RebalanceRead, Replace, data
    <3>4. Grows
      BY <3>3, GrowsSame
    <3>5. \A v \in Version : Brings(c, t, v) => Brings(c, y, v)'
      BY <3>2, <3>3 DEF Brings
    <3> HIDE DEF u
    <3> QED
      BY <3>2, <3>3, <3>4, <3>5, KeepsMove
  <2> QED
    BY <2>1, <2>2
<1>3. CASE RebalanceStart(t)
  <2>1. PICK R : R = GetN(ring[t.at], replicas)
    OBVIOUS
  <2>2. PICK y : y = [t EXCEPT !.pc = "push", !.to = R, !.left = R \ {t.at}]
    OBVIOUS
  <2>3. /\ y.at = t.at /\ y.live = t.live /\ y.pc = "push" /\ y.value = t.value /\ y.to = R
        /\ y.left = R \ {t.at}
    BY <1>1, <2>2 DEF Rebalance
  <2>4. /\ rebalances' = (rebalances \ {t}) \cup {y}
        /\ UNCHANGED <<op, store, hints, drains>> /\ t.pc = "read"
    BY <1>3, <2>1, <2>2 DEF RebalanceStart, Replace, data
  <2>5. Grows
    BY <2>4, GrowsSame
  <2>6. ASSUME NEW v \in Version, Brings(c, t, v), t.at \in op[c].next, op[c].pc = "rebalance"
        PROVE  Brings(c, y, v)'
    <3>1. R = NewReplicas(c)
      BY <2>1, <2>6, TargetsPlace
    <3>2. NewReplicas(c)' = NewReplicas(c)
      BY <2>4 DEF NewReplicas
    <3>3. store[t.at] >= v /\ t.value >= v
      BY <2>4, <2>6 DEF Brings
    <3>4. \A r \in R : r \in y.left \/ KeptAt(r, v)'
      BY <2>3, <2>4, <3>3 DEF KeptAt
    <3> QED
      BY <2>3, <3>1, <3>2, <3>3, <3>4 DEF Brings
  <2> QED
    BY <2>3, <2>4, <2>5, <2>6, KeepsMove
<1>4. ASSUME NEW p \in Node, RebalancePush(t, p)
      PROVE  Keeps(c)'
  <2>1. PICK y : y = [t EXCEPT !.left = @ \ {p}, !.copied = @ \cup {p}]
    OBVIOUS
  <2>2. /\ y.at = t.at /\ y.live = t.live /\ y.pc = t.pc /\ y.value = t.value /\ y.to = t.to
        /\ y.left = t.left \ {p}
    BY <1>1, <2>1 DEF Rebalance
  <2>3. /\ rebalances' = (rebalances \ {t}) \cup {y} /\ SetStore(p, t.value)
        /\ UNCHANGED <<op, hints, drains>> /\ t.pc = "push"
    BY <1>4, <2>1 DEF RebalancePush, Replace
  <2>4. Grows /\ store'[p] >= t.value
    BY <1>1, <2>3, GrowsSet
  <2>5. ASSUME NEW v \in Version, Brings(c, t, v)
        PROVE  Brings(c, y, v)'
    <3>1. NewReplicas(c)' = NewReplicas(c)
      BY <2>3 DEF NewReplicas
    <3>2. /\ t.value >= v /\ t.to = NewReplicas(c)
          /\ \A r \in t.to : r \in t.left \/ KeptAt(r, v)
      BY <2>3, <2>5 DEF Brings
    <3>3. store'[p] >= v
      <4>1. store'[p] \in Nat /\ t.value \in Nat /\ v \in Nat
        BY <1>1, ValueType DEF TypeOK
      <4> QED
        BY <2>4, <3>2, <4>1
    <3>4. \A r \in t.to : r \in y.left \/ KeptAt(r, v)'
      <4> SUFFICES ASSUME NEW r \in t.to, r \notin y.left
                   PROVE  KeptAt(r, v)'
        OBVIOUS
      <4>1. CASE r = p
        BY <3>3, <4>1 DEF KeptAt
      <4>2. CASE r # p
        BY <1>1, <2>2, <2>4, <3>2, <4>2, GrowsKeeps
      <4> QED
        BY <4>1, <4>2
    <3> QED
      BY <2>2, <2>3, <3>1, <3>2, <3>4 DEF Brings
  <2> QED
    BY <2>2, <2>3, <2>4, <2>5, KeepsMove
<1>5. ASSUME NEW p \in Node, RebalancePushFails(t, p)
      PROVE  Keeps(c)'
  <2>1. PICK y : y = [t EXCEPT !.left = @ \ {p}]
    OBVIOUS
  <2>2. /\ y.at = t.at /\ y.live = t.live /\ y.pc = t.pc /\ y.value = t.value /\ y.to = t.to
        /\ y.left = t.left \ {p}
    BY <1>1, <2>1 DEF Rebalance
  <2>3. /\ rebalances' = (rebalances \ {t}) \cup {y} /\ AddHint(t.at, p, t.value)
        /\ UNCHANGED <<op, store, drains>> /\ t.pc = "push"
    BY <1>5, <2>1 DEF RebalancePushFails, Replace
  <2>4. Grows /\ KeptAt(p, t.value)'
    BY <1>1, <2>3, GrowsHint
  <2>5. ASSUME NEW v \in Version, Brings(c, t, v)
        PROVE  Brings(c, y, v)'
    <3>1. NewReplicas(c)' = NewReplicas(c)
      BY <2>3 DEF NewReplicas
    <3>2. /\ t.value >= v /\ t.to = NewReplicas(c)
          /\ \A r \in t.to : r \in t.left \/ KeptAt(r, v)
      BY <2>3, <2>5 DEF Brings
    <3>3. KeptAt(p, v)'
      <4>1. t.value \in Nat /\ v \in Nat
        BY <1>1, ValueType
      <4>2. store'[p] \in Nat
        BY ValueType DEF TypeOK
      <4>3. ASSUME NEW h \in Node
            PROVE  hints'[h][p] \in Nat
        <5>1. hints'[h] \in [Node -> Value]
          BY DEF TypeOK
        <5> QED
          BY <5>1, ValueType
      <4> QED
        BY <2>4, <3>2, <4>1, <4>2, <4>3 DEF KeptAt
    <3>4. \A r \in t.to : r \in y.left \/ KeptAt(r, v)'
      <4> SUFFICES ASSUME NEW r \in t.to, r \notin y.left
                   PROVE  KeptAt(r, v)'
        OBVIOUS
      <4>1. CASE r = p
        BY <3>3, <4>1
      <4>2. CASE r # p
        BY <1>1, <2>2, <2>4, <3>2, <4>2, GrowsKeeps
      <4> QED
        BY <4>1, <4>2
    <3> QED
      BY <2>2, <2>3, <3>1, <3>2, <3>4 DEF Brings
  <2> QED
    BY <2>2, <2>3, <2>4, <2>5, KeepsMove
<1>6. CASE RebalanceEnd(t)
  <2>1. /\ t.pc = "push" /\ t.left = {} /\ EndRebalance(t) /\ UNCHANGED <<hints, drains>>
        /\ t.to = GetN(ring[t.at], replicas)
    BY <1>6 DEF RebalanceEnd
  <2>2. \A n \in Node : store'[n] = IF n = t.at /\ t.at \notin t.to /\ t.to = t.copied
                                       /\ store[n] = t.value
                                    THEN 0 ELSE store[n]
    BY <1>1, <1>6, Naturals DEF RebalanceEnd, CleanUp
  <2>3. \A v \in Version : Brings(c, t, v) => \A r \in NewReplicas(c) : KeptAt(r, v)
    BY <2>1 DEF Brings
  <2>4. \A n \in Node \ {t.at} : store'[n] = store[n]
    BY <2>2
  <2>5. CASE op[c].pc = "rebalance" /\ t.at \in op[c].next
    <3>1. t.to = NewReplicas(c)
      BY <2>1, <2>5, TargetsPlace
    <3>2. t.at \in NewReplicas(c) => store'[t.at] = store[t.at]
      BY <1>1, <2>2, <3>1
    <3> QED
      BY <2>1, <2>3, <2>4, <3>2, KeepsRebalanced
  <2>6. CASE ~(op[c].pc = "rebalance" /\ t.at \in op[c].next)
    <3>1. \A v \in op[c].floor : op[c].pc = "undo"
      BY <2>6, OnlyRebalance
    <3>2. t.by = c /\ rebalances' = rebalances \ {t}
      BY <2>1 DEF Orderly, Callers, EndRebalance
    <3>3. /\ op'[c].pc = op[c].pc /\ op'[c].next = op[c].next /\ op'[c].left = op[c].left
          /\ op'[c].floor = op[c].floor
      <4>1. CASE t.live
        BY <2>1, <3>2, <4>1, OpReturns DEF EndRebalance
      <4>2. CASE ~t.live
        BY <2>1, <4>2 DEF EndRebalance
      <4> QED
        BY <4>1, <4>2
    <3>4. Movers(c)'
      BY <2>1, <3>2, <3>3 DEF Keeps, Movers
    <3>5. \A v \in op[c].floor : Carried(c, v)'
      BY <3>1, <3>3 DEF Carried
    <3> QED
      BY <3>3, <3>4, <3>5 DEF Keeps
  <2> QED
    BY <2>5, <2>6
<1>7. CASE RebalanceLost(t)
  <2>1. t.live /\ CallFailed(c) /\ drains' = drains
    BY <1>1, <1>7 DEF RebalanceLost
  <2>2. op[c].pc = "rebalance" /\ drains = {}
    BY <2>1 DEF Orderly, Waiting
  <2>3. op'[c].pc = "undo"
    BY <2>1, <2>2, OpUndoes
  <2> QED
    BY <2>1, <2>2, <2>3, KeepsNothing
<1> QED
  BY <1>2, <1>3, <1>4, <1>5, <1>6, <1>7 DEF RebalanceStep

LEMMA KeepsDrainStep ==
    ASSUME NEW c \in Node, NoCollision, TypeOK, TypeOK', Orderly(c), Keeps(c),
           NEW d \in drains, DrainStep(d)
    PROVE  Keeps(c)'
<1>1. /\ d \in Drain /\ d.at \in Node /\ d.value \in Value /\ d.by = c
      /\ d.left \subseteq Node
  BY CallTypes, DrainFields DEF Orderly, Callers
<1>2. drains = {d} /\ op[c].pc = "drain" /\ d.future = op[c].next /\ c \in d.future
  BY DEF Orderly, Waiting, StaysIn, Keeps, Movers
<1>3. ASSUME NEW y, drains' = (drains \ {d}) \cup {y}, y.future = d.future,
             UNCHANGED <<op, rebalances>>,
             \A v \in Version : Copies(c, d, v) => Copies(c, y, v)'
      PROVE  Keeps(c)'
  <2>1. Movers(c)'
    BY <1>2, <1>3 DEF Keeps, Movers
  <2>2. ASSUME NEW v \in op[c].floor
        PROVE  Carried(c, v)'
    <3>1. Copies(c, d, v) /\ v \in Version
      BY <1>2, FloorVersions DEF Keeps, Carried
    <3>2. Copies(c, y, v)' /\ drains' = {y}
      BY <1>2, <1>3, <3>1
    <3> QED
      BY <1>2, <1>3, <3>2 DEF Carried
  <2> QED
    BY <1>3, <2>1, <2>2 DEF Keeps
<1>4. UNCHANGED op => NewReplicas(c)' = NewReplicas(c)
  BY DEF NewReplicas
<1>5. CASE DrainStart(d)
  <2>1. PICK L : L = IF store[d.at] = 0 THEN {} ELSE GetN(NewRing(d.future), replicas)
    OBVIOUS
  <2>2. PICK y : y = [d EXCEPT !.pc = "push", !.value = store[d.at], !.left = L]
    OBVIOUS
  <2>3. /\ y.future = d.future /\ y.at = d.at /\ y.pc = "push" /\ y.value = store[d.at]
        /\ y.left = L
    BY <1>1, <2>2 DEF Drain
  <2>4. /\ drains' = (drains \ {d}) \cup {y} /\ d.pc = "sent"
        /\ UNCHANGED <<op, rebalances, store>>
    BY <1>5, <2>1, <2>2 DEF DrainStart, Replace, data
  <2>5. ASSUME NEW v \in Version, Copies(c, d, v)
        PROVE  Copies(c, y, v)'
    <3>1. CASE \E n \in op[c].next : store[n] >= v
      BY <2>4, <3>1 DEF Copies
    <3>2. CASE store[d.at] >= v
      <4>1. L = NewReplicas(c)
        BY <1>2, <2>1, <3>2, ValueAssumption DEF NewReplicas
      <4> QED
        BY <1>4, <2>3, <2>4, <3>2, <4>1 DEF Copies
    <3> QED
      BY <2>4, <2>5, <3>1, <3>2 DEF Copies
  <2> QED
    BY <1>3, <2>3, <2>4, <2>5
<1>6. ASSUME NEW p \in Node, DrainPush(d, p)
      PROVE  Keeps(c)'
  <2>1. PICK y : y = [d EXCEPT !.left = @ \ {p}]
    OBVIOUS
  <2>2. /\ y.future = d.future /\ y.at = d.at /\ y.pc = d.pc /\ y.value = d.value
        /\ y.left = d.left \ {p}
    BY <1>1, <2>1 DEF Drain
  <2>3. /\ drains' = (drains \ {d}) \cup {y} /\ d.pc = "push" /\ SetStore(p, d.value)
        /\ UNCHANGED <<op, rebalances, hints>>
    BY <1>6, <2>1 DEF DrainPush, Replace
  <2>4. Grows /\ store'[p] >= d.value
    BY <1>1, <2>3, GrowsSet
  <2>5. ASSUME NEW v \in Version, Copies(c, d, v)
        PROVE  Copies(c, y, v)'
    <3>1. CASE \E n \in op[c].next : store[n] >= v
      BY <2>3, <2>4, <3>1, FloorVersions, GrowsKeeps DEF Copies
    <3>2. CASE d.value >= v /\ \A r \in NewReplicas(c) : r \in d.left \/ store[r] >= v
      <4>1. store'[p] >= v
        <5>1. store'[p] \in Nat /\ d.value \in Nat /\ v \in Nat
          BY <1>1, ValueType DEF TypeOK
        <5> QED
          BY <2>4, <3>2, <5>1
      <4>2. \A r \in NewReplicas(c) : r \in y.left \/ store'[r] >= v
        BY <2>2, <2>4, <3>2, <4>1, NewReplicasNodes, GrowsKeeps
      <4> QED
        BY <1>4, <2>2, <2>3, <3>2, <4>2 DEF Copies
    <3> QED
      BY <2>3, <2>5, <3>1, <3>2 DEF Copies
  <2> QED
    BY <1>3, <2>2, <2>3, <2>5
<1>7. CASE DrainEnd(d)
  <2> DEFINE prev == d.future \cup {d.at}
             o == [pc |-> "sync", member |-> d.at, last |-> Nil, prev |-> prev,
                   next |-> d.future, version |-> config[c] + 1, left |-> d.future,
                   applied |-> {}, busy |-> FALSE, floor |-> op[c].floor]
  <2>1. /\ SetOp(c, o) /\ drains' = {} /\ d.pc = "push" /\ d.left = {}
        /\ UNCHANGED <<store, rebalances>>
    BY <1>1, <1>2, <1>7 DEF DrainEnd, SyncPhase, data
  <2>2. o.pc = "sync" /\ o.next = d.future /\ o.floor = op[c].floor
    OBVIOUS
  <2> HIDE DEF o, prev
  <2>3. op'[c] = o
    BY <2>1, OpSet
  <2>4. Movers(c)'
    BY <1>2, <2>1, <2>2, <2>3 DEF Keeps, Movers
  <2>5. ASSUME NEW v \in op[c].floor
        PROVE  \E n \in d.future : store[n] >= v
    <3>1. \/ \E n \in d.future : store[n] >= v
          \/ \A r \in NewReplicas(c) : store[r] >= v
      BY <1>2, <2>1 DEF Keeps, Carried, Copies
    <3>2. Exact(NewRing(op[c].next)) /\ NewRing(op[c].next).members = op[c].next
      BY FloorVersions, NewRingExact, NewRingType
    <3>3. NewReplicas(c) # {} /\ NewReplicas(c) \subseteq op[c].next
      BY <1>2, <3>2, GetNSome, GetNMembers, ValueAssumption DEF NewReplicas
    <3> QED
      BY <1>2, <3>1, <3>3
  <2> QED
    BY <2>1, <2>2, <2>3, <2>4, <2>5 DEF Keeps, Carried
<1>8. CASE DrainFails(d)
  <2>1. op'[c] = NoChange /\ drains' = {}
    BY <1>1, <1>2, <1>8, OpSet DEF DrainFails, CallFailed
  <2> QED
    BY <2>1, KeepsNothing
<1> QED
  BY <1>5, <1>6, <1>7, <1>8 DEF DrainStep

LEMMA KeepsStep ==
    ASSUME NEW c \in Node, Coordinators = {c}, NoCollision, TypeOK, RingsExact,
           disturbed = {} => Orderly(c) /\ Keeps(c), [Next]_vars
    PROVE  disturbed' = {} => Keeps(c)'
<1>1. CASE UNCHANGED vars
  BY <1>1 DEF vars, calls, data, counts, Keeps, Movers, Carried, Copies, Brings, KeptAt,
              NewReplicas
<1>2. CASE Next
  <2> SUFFICES ASSUME disturbed' = {}
               PROVE  Keeps(c)'
    OBVIOUS
  <2>1. Orderly(c) /\ Keeps(c) /\ \A n \in Node : ~Restart(n)
    BY <1>2, DisturbedGrows
  <2>2. TypeOK'
    BY NextType
  <2>3. ASSUME NEW v \in Version, WriteStep(v)
        PROVE  Keeps(c)'
    <3>1. UNCHANGED <<op, rebalances, drains>>
      BY <2>3 DEF WriteStep, StartWrite, PutReply, PutError, LateDelivery, FinishWrite, calls
    <3>2. CASE UNCHANGED <<store, hints>>
      BY <3>2, GrowsSame, <2>1, <2>2, <3>1, KeepsQuiet
    <3>3. ASSUME NEW n \in Node, SetStore(n, v), UNCHANGED hints
          PROVE  Keeps(c)'
      BY <3>3, ValueType, GrowsSet, <2>1, <2>2, <3>1, KeepsQuiet
    <3>4. ASSUME NEW n \in Node, PutError(v, n)
          PROVE  Keeps(c)'
      <4>1. CASE write[v].by \in Node
        <5>1. Grows
          BY <3>4, <4>1, ValueType, GrowsHint DEF PutError
        <5> QED
          BY <5>1, <2>1, <2>2, <3>1, KeepsQuiet
      <4>2. CASE write[v].by \notin Node
        <5>1. UNCHANGED <<store, hints>>
          BY <3>4, <4>2, Naturals DEF PutError, AddHint
        <5> QED
          BY <3>2, <5>1
      <4> QED
        BY <4>1, <4>2
    <3> QED
      BY <2>3, <3>2, <3>3, <3>4 DEF WriteStep, StartWrite, PutReply, LateDelivery, FinishWrite
  <2>4. ASSUME NEW n \in Node, NEW r \in Node, FlushHint(n, r)
        PROVE  Keeps(c)'
    <3>1. UNCHANGED <<op, rebalances, drains>>
      BY <2>4 DEF FlushHint, calls
    <3> QED
      BY <2>1, <2>2, <2>4, <3>1, GrowsFlush, KeepsQuiet
  <2> QED
    BY <1>2, <2>1, <2>2, <2>3, <2>4, KeepsChangeStep, KeepsSyncStep,
       KeepsRebalanceStep, KeepsDrainStep DEF Next
<1> QED
  BY <1>1, <1>2

LEMMA KeepsInit ==
    ASSUME NEW c \in Node, Init
    PROVE  Keeps(c)
BY DEF Init, NoChange, Keeps, Movers, Carried

\* When such a change has succeeded, every replica of the new configuration has what a
\* member held and a client was told to be written when the change began, or a hint for
\* it, if no virtual nodes collide (rebalance, drain).
THEOREM ChangesKeepReplicas ==
    ASSUME NoCollision, CoordinatorStays
    PROVE  Spec => []ChangeKeepsReplicas
<1> DEFINE Calm == /\ RingsExact
                   /\ \A c \in Node : Coordinators = {c} /\ disturbed = {}
                                        => Orderly(c) /\ Keeps(c)
<1>1. Init => Calm
  BY OrderlyInit, KeepsInit, MemberAssumption, NewRingExact DEF Init, RingsExact
<1>2. TypeOK /\ Calm /\ [Next]_vars => Calm'
  BY OrderlyStep, KeepsStep, RingsExactStep
<1>3. Calm => ChangeKeepsReplicas
  BY DEF ChangeKeepsReplicas, Undisturbed, Keeps, Carried, KeptAt, NewReplicas
<1> HIDE DEF Calm
<1> QED
  BY <1>1, <1>2, <1>3, MembershipTypeCorrect, PTL DEF Spec

=============================================================================
