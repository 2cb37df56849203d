--------------------------- MODULE ClusterMembership ---------------------------
(***************************************************************************)
(* Membership changes and what they do to the data: AddMember and          *)
(* RemoveMember (internal/node/cluster_membership.go), the sync handler    *)
(* (handler.go), rebalance (rebalance.go) and drain (drain.go), while      *)
(* clients write.                                                          *)
(*                                                                         *)
(* A coordinator sends the next configuration to every member, one after   *)
(* the other, then asks each to rebalance; on a failure it sends the old   *)
(* members under a still higher version to those that had applied the      *)
(* change.  A node that rebalances pushes its copy to the replicas its     *)
(* ring gives and then removes it if it is none of them.                   *)
(*                                                                         *)
(* There is one key.  A value is its version, 0 is none; which version a   *)
(* write gets is left open (ReplicatedKV examines it), and so is the order *)
(* in which a list of replicas is worked through.  Chunks are copied along *)
(* with the keys and never removed; they have no state here.               *)
(***************************************************************************)
EXTENDS HashRing

CONSTANTS
    Seeds,        \* the members each node is started with
    Coordinators, \* nodes that are asked to change the membership
    Joiners,      \* nodes that may be added
    Leavers,      \* nodes that may be removed
    Frontends,    \* nodes that clients send writes to
    Restarting,   \* nodes that may restart
    Version,      \* the versions of writes
    replicas,     \* N
    writeQuorum,  \* W
    MaxRequests,  \* bound: membership changes and writes that begin
    MaxFaults     \* bound: calls that fail and nodes that restart

ASSUME MemberAssumption ==
    /\ \A n \in Node : Seeds[n] \subseteq Node
    /\ Coordinators \subseteq Node /\ Joiners \subseteq Node
    /\ Leavers \subseteq Node /\ Frontends \subseteq Node /\ Restarting \subseteq Node

ASSUME ValueAssumption ==
    /\ Version \subseteq Nat \ {0}
    /\ replicas \in Nat \ {0}
    /\ writeQuorum \in Nat \ {0}

ASSUME ChangeAssumption ==
    /\ MaxRequests \in Nat
    /\ MaxFaults \in Nat

VARIABLES
    ring,      \* the ring of each node
    config,    \* configVersion of each node
    op,        \* the change each node coordinates
    syncs,     \* calls of handleMembershipSync
    rebalances, \* calls of handleRebalance
    drains,    \* calls of handleDrain
    store,     \* store[n]: the version that node n holds, 0 if none
    hints,     \* hints[n][r]: the version that node n keeps for r, 0 if none
    write,     \* each write
    delayed,   \* PUTs that were given up on and may still arrive, as <<node, version>>
    requests,  \* membership changes and writes so far
    disturbed, \* nodes that have restarted, have applied two configurations at the same
               \* time, have replaced one by an older one, have moved keys by a ring that
               \* had changed, or have failed to undo a change
    crossed,   \* history: the writes that rebalances have moved in opposite directions
    faults     \* failed calls and restarts so far

data == <<store, hints, write, delayed>>
calls == <<syncs, rebalances, drains>>
counts == <<requests, disturbed, crossed, faults>>
vars == <<ring, config, op, calls, data, counts>>

Value == Version \cup {0}

\* A change.  last is the member that stands at the end of the list of targets, the one
\* that is added.  busy: a call of the coordinator has not returned.  floor: the writes
\* that the change must keep (Floor).
Change == [pc : {"idle", "drain", "sync", "rebalance", "undo", "done"},
           member : Node \cup {Nil}, last : Node \cup {Nil},
           prev : SUBSET Node, next : SUBSET Node, version : Nat,
           left : SUBSET Node, applied : SUBSET Node, busy : BOOLEAN,
           floor : SUBSET Version]

NoChange == [pc |-> "idle", member |-> Nil, last |-> Nil, prev |-> {}, next |-> {},
             version |-> 0, left |-> {}, applied |-> {}, busy |-> FALSE, floor |-> {}]

\* live: the caller still waits.  gone and come: the members that the handler has still
\* to remove and to add.
Sync == [by : Node, to : Node, live : BOOLEAN, pc : {"sent", "apply"},
         version : Nat, members : SUBSET Node, last : Node \cup {Nil},
         gone : SUBSET Node, come : SUBSET Node]

\* to: the replicas the ring gave for the key; left: those still to push to; copied:
\* those that have confirmed.
Rebalance == [by : Node, at : Node, live : BOOLEAN, pc : {"sent", "read", "push"},
              value : Value, to : SUBSET Node, left : SUBSET Node, copied : SUBSET Node]

Drain == [by : Node, at : Node, pc : {"sent", "push"}, future : SUBSET Node,
          value : Value, left : SUBSET Node]

Write == [pc : {"idle", "wait", "ok", "failed"}, by : Node \cup {Nil},
          wait : SUBSET Node, acks : SUBSET Node]

TypeOK ==
    /\ ring \in [Node -> Ring]
    /\ config \in [Node -> Nat]
    /\ op \in [Node -> Change]
    /\ syncs \subseteq Sync
    /\ rebalances \subseteq Rebalance
    /\ drains \subseteq Drain
    /\ store \in [Node -> Value]
    /\ hints \in [Node -> [Node -> Value]]
    /\ write \in [Version -> Write]
    /\ delayed \subseteq Node \X Value
    /\ requests \in Nat
    /\ disturbed \subseteq Node
    /\ crossed \subseteq Version
    /\ faults \in Nat

Init ==
    /\ ring = [n \in Node |-> NewRing(Seeds[n])]
    /\ config = [n \in Node |-> 0]
    /\ op = [n \in Node |-> NoChange]
    /\ syncs = {}
    /\ rebalances = {}
    /\ drains = {}
    /\ store = [n \in Node |-> 0]
    /\ hints = [n \in Node |-> [r \in Node |-> 0]]
    /\ write = [v \in Version |-> [pc |-> "idle", by |-> Nil, wait |-> {}, acks |-> {}]]
    /\ delayed = {}
    /\ requests = 0
    /\ disturbed = {}
    /\ crossed = {}
    /\ faults = 0

-----------------------------------------------------------------------------
(* Values *)

\* Memory.Set: only what is newer is kept.
SetStore(n, v) == store' = [store EXCEPT ![n] = IF v > @ THEN v ELSE @]

\* hintStore.Add: the newest write for a replica.
AddHint(n, r, v) == hints' = [hints EXCEPT ![n][r] = IF v > @ THEN v ELSE @]

Fault ==
    /\ faults < MaxFaults
    /\ faults' = faults + 1
    /\ UNCHANGED <<requests, disturbed, crossed>>

Request ==
    /\ requests < MaxRequests
    /\ requests' = requests + 1
    /\ UNCHANGED <<disturbed, crossed, faults>>

\* A PUT that its caller gave up on is lost, or arrives later.
PutLost(n, v) == delayed' \in {delayed, delayed \cup {<<n, v>>}}

\* Node.Put at node c: replicateValue of a new version to the replicas of c's own ring.
StartWrite(c, v) ==
    /\ c \in Frontends
    /\ write[v].pc = "idle"
    /\ Request
    /\ write' = [write EXCEPT ![v] = [pc |-> "wait", by |-> c,
                                      wait |-> GetN(ring[c], replicas), acks |-> {}]]
    /\ UNCHANGED <<ring, config, op, calls, store, hints, delayed>>

\* putReplica at replica n.
PutReply(v, n) ==
    /\ write[v].pc = "wait"
    /\ n \in write[v].wait
    /\ SetStore(n, v)
    /\ write' = [write EXCEPT ![v] = [pc |-> "wait", by |-> @.by, wait |-> @.wait \ {n},
                                      acks |-> @.acks \cup {n}]]
    /\ UNCHANGED <<ring, config, op, calls, hints, delayed, counts>>

\* It fails: the coordinator keeps a hint.
PutError(v, n) ==
    /\ write[v].pc = "wait"
    /\ n \in write[v].wait
    /\ AddHint(write[v].by, n, v)
    /\ PutLost(n, v)
    /\ write' = [write EXCEPT ![v] = [pc |-> "wait", by |-> @.by, wait |-> @.wait \ {n},
                                      acks |-> @.acks]]
    /\ Fault
    /\ UNCHANGED <<ring, config, op, calls, store>>

FinishWrite(v) ==
    /\ write[v].pc = "wait"
    /\ write[v].wait = {}
    /\ write' = [write EXCEPT ![v] =
                   [pc |-> IF Cardinality(@.acks) >= writeQuorum THEN "ok" ELSE "failed",
                    by |-> @.by, wait |-> {}, acks |-> @.acks]]
    /\ UNCHANGED <<ring, config, op, calls, store, hints, delayed, counts>>

LateDelivery(n, v) ==
    /\ <<n, v>> \in delayed
    /\ SetStore(n, v)
    /\ delayed' = delayed \ {<<n, v>>}
    /\ UNCHANGED <<ring, config, op, calls, hints, write, counts>>

\* flushHints delivers one hint and forgets it.
FlushHint(n, r) ==
    /\ hints[n][r] # 0
    /\ SetStore(r, hints[n][r])
    /\ hints' = [hints EXCEPT ![n][r] = 0]
    /\ UNCHANGED <<ring, config, op, calls, write, delayed, counts>>

-----------------------------------------------------------------------------
(* The coordinator of a change *)

\* The targets are in the order of their addresses, the added member behind them.
FirstOf(S, last) ==
    CHOOSE m \in S : IF S = {last} THEN TRUE
                     ELSE m # last /\ \A x \in S \ {last} : m <= x

\* What a change of the members M must keep: the writes that were acknowledged and that a
\* member holds when it begins, if no rebalance of an earlier change is still moving them.
Floor(M) ==
    IF rebalances = {}
    THEN {v \in Version : write[v].pc = "ok" /\ \E n \in M : store[n] >= v}
    ELSE {}

CanChange(c) ==
    /\ c \in Coordinators
    /\ op[c].pc \in {"idle", "done"}
    /\ Request

SetOp(c, o) == op' = [op EXCEPT ![c] = o]

\* The first phase of applyClusterConfig begins.
SyncPhase(c, m, last, prev, next, floor) ==
    SetOp(c, [pc |-> "sync", member |-> m, last |-> last, prev |-> prev, next |-> next,
              version |-> config[c] + 1, left |-> next, applied |-> {}, busy |-> FALSE,
              floor |-> floor])

AddMember(c, m) ==
    LET current == ring[c].members
    IN  /\ CanChange(c)
        /\ m \in Joiners \ current
        /\ SyncPhase(c, m, m, current, current \cup {m}, Floor(current))
        /\ UNCHANGED <<ring, config, calls, data>>

\* RemoveMember first drains the member.
RemoveMember(c, m) ==
    LET current == ring[c].members
    IN  /\ CanChange(c)
        /\ m \in Leavers \cap current
        /\ Cardinality(current) > 1
        /\ SetOp(c, [pc |-> "drain", member |-> m, last |-> Nil, prev |-> current,
                     next |-> current \ {m}, version |-> 0, left |-> {}, applied |-> {},
                     busy |-> TRUE, floor |-> Floor(current)])
        /\ drains' = drains \cup {[by |-> c, at |-> m, pc |-> "sent",
                                   future |-> current \ {m}, value |-> 0, left |-> {}]}
        /\ UNCHANGED <<ring, config, syncs, rebalances, data>>

\* The change of c goes on: the call is over, and t has applied what it was sent.
Returned(c, t) ==
    SetOp(c, [op[c] EXCEPT !.busy = FALSE,
                           !.applied = op[c].applied \cup (IF op[c].pc = "sync" THEN {t} ELSE {})])

\* compensateClusterConfig begins, with the nodes that have applied the change.
Compensate(c) ==
    SetOp(c, [op[c] EXCEPT !.pc = "undo", !.version = op[c].version + 1, !.last = Nil,
                           !.left = op[c].applied, !.busy = FALSE])

\* A call of c failed: a drain ends the change, a sync or a rebalance is compensated,
\* a compensation goes on.
CallFailed(c) ==
    CASE op[c].pc = "drain" -> SetOp(c, NoChange)
      [] op[c].pc = "undo"  -> SetOp(c, [op[c] EXCEPT !.busy = FALSE])
      [] OTHER              -> Compensate(c)

\* sendMembershipSync of the new configuration, or of the old members to undo it.
CallSync(c) ==
    LET o == op[c]
        t == FirstOf(o.left, o.last)
        M == IF o.pc = "sync" THEN o.next ELSE o.prev
    IN  /\ o.pc \in {"sync", "undo"}
        /\ ~o.busy
        /\ o.left # {}
        /\ syncs' = syncs \cup {[by |-> c, to |-> t, live |-> TRUE, pc |-> "sent",
                                 version |-> o.version, members |-> M, last |-> o.last,
                                 gone |-> {}, come |-> M]}
        /\ SetOp(c, [o EXCEPT !.busy = TRUE, !.left = o.left \ {t}])
        /\ UNCHANGED <<ring, config, rebalances, drains, data, counts>>

\* Faulty RebalancePhase: the change is over when every target has the configuration.
RebalancePhaseSkipped(c) ==
    /\ op[c].pc = "sync"
    /\ ~op[c].busy
    /\ op[c].left = {}
    /\ SetOp(c, [op[c] EXCEPT !.pc = "done"])
    /\ UNCHANGED <<ring, config, calls, data, counts>>

\* Every target has the configuration: the second phase.
RebalancePhase(c) ==
    /\ op[c].pc = "sync"
    /\ ~op[c].busy
    /\ op[c].left = {}
    /\ SetOp(c, [op[c] EXCEPT !.pc = "rebalance", !.left = op[c].next])
    /\ UNCHANGED <<ring, config, calls, data, counts>>

CallRebalance(c) ==
    LET o == op[c]
        t == FirstOf(o.left, o.last)
    IN  /\ o.pc = "rebalance"
        /\ ~o.busy
        /\ o.left # {}
        /\ rebalances' = rebalances \cup
             {[by |-> c, at |-> t, live |-> TRUE, pc |-> "sent", value |-> 0,
               to |-> {}, left |-> {}, copied |-> {}]}
        /\ SetOp(c, [o EXCEPT !.busy = TRUE, !.left = o.left \ {t}])
        /\ UNCHANGED <<ring, config, syncs, drains, data, counts>>

\* The change has succeeded.
ChangeDone(c) ==
    /\ op[c].pc = "rebalance"
    /\ ~op[c].busy
    /\ op[c].left = {}
    /\ SetOp(c, [op[c] EXCEPT !.pc = "done"])
    /\ UNCHANGED <<ring, config, calls, data, counts>>

\* Faulty UndoDone: the version of the compensation is not stored.
UndoDoneUnstored(c) ==
    /\ op[c].pc = "undo"
    /\ ~op[c].busy
    /\ op[c].left = {}
    /\ SetOp(c, NoChange)
    /\ UNCHANGED <<ring, config, calls, data, counts>>

\* The compensation is over; a coordinator that had not applied the change stores the
\* version itself.
UndoDone(c) ==
    /\ op[c].pc = "undo"
    /\ ~op[c].busy
    /\ op[c].left = {}
    /\ config' = IF c \in op[c].applied THEN config
                 ELSE [config EXCEPT ![c] = op[c].version]
    /\ SetOp(c, NoChange)
    /\ UNCHANGED <<ring, calls, data, counts>>

\* The node that c is calling has restarted.
CallBroken(c) ==
    /\ op[c].busy
    /\ \A s \in syncs \cup rebalances : s.by = c => ~s.live
    /\ \A d \in drains : d.by # c
    /\ CallFailed(c)
    /\ UNCHANGED <<ring, config, calls, data, counts>>

-----------------------------------------------------------------------------
(* handleMembershipSync *)

\* The handler answers.
EndSync(s) ==
    /\ syncs' = syncs \ {s}
    /\ IF s.live THEN Returned(s.by, s.to) ELSE UNCHANGED op

Replace(S, x, y) == (S \ {x}) \cup {y}

\* The version is compared; one that is not newer is answered at once.
SyncStart(s) ==
    /\ s.pc = "sent"
    /\ IF s.version <= config[s.to]
       THEN EndSync(s) /\ UNCHANGED disturbed
       ELSE /\ syncs' = Replace(syncs, s,
                          [s EXCEPT !.pc = "apply",
                                    !.gone = ring[s.to].members \ s.members])
            /\ disturbed' = IF \E x \in syncs : x.to = s.to /\ x.pc = "apply"
                            THEN disturbed \cup {s.to} ELSE disturbed
            /\ UNCHANGED op
    /\ UNCHANGED <<ring, config, rebalances, drains, data, requests, crossed, faults>>

\* A member that the configuration does not have is removed.
SyncRemove(s) ==
    LET m == FirstOf(s.gone, Nil)
    IN  /\ s.pc = "apply"
        /\ s.gone # {}
        /\ ring' = [ring EXCEPT ![s.to] = RemoveFrom(@, m)]
        /\ syncs' = Replace(syncs, s, [s EXCEPT !.gone = @ \ {m}])
        /\ UNCHANGED <<config, op, rebalances, drains, data, counts>>

\* Then every member of the configuration is added.
SyncAdd(s) ==
    LET m == FirstOf(s.come, s.last)
    IN  /\ s.pc = "apply"
        /\ s.gone = {}
        /\ s.come # {}
        /\ ring' = [ring EXCEPT ![s.to] = AddTo(@, m)]
        /\ syncs' = Replace(syncs, s, [s EXCEPT !.come = @ \ {m}])
        /\ UNCHANGED <<config, op, rebalances, drains, data, counts>>

\* Last, the version is stored.
SyncEnd(s) ==
    /\ s.pc = "apply"
    /\ s.gone = {}
    /\ s.come = {}
    /\ config' = [config EXCEPT ![s.to] = s.version]
    /\ disturbed' = IF s.version < config[s.to] THEN disturbed \cup {s.to} ELSE disturbed
    /\ EndSync(s)
    /\ UNCHANGED <<ring, rebalances, drains, data, requests, crossed, faults>>

\* The coordinator gives up on the call, which goes on without it, or never arrives.
SyncLost(s) ==
    /\ s.live
    /\ \/ syncs' = Replace(syncs, s, [s EXCEPT !.live = FALSE])
       \/ s.pc = "sent" /\ syncs' = syncs \ {s}
    /\ CallFailed(s.by)
    /\ faults < MaxFaults
    /\ faults' = faults + 1
    /\ disturbed' = IF op[s.by].pc = "undo" THEN disturbed \cup {s.by} ELSE disturbed
    /\ UNCHANGED <<ring, config, rebalances, drains, data, requests, crossed>>

-----------------------------------------------------------------------------
(* rebalance and drain *)

EndRebalance(t) ==
    /\ rebalances' = rebalances \ {t}
    /\ IF t.live THEN Returned(t.by, t.at) ELSE UNCHANGED op

\* The snapshot of the store.
RebalanceRead(t) ==
    /\ t.pc = "sent"
    /\ IF store[t.at] = 0
       THEN EndRebalance(t)
       ELSE /\ rebalances' = Replace(rebalances, t,
                               [t EXCEPT !.pc = "read", !.value = store[t.at]])
            /\ UNCHANGED op
    /\ UNCHANGED <<ring, config, syncs, drains, data, counts>>

\* The writes that are moved to the replicas R by rebalance t, and at the same time to
\* others by that of another node, or to none because the ring of t's node is empty.
Crosses(t, R) ==
    {v \in Version : /\ v <= t.value
                     /\ \/ R = {}
                        \/ \E x \in rebalances : /\ x.pc = "push" /\ x.at # t.at
                                                /\ v <= x.value /\ x.to # R}

\* The replicas of the key, by the ring as it is now.
RebalanceStart(t) ==
    LET R == GetN(ring[t.at], replicas)
    IN  /\ t.pc = "read"
        /\ crossed' = crossed \cup Crosses(t, R)
        /\ rebalances' = Replace(rebalances, t, [t EXCEPT !.pc = "push", !.to = R,
                                                          !.left = R \ {t.at}])
        /\ UNCHANGED <<ring, config, op, syncs, drains, data, requests, disturbed, faults>>

RebalancePush(t, p) ==
    /\ t.pc = "push"
    /\ p \in t.left
    /\ SetStore(p, t.value)
    /\ rebalances' = Replace(rebalances, t, [t EXCEPT !.left = @ \ {p},
                                                      !.copied = @ \cup {p}])
    /\ UNCHANGED <<ring, config, op, syncs, drains, hints, write, delayed, counts>>

\* A push fails, as every push does once the caller is gone: a hint is kept.
RebalancePushFails(t, p) ==
    /\ t.pc = "push"
    /\ p \in t.left
    /\ AddHint(t.at, p, t.value)
    /\ PutLost(p, t.value)
    /\ rebalances' = Replace(rebalances, t, [t EXCEPT !.left = @ \ {p}])
    /\ IF t.live THEN Fault ELSE UNCHANGED counts
    /\ UNCHANGED <<ring, config, op, syncs, drains, store, write>>

\* Faulty CleanUp: what has been written meanwhile is removed with the old copy.
CleanUpAny(t) ==
    store' = [store EXCEPT ![t.at] = IF t.at \notin t.to /\ t.to = t.copied THEN 0 ELSE @]

\* DeleteIfMatch, when the node is no replica and all replicas have confirmed.
CleanUp(t) ==
    store' = [store EXCEPT ![t.at] =
                IF t.at \notin t.to /\ t.to = t.copied /\ @ = t.value THEN 0 ELSE @]

RebalanceEnd(t) ==
    /\ t.pc = "push"
    /\ t.left = {}
    /\ CleanUp(t)
    /\ EndRebalance(t)
    /\ disturbed' = IF t.to # GetN(ring[t.at], replicas) THEN disturbed \cup {t.at}
                    ELSE disturbed
    /\ UNCHANGED <<ring, config, syncs, drains, hints, write, delayed, requests, crossed, faults>>

RebalanceLost(t) ==
    /\ t.live
    /\ \/ rebalances' = Replace(rebalances, t, [t EXCEPT !.live = FALSE])
       \/ t.pc = "sent" /\ rebalances' = rebalances \ {t}
    /\ CallFailed(t.by)
    /\ Fault
    /\ UNCHANGED <<ring, config, syncs, drains, data>>

\* The snapshot of the store, and the replicas in the ring of the future members.
DrainStart(d) ==
    /\ d.pc = "sent"
    /\ drains' = Replace(drains, d,
                   [d EXCEPT !.pc = "push", !.value = store[d.at],
                             !.left = IF store[d.at] = 0 THEN {}
                                      ELSE GetN(NewRing(d.future), replicas)])
    /\ UNCHANGED <<ring, config, op, syncs, rebalances, data, counts>>

DrainPush(d, p) ==
    /\ d.pc = "push"
    /\ p \in d.left
    /\ SetStore(p, d.value)
    /\ drains' = Replace(drains, d, [d EXCEPT !.left = @ \ {p}])
    /\ UNCHANGED <<ring, config, op, syncs, rebalances, hints, write, delayed, counts>>

\* Everything is copied: the configuration follows.
DrainEnd(d) ==
    /\ d.pc = "push"
    /\ d.left = {}
    /\ drains' = drains \ {d}
    /\ SyncPhase(d.by, d.at, Nil, d.future \cup {d.at}, d.future, op[d.by].floor)
    /\ UNCHANGED <<ring, config, syncs, rebalances, data, counts>>

\* A push fails, or the coordinator gives up: nothing is changed, but a push on its way
\* may still arrive.
DrainFails(d) ==
    /\ drains' = drains \ {d}
    /\ delayed' \in {delayed} \cup {delayed \cup {<<p, d.value>>} : p \in d.left}
    /\ CallFailed(d.by)
    /\ Fault
    /\ UNCHANGED <<ring, config, syncs, rebalances, store, hints, write>>

-----------------------------------------------------------------------------

\* A call without its caller, if that was node n.
Without(n, call) == [call EXCEPT !.live = (call.live /\ call.by # n)]

\* Node n stops and starts again with the members it was first started with; what it
\* coordinated and served is gone, but its calls may go on without it.
Restart(n) ==
    /\ n \in Restarting
    /\ faults < MaxFaults
    /\ faults' = faults + 1
    /\ disturbed' = disturbed \cup {n}
    /\ ring' = [ring EXCEPT ![n] = NewRing(Seeds[n])]
    /\ config' = [config EXCEPT ![n] = 0]
    /\ op' = [op EXCEPT ![n] = NoChange]
    /\ syncs' = {Without(n, s) : s \in {x \in syncs : x.to # n}}
    /\ rebalances' = {Without(n, t) : t \in {x \in rebalances : x.at # n}}
    /\ drains' = {d \in drains : d.at # n /\ d.by # n}
    /\ hints' = [hints EXCEPT ![n] = [r \in Node |-> 0]]
    /\ write' = [v \in Version |->
                   IF write[v].pc = "wait" /\ write[v].by = n
                   THEN [pc |-> "failed", by |-> n, wait |-> {}, acks |-> write[v].acks]
                   ELSE write[v]]
    /\ \E late \in SUBSET UNION {write[v].wait \X {v} : v \in {x \in Version :
                                     write[x].pc = "wait" /\ write[x].by = n}} :
         delayed' = delayed \cup late
    /\ UNCHANGED <<store, requests, crossed>>

ChangeStep(c) ==
    \/ \E m \in Node : AddMember(c, m) \/ RemoveMember(c, m)
    \/ CallSync(c) \/ RebalancePhase(c) \/ CallRebalance(c)
    \/ ChangeDone(c) \/ UndoDone(c) \/ CallBroken(c)

SyncStep(s) ==
    SyncStart(s) \/ SyncRemove(s) \/ SyncAdd(s) \/ SyncEnd(s) \/ SyncLost(s)

RebalanceStep(t) ==
    \/ RebalanceRead(t) \/ RebalanceStart(t) \/ RebalanceEnd(t) \/ RebalanceLost(t)
    \/ \E p \in Node : RebalancePush(t, p) \/ RebalancePushFails(t, p)

DrainStep(d) ==
    DrainStart(d) \/ DrainEnd(d) \/ DrainFails(d) \/ \E p \in Node : DrainPush(d, p)

WriteStep(v) ==
    \/ \E n \in Node :
         StartWrite(n, v) \/ PutReply(v, n) \/ PutError(v, n) \/ LateDelivery(n, v)
    \/ FinishWrite(v)

Next ==
    \/ \E c \in Node : ChangeStep(c)
    \/ \E s \in syncs : SyncStep(s)
    \/ \E t \in rebalances : RebalanceStep(t)
    \/ \E d \in drains : DrainStep(d)
    \/ \E v \in Version : WriteStep(v)
    \/ \E n, r \in Node : FlushHint(n, r)
    \/ \E n \in Node : Restart(n)

Spec == Init /\ [][Next]_vars

-----------------------------------------------------------------------------
(* Properties *)

\* Rebalance and DeleteIfMatch never remove the last copy of a write that was
\* acknowledged, itself or something newer, whatever writes, late PUTs, failing pushes,
\* restarts and rebalances without a caller come between the reading of the ring, the
\* pushes and the removal, and also when all replicas of the key are replaced.  Two
\* rebalances that go on at the same time must agree on where the key belongs: otherwise
\* each may push to the other's node and then remove its own copy.
AckedHeld ==
    \A v \in Version \ crossed : write[v].pc = "ok" => \E n \in Node : store[n] >= v

\* Nodes whose rings have the same members place the key on the same replicas, in whatever
\* order the members came and went (Ring.Add, Remove, GetN).
PlacementAgrees ==
    LET place == [n \in Node |-> GetN(ring[n], replicas)]
    IN  \A m, n \in Node : m < n /\ ring[m].members = ring[n].members => place[m] = place[n]

\* Coordinators are never asked to remove themselves: one that did would keep its old
\* version, and the members would ignore its next change.
CoordinatorStays == \A k \in Coordinators : k \notin Leavers /\ k \in Seeds[k]

\* A change of the only coordinator has succeeded, and no node was disturbed before.
Undisturbed(c) == op[c].pc = "done" /\ disturbed = {} /\ Coordinators = {c}

\* Such a change is in effect at every member: nothing that earlier changes left behind
\* when they failed half-way makes a member ignore it (applyClusterConfig,
\* compensateClusterConfig, handleMembershipSync).
ChangeAgreed ==
    \A c \in Node : Undisturbed(c) =>
        \A t \in op[c].next : ring[t].members = op[c].next /\ config[t] = op[c].version

\* Every replica of the key in the new configuration then holds what the change had to
\* keep, or a hint for it is kept (rebalance, drain).
ChangeKeepsReplicas ==
    \A c \in Node : Undisturbed(c) =>
        \A v \in op[c].floor : \A r \in GetN(NewRing(op[c].next), replicas) :
            store[r] >= v \/ \E h \in Node : hints[h][r] >= v

=============================================================================
