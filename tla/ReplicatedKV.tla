---------------------------- MODULE ReplicatedKV ----------------------------
(***************************************************************************)
(* Leaderless quorum replication of the key-value store: Put, Get and      *)
(* Delete (internal/node/replication.go), version allocation               *)
(* (internal/node/version.go), read repair and hinted handoff              *)
(* (internal/node/hint.go, driven by background.go).                       *)
(*                                                                         *)
(* Any node coordinates any request.  A write reads the versions of the    *)
(* key from a quorum, allocates a larger one and sends the value to every  *)
(* replica; a get reads from a quorum, picks the newest value and writes   *)
(* it back to the replicas that answered with less.  The messages of a     *)
(* round travel concurrently, so their effects interleave with those of    *)
(* every other request.                                                    *)
(*                                                                         *)
(* One step of a round is one remote call: the replica executes it and the *)
(* coordinator collects the result.  A call that fails may have been lost, *)
(* may have been executed with its answer lost, or may execute after the   *)
(* coordinator's two-second timeout: a failed PUT goes to delayed, from    *)
(* where it is executed at any later time or never.                        *)
(*                                                                         *)
(* The ring is fixed here: replicasFor is a constant.                      *)
(***************************************************************************)
EXTENDS KVVersion, FiniteSets

CONSTANTS
    Key,          \* keys
    Puts,         \* identifiers of the client's PUT requests
    Deletes,      \* identifiers of the client's DELETE requests
    Gets,         \* identifiers of the client's GET requests
    Coordinators, \* the nodes that clients send their requests to
    replicasFor,  \* the replicas of each key, as the ring gives them
    writeQuorum,  \* W
    readQuorum,   \* R
    Unread,       \* marks a replica that has not answered a read
    MaxErrors,    \* bound: remote calls that fail
    MaxCrashes,   \* bound: crashes of nodes
    Crashing      \* bound: the nodes that may crash

Write == Puts \cup Deletes

Request == Write \cup Gets

ASSUME RequestAssumption ==
    /\ Puts \subseteq Data
    /\ Write \cap Gets = {}

ASSUME ReplicaAssumption ==
    /\ Coordinators \subseteq Node
    /\ replicasFor \in [Key -> SUBSET Node]
    /\ \A k \in Key : IsFiniteSet(replicasFor[k])

\* Every read quorum meets every write quorum: W = R = 2 of at most 3.
ASSUME QuorumAssumption ==
    /\ writeQuorum \in Nat \ {0}
    /\ readQuorum \in Nat \ {0}
    /\ \A k \in Key : writeQuorum + readQuorum > Cardinality(replicasFor[k])

ASSUME MarkerAssumption ==
    /\ Unread \notin MaybeValue
    /\ Nil \notin Node
    /\ Nil \notin Key

ASSUME BoundAssumption == MaxErrors \in Nat /\ MaxCrashes \in Nat

VARIABLES
    store,    \* what each node's store holds for each key (durable)
    version,  \* Node.version: the last counter each node allocated
    hints,    \* hints[n][r][k]: the write of k that n keeps for replica r
    flush,    \* the hints left of the list that flushHints is replaying
    delayed,  \* PUTs whose sender gave up and that may still execute
    pc,       \* where each request is
    coord,    \* its coordinator
    key,      \* its key
    wait,     \* replicas whose result of the current round is outstanding
    seen,     \* what each replica answered to the read round
    acks,     \* replicas that hold the request's value when it is done
    value,    \* the value written, or the newest value read
    floor,    \* history: the settled requests when the request began
    errors,   \* remote calls that failed so far
    crashes   \* crashes so far

requestVars == <<pc, coord, key, wait, seen, acks, value, floor>>
vars == <<store, version, hints, flush, delayed, requestVars, errors, crashes>>

\* A PUT to /internal/kv of one replica; a hint has the same fields.
Message == [Replica : Node, Key : Key, Value : Value]

PutMessage(r, k, v) == [Replica |-> r, Key |-> k, Value |-> v]

Phase == {"idle", "version", "write", "read", "repair", "ok", "failed", "lost"}

Replicas(q) == replicasFor[key[q]]

Answered(q) == {r \in Replicas(q) : seen[q][r] # Unread}

\* The values that the read round of q found.
Found(q) == {seen[q][r] : r \in Answered(q)} \ {Nil}

\* A finished request whose value is known to be on a write quorum: every
\* successful write, and every get that found the newest value on, or brought
\* it to, that many replicas.
Settled(p) ==
    pc[p] = "ok" /\ value[p] # Nil /\ Cardinality(acks[p]) >= writeQuorum

TypeOK ==
    /\ store \in [Node -> [Key -> MaybeValue]]
    /\ version \in [Node -> Nat]
    /\ hints \in [Node -> [Node -> [Key -> MaybeValue]]]
    /\ flush \in [Node -> SUBSET Message]
    /\ delayed \subseteq Message
    /\ pc \in [Request -> Phase]
    /\ coord \in [Request -> Node \cup {Nil}]
    /\ key \in [Request -> Key \cup {Nil}]
    /\ wait \in [Request -> SUBSET Node]
    /\ seen \in [Request -> [Node -> MaybeValue \cup {Unread}]]
    /\ acks \in [Request -> SUBSET Node]
    /\ value \in [Request -> MaybeValue]
    /\ floor \in [Request -> SUBSET Request]
    /\ errors \in 0 .. MaxErrors
    /\ crashes \in 0 .. MaxCrashes

Init ==
    /\ store = [n \in Node |-> [k \in Key |-> Nil]]
    /\ version = [n \in Node |-> 0]
    /\ hints = [n \in Node |-> [r \in Node |-> [k \in Key |-> Nil]]]
    /\ flush = [n \in Node |-> {}]
    /\ delayed = {}
    /\ pc = [q \in Request |-> "idle"]
    /\ coord = [q \in Request |-> Nil]
    /\ key = [q \in Request |-> Nil]
    /\ wait = [q \in Request |-> {}]
    /\ seen = [q \in Request |-> [n \in Node |-> Unread]]
    /\ acks = [q \in Request |-> {}]
    /\ value = [q \in Request |-> Nil]
    /\ floor = [q \in Request |-> {}]
    /\ errors = 0
    /\ crashes = 0

-----------------------------------------------------------------------------
(* Effects of one call *)

\* Faulty SetAt: the last write to arrive wins, whatever its version.
SetAtUnordered(m) == store' = [store EXCEPT ![m.Replica][m.Key] = m.Value]

\* Memory.Set of message m at its replica.
SetAt(m) ==
    store' = [store EXCEPT ![m.Replica][m.Key] = KeepNewest(@, m.Value)]

\* putReplica of m fails at node n.  A remote PUT may still execute later; a
\* local Set that could not append to its log has changed nothing.
PutFails(n, m) ==
    /\ errors < MaxErrors
    /\ errors' = errors + 1
    /\ delayed' = IF m.Replica = n THEN delayed ELSE delayed \cup {m}

\* Faulty AddHint: nothing is kept.
AddHintLost(n, m) == UNCHANGED hints

\* hintStore.Add at node n.
AddHint(n, m) ==
    hints' = [hints EXCEPT ![n][m.Replica][m.Key] = KeepNewest(@, m.Value)]

\* Faulty RemoveIfMatch: the version is not compared.
RemoveAnyHint(n, m) == hints' = [hints EXCEPT ![n][m.Replica][m.Key] = Nil]

\* hintStore.RemoveIfMatch at node n: a hint replaced since it was listed stays.
RemoveIfMatch(n, m) ==
    LET current == hints[n][m.Replica][m.Key]
    IN  IF current # Nil /\ CompareVersion(current.Version, m.Value.Version) = 0
        THEN hints' = [hints EXCEPT ![n][m.Replica][m.Key] = Nil]
        ELSE UNCHANGED hints

-----------------------------------------------------------------------------
(* The read round, shared by nextVersion and Get *)

Begin(q, n, k, phase) ==
    /\ pc[q] = "idle"
    /\ pc' = [pc EXCEPT ![q] = phase]
    /\ coord' = [coord EXCEPT ![q] = n]
    /\ key' = [key EXCEPT ![q] = k]
    /\ wait' = [wait EXCEPT ![q] = replicasFor[k]]
    /\ floor' = [floor EXCEPT ![q] = {p \in Request : key[p] = k /\ Settled(p)}]
    /\ UNCHANGED <<store, version, hints, flush, delayed, seen, acks, value,
                   errors, crashes>>

\* Put or Delete: nextVersion starts reading, unless the ring has too few nodes.
StartWrite(q, n, k) ==
    /\ q \in Write
    /\ IF Cardinality(replicasFor[k]) < readQuorum
       THEN Begin(q, n, k, "failed")
       ELSE Begin(q, n, k, "version")

StartGet(q, n, k) ==
    /\ q \in Gets
    /\ Begin(q, n, k, "read")

Reading(q, r) == pc[q] \in {"version", "read"} /\ r \in wait[q]

\* getReplica succeeds; a key that is not there is an answer too.
ReadReply(q, r) ==
    /\ Reading(q, r)
    /\ seen' = [seen EXCEPT ![q][r] = store[r][key[q]]]
    /\ wait' = [wait EXCEPT ![q] = @ \ {r}]
    /\ UNCHANGED <<store, version, hints, flush, delayed, pc, coord, key, acks,
                   value, floor, errors, crashes>>

\* getReplica of a remote replica fails; a local read cannot.
ReadError(q, r) ==
    /\ Reading(q, r)
    /\ r # coord[q]
    /\ errors < MaxErrors
    /\ errors' = errors + 1
    /\ wait' = [wait EXCEPT ![q] = @ \ {r}]
    /\ UNCHANGED <<store, version, hints, flush, delayed, pc, coord, key, seen,
                   acks, value, floor, crashes>>

ReadDone(q) == pc[q] \in {"version", "read"} /\ wait[q] = {}

ReadQuorumMet(q) == Cardinality(Answered(q)) >= readQuorum

\* Both rounds end with an error when too few replicas answered.
ReadQuorumMissed(q) ==
    /\ ReadDone(q)
    /\ ~ReadQuorumMet(q)
    /\ pc' = [pc EXCEPT ![q] = "failed"]
    /\ seen' = [seen EXCEPT ![q] = [n \in Node |-> Unread]]
    /\ UNCHANGED <<store, version, hints, flush, delayed, coord, key, wait, acks,
                   value, floor, errors, crashes>>

-----------------------------------------------------------------------------
(* Put and Delete *)

\* Faulty Counters: only the coordinator's own counter, or only what was read.
CountersLocal(q) == {version[coord[q]]}

CountersRead(q) == {0} \cup {v.Version.Counter : v \in Found(q)}

\* The counters that nextVersion goes above: those it read and the last one that
\* the coordinator allocated, for whatever key.
Counters(q) == {v.Version.Counter : v \in Found(q)} \cup {version[coord[q]]}

\* Faulty NewValue: the payload is left out.
NewValueBlank(q, v) == [Data |-> Nil, Version |-> v, Deleted |-> q \in Deletes]

NewValue(q, v) ==
    IF q \in Puts
    THEN [Data |-> q, Version |-> v, Deleted |-> FALSE]
    ELSE [Data |-> NoData, Version |-> v, Deleted |-> TRUE]

\* The compare-and-swap of nextVersion, and the start of replicateValue.
AllocateVersion(q) ==
    /\ pc[q] = "version"
    /\ ReadDone(q)
    /\ ReadQuorumMet(q)
    /\ \E base \in Counters(q) :
          /\ \A c \in Counters(q) : c <= base
          /\ version' = [version EXCEPT ![coord[q]] = base + 1]
          /\ value' = [value EXCEPT ![q] =
                          NewValue(q, [Counter |-> base + 1, NodeID |-> coord[q]])]
    /\ pc' = [pc EXCEPT ![q] = "write"]
    /\ wait' = [wait EXCEPT ![q] = Replicas(q)]
    /\ seen' = [seen EXCEPT ![q] = [n \in Node |-> Unread]]
    /\ UNCHANGED <<store, hints, flush, delayed, coord, key, acks, floor, errors,
                   crashes>>

\* The PUT of q's value to replica r, in a write round or in a repair.
PutTo(q, r) == PutMessage(r, key[q], value[q])

\* putReplica succeeds, for a write or for a repair: the replica executes Set
\* and answers.
PutReply(q, r) ==
    /\ pc[q] \in {"write", "repair"}
    /\ r \in wait[q]
    /\ SetAt(PutTo(q, r))
    /\ wait' = [wait EXCEPT ![q] = @ \ {r}]
    /\ acks' = [acks EXCEPT ![q] = @ \cup {r}]
    /\ UNCHANGED <<version, hints, flush, delayed, pc, coord, key, seen, value,
                   floor, errors, crashes>>

\* putReplica fails: the coordinator keeps a hint, for itself too.
PutError(q, r) ==
    /\ pc[q] = "write"
    /\ r \in wait[q]
    /\ PutFails(coord[q], PutTo(q, r))
    /\ AddHint(coord[q], PutTo(q, r))
    /\ wait' = [wait EXCEPT ![q] = @ \ {r}]
    /\ UNCHANGED <<store, version, flush, pc, coord, key, seen, acks, value, floor,
                   crashes>>

\* The end of replicateValue: the client learns whether W replicas answered.
FinishWrite(q) ==
    /\ pc[q] = "write"
    /\ wait[q] = {}
    /\ pc' = [pc EXCEPT ![q] =
                IF Cardinality(acks[q]) >= writeQuorum THEN "ok" ELSE "failed"]
    /\ UNCHANGED <<store, version, hints, flush, delayed, coord, key, wait, seen,
                   acks, value, floor, errors, crashes>>

-----------------------------------------------------------------------------
(* Get *)

\* No replica has the key.
NotFound(q) ==
    /\ pc[q] = "read"
    /\ ReadDone(q)
    /\ ReadQuorumMet(q)
    /\ Found(q) = {}
    /\ pc' = [pc EXCEPT ![q] = "ok"]
    /\ seen' = [seen EXCEPT ![q] = [n \in Node |-> Unread]]
    /\ UNCHANGED <<store, version, hints, flush, delayed, coord, key, wait, acks,
                   value, floor, errors, crashes>>

\* Faulty Latest: the comparison is the wrong way round.
LatestOldest(q) == {v \in Found(q) : \A w \in Found(q) : ~newer(v, w)}

\* The results that Get can end up with as latest: on a tie the first to arrive.
Latest(q) == {v \in Found(q) : \A w \in Found(q) : ~newer(w, v)}

\* The replicas that answered q and must be repaired to latest.
StaleReplicas(q, latest) ==
    {r \in Answered(q) : seen[q][r] = Nil \/ newer(latest, seen[q][r])}

\* Get picks the newest value and starts to repair, one replica after another.
ChooseLatest(q) ==
    /\ pc[q] = "read"
    /\ ReadDone(q)
    /\ ReadQuorumMet(q)
    /\ \E latest \in Latest(q) :
          /\ value' = [value EXCEPT ![q] = latest]
          /\ wait' = [wait EXCEPT ![q] = StaleReplicas(q, latest)]
          /\ acks' = [acks EXCEPT ![q] = Answered(q) \ StaleReplicas(q, latest)]
    /\ pc' = [pc EXCEPT ![q] = "repair"]
    /\ seen' = [seen EXCEPT ![q] = [n \in Node |-> Unread]]
    /\ UNCHANGED <<store, version, hints, flush, delayed, coord, key, floor, errors,
                   crashes>>

\* A failed repair is only logged: it leaves no hint.
RepairError(q, r) ==
    /\ pc[q] = "repair"
    /\ r \in wait[q]
    /\ PutFails(coord[q], PutTo(q, r))
    /\ wait' = [wait EXCEPT ![q] = @ \ {r}]
    /\ UNCHANGED <<store, version, hints, flush, pc, coord, key, seen, acks, value,
                   floor, crashes>>

FinishGet(q) ==
    /\ pc[q] = "repair"
    /\ wait[q] = {}
    /\ pc' = [pc EXCEPT ![q] = "ok"]
    /\ UNCHANGED <<store, version, hints, flush, delayed, coord, key, wait, seen,
                   acks, value, floor, errors, crashes>>

-----------------------------------------------------------------------------
(* Hinted handoff and late messages *)

\* hintStore.List at node n.
List(n) ==
    {PutMessage(rk[1], rk[2], hints[n][rk[1]][rk[2]]) :
        rk \in {x \in Node \X Key : hints[n][x[1]][x[2]] # Nil}}

\* A tick of the handoff task: flushHints lists the hints.
FlushStart(n) ==
    /\ flush[n] = {}
    /\ flush' = [flush EXCEPT ![n] = List(n)]
    /\ UNCHANGED <<store, version, hints, delayed, requestVars, errors, crashes>>

FlushReply(n, m) ==
    /\ m \in flush[n]
    /\ SetAt(m)
    /\ RemoveIfMatch(n, m)
    /\ flush' = [flush EXCEPT ![n] = @ \ {m}]
    /\ UNCHANGED <<version, delayed, requestVars, errors, crashes>>

FlushError(n, m) ==
    /\ m \in flush[n]
    /\ PutFails(n, m)
    /\ flush' = [flush EXCEPT ![n] = @ \ {m}]
    /\ UNCHANGED <<store, version, hints, requestVars, crashes>>

\* A PUT whose sender gave up reaches its replica's handler after all.
LateDelivery(m) ==
    /\ m \in delayed
    /\ SetAt(m)
    /\ delayed' = delayed \ {m}
    /\ UNCHANGED <<version, hints, flush, requestVars, errors, crashes>>

-----------------------------------------------------------------------------
(* Crash and restart of a node *)

Running(q) == pc[q] \in {"version", "write", "read", "repair"}

\* PUTs that node n may have sent and not collected.  A write round sends all of
\* its PUTs at once; repairs and handoffs go one by one, in any order.
InFlight(n) ==
    LET sending == {q \in Request : coord[q] = n /\ pc[q] \in {"write", "repair"}}
        puts == UNION {{PutTo(q, r) : r \in wait[q]} : q \in sending}
    IN  {m \in puts \cup flush[n] : m.Replica # n}

\* The counters that node n has in its store.  No entry is ever removed here, so
\* the largest of them is Memory.MaxVersionCounter.
StoredCounters(n) ==
    {0} \cup {store[n][k].Version.Counter : k \in {x \in Key : store[n][x] # Nil}}

\* Node n loses what it has in memory: its hints, its counter and the requests
\* it coordinates.  New restores the counter from the store.
CrashRestart(n) ==
    /\ n \in Crashing
    /\ crashes < MaxCrashes
    /\ crashes' = crashes + 1
    /\ \E max \in StoredCounters(n) :
          /\ \A c \in StoredCounters(n) : c <= max
          /\ version' = [version EXCEPT ![n] = max]
    /\ hints' = [hints EXCEPT ![n] = [r \in Node |-> [k \in Key |-> Nil]]]
    /\ flush' = [flush EXCEPT ![n] = {}]
    /\ \E late \in SUBSET InFlight(n) : delayed' = delayed \cup late
    /\ pc' = [q \in Request |-> IF coord[q] = n /\ Running(q) THEN "lost" ELSE pc[q]]
    /\ UNCHANGED <<store, coord, key, wait, seen, acks, value, floor, errors>>

-----------------------------------------------------------------------------

StartStep(q) ==
    \E n \in Coordinators, k \in Key : StartWrite(q, n, k) \/ StartGet(q, n, k)

\* One step of the goroutines that serve request q.
RequestStep(q) ==
    \/ \E r \in Node :
          \/ ReadReply(q, r)
          \/ ReadError(q, r)
          \/ PutReply(q, r)
          \/ PutError(q, r)
          \/ RepairError(q, r)
    \/ ReadQuorumMissed(q)
    \/ AllocateVersion(q)
    \/ FinishWrite(q)
    \/ NotFound(q)
    \/ ChooseLatest(q)
    \/ FinishGet(q)

\* One step of node n's handoff task.
FlushStep(n) ==
    \/ FlushStart(n)
    \/ \E m \in flush[n] : FlushReply(n, m) \/ FlushError(n, m)

Next ==
    \/ \E q \in Request : StartStep(q) \/ RequestStep(q)
    \/ \E n \in Node : FlushStep(n) \/ CrashRestart(n)
    \/ \E m \in delayed : LateDelivery(m)

Spec == Init /\ [][Next]_vars

\* A request that was accepted runs to its end, since every call returns or
\* times out, and the handoff task ticks for ever.  Nothing makes a client send
\* a request, and a delayed PUT need not arrive.
Fairness ==
    /\ \A q \in Request : WF_vars(RequestStep(q))
    /\ \A n \in Node : WF_vars(FlushStep(n))

FairSpec == Spec /\ Fairness

-----------------------------------------------------------------------------
(* Properties *)

\* Get: a get returns, as of its decision, nothing older than any request that
\* had settled before it began: neither an acknowledged write nor a get that
\* left its value on a write quorum is ever forgotten (read quorum, read repair,
\* handoff and late messages included).
ReadSeesSettled ==
    \A q \in Gets : pc[q] \in {"repair", "ok"} =>
        \A p \in floor[q] : value[q] # Nil /\ AtLeast(value[q], value[p])

\* nextVersion: a write gets a version above that of every request that had
\* settled before it began, on whatever node each of them was coordinated, so
\* that the later write wins on every replica.
WriteAboveSettled ==
    \A q \in Write : value[q] # Nil =>
        \A p \in floor[q] : newer(value[q], value[p])

\* nextVersion: the version orders the values of a key, as the comments on its
\* compare-and-swap promise: two replicas that hold the same version of a key
\* hold the same value.  Otherwise neither is newer and nothing ever makes them
\* agree.
SameVersionSameValue ==
    \A n, m \in Node, k \in Key :
        /\ store[n][k] # Nil
        /\ store[m][k] # Nil
        /\ CompareVersion(store[n][k].Version, store[m][k].Version) = 0
        => store[n][k] = store[m][k]

\* replicateValue and flushHints: once a write has its result for a replica,
\* that replica has the value or something newer, or the coordinator still keeps
\* a hint that will bring it, whichever way handoff races with new hints.
HintedOrStored ==
    crashes = 0 =>
        \A q \in Write : value[q] # Nil =>
            \A r \in Replicas(q) \ wait[q] :
                \/ AtLeast(store[r][key[q]], value[q])
                \/ AtLeast(hints[coord[q]][r][key[q]], value[q])

\* Every entry that the step changes becomes strictly newer.
EntriesGrow ==
    \A n \in Node, k \in Key : store[n][k] # store'[n][k] =>
        store'[n][k] # Nil /\ (store[n][k] # Nil => newer(store'[n][k], store[n][k]))

\* Memory.Set: no step of any request, repair, handoff, late message or restart
\* replaces what a replica stores by something that is not strictly newer.
StoreMonotonic == [][EntriesGrow]_store

\* Hinted handoff: every write that was sent to the replicas, whether its client
\* saw success or failure, is in the end on all of them unless a newer one is.
WritesConverge ==
    \A q \in Write :
        value[q] # Nil ~>
            (value[q] # Nil /\ \A r \in Replicas(q) : AtLeast(store[r][key[q]], value[q]))

=============================================================================
