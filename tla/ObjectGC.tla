------------------------------ MODULE ObjectGC ------------------------------
(***************************************************************************)
(* Objects, their chunks, and the cluster-wide collection of chunks:       *)
(* object.Store (internal/object/store.go), chunk replication              *)
(* (internal/node/chunk.go), the chunk files of a node                     *)
(* (internal/chunk/store.go) and mark-and-sweep (internal/node/gc.go).     *)
(*                                                                         *)
(* An upload stores its chunks one after the other, each on a write quorum *)
(* of the chunk's replicas, and then writes a manifest that names them     *)
(* under a key of the key-value store.  A collector asks every member      *)
(* which chunks its manifests name, then tells every member to remove the  *)
(* files that none of them named and that were not touched since the grace *)
(* period before the round began.                                          *)
(*                                                                         *)
(* A chunk is its identifier, so bytes are not modelled; a file may rot,   *)
(* and the checksum finds out.  The order of an object's chunks, of the    *)
(* members and of the replicas is left open.  Of the key-value store only  *)
(* what a manifest write does is kept: it gets a version above all earlier *)
(* ones (ReplicatedKV examines versions), reaches each replica or not, and *)
(* is spread later by hints and read repair.  The members are fixed; a     *)
(* configuration change shows as a new configuration version.              *)
(***************************************************************************)
EXTENDS Integers, FiniteSets

CONSTANTS
    Node,          \* the members, as integers in the order of their addresses
    Chunk,         \* chunk identifiers
    Object,        \* object names
    Puts,          \* identifiers of uploads
    Deletes,       \* identifiers of deletions
    Reader,        \* identifiers of downloads
    Contents,      \* the sets of chunks an upload can have
    Collector,     \* members that are asked to run a collection
    chunkReplicas, \* the replicas of a chunk
    metaReplicas,  \* the replicas of the manifest key of an object
    writeQuorum,   \* W
    readQuorum,    \* R
    gracePeriod,   \* defaultGCGracePeriod
    UploadLimit,   \* how long an upload may take, from its first byte on
    Skew,          \* how far each member's clock is ahead
    Old,           \* the chunk files of a former life, as <<member, chunk>>
    Nil,           \* no write, no chunk
    MaxTime,       \* bound: the time
    MaxWrites,     \* bound: uploads and deletions that begin
    MaxFaults      \* bound: calls that fail, files that rot, configuration changes

Write == Puts \cup Deletes

ASSUME WriteAssumption ==
    /\ Puts \cap Deletes = {}
    /\ Nil \notin Write
    /\ Nil \notin Chunk
    /\ \A C \in Contents : C \subseteq Chunk

ASSUME PlacementAssumption ==
    /\ Node \subseteq Int
    /\ \A c \in Chunk : chunkReplicas[c] \subseteq Node
    /\ \A o \in Object : metaReplicas[o] \subseteq Node /\ IsFiniteSet(metaReplicas[o])
    /\ Collector \subseteq Node

\* Every read quorum of manifests meets every write quorum.
ASSUME QuorumAssumption ==
    /\ writeQuorum \in Nat \ {0}
    /\ readQuorum \in Nat
    /\ \A o \in Object : writeQuorum + readQuorum > Cardinality(metaReplicas[o])

ASSUME TimeAssumption ==
    /\ gracePeriod \in Nat
    /\ UploadLimit \in Nat
    /\ \A n \in Node : Skew[n] \in Int

ASSUME BoundAssumption ==
    /\ MaxTime \in Nat
    /\ MaxWrites \in Nat
    /\ MaxFaults \in Nat

VARIABLES
    now,     \* the real time
    file,    \* file[n][c]: the file of chunk c at member n
    meta,    \* meta[n][o]: the write whose manifest member n holds for o
    config,  \* configVersion of each member
    pc,      \* where each write is
    object,  \* its object
    content, \* the chunks of its manifest; a tombstone has none
    todo,    \* the chunks it has still to store
    current, \* the chunk it is storing
    wait,    \* the replicas whose result is outstanding
    acks,    \* the replicas that have confirmed
    version, \* the version of its manifest, 0 before it has one
    last,    \* the last version that was given to a manifest
    began,   \* when it began, 0 when it has ended
    round,   \* the collection each member is running
    late,    \* sweeps that a member may still run for a collector that gave up
    reader,  \* each download
    repair,  \* what repairChunk has still to do
    rot,     \* a file has rotted
    faults   \* faults so far

writeVars == <<pc, object, content, todo, current, wait, acks, version, last, began>>
vars == <<now, file, meta, config, writeVars, round, late, reader, repair, rot, faults>>

File == [kind : {"none", "good", "bad"}, mtime : Int]

NoFile == [kind |-> "none", mtime |-> 0]

\* A file that was there when member n started.
OldFile(n) == [kind |-> "good", mtime |-> Skew[n] - gracePeriod]

Round == [pc : {"idle", "mark", "sweep"}, version : Nat, cutoff : Int,
          left : SUBSET Node, live : SUBSET Chunk]

Idle == [pc |-> "idle", version |-> 0, cutoff |-> 0, left |-> {}, live |-> {}]

\* What a member was asked to sweep.
Sweep == [member : Node, live : SUBSET Chunk, cutoff : Int]

Download == [pc : {"idle", "reading", "whole", "cut"}, manifest : Puts \cup {Nil},
             todo : SUBSET Chunk, current : Chunk \cup {Nil},
             left : SUBSET Node, faulty : BOOLEAN]

\* One replica that repairChunk has still to look at, or has found lacking.
Repair == [chunk : Chunk, replica : Node, lacking : BOOLEAN]

TypeOK ==
    /\ now \in Nat
    /\ file \in [Node -> [Chunk -> File]]
    /\ meta \in [Node -> [Object -> Write \cup {Nil}]]
    /\ config \in [Node -> Nat]
    /\ pc \in [Write -> {"idle", "next", "chunk", "commit", "ok", "failed"}]
    /\ object \in [Write -> Object]
    /\ content \in [Write -> SUBSET Chunk]
    /\ todo \in [Write -> SUBSET Chunk]
    /\ current \in [Write -> Chunk \cup {Nil}]
    /\ wait \in [Write -> SUBSET Node]
    /\ acks \in [Write -> SUBSET Node]
    /\ version \in [Write -> Nat]
    /\ last \in Nat
    /\ began \in [Write -> Nat]
    /\ round \in [Node -> Round]
    /\ late \subseteq Sweep
    /\ reader \in [Reader -> Download]
    /\ repair \subseteq Repair
    /\ rot \in BOOLEAN
    /\ faults \in Nat

Init ==
    /\ now = 0
    /\ file = [n \in Node |->
                 [c \in Chunk |-> IF <<n, c>> \in Old THEN OldFile(n) ELSE NoFile]]
    /\ meta = [n \in Node |-> [o \in Object |-> Nil]]
    /\ config = [n \in Node |-> 0]
    /\ pc = [w \in Write |-> "idle"]
    /\ object \in [Write -> Object]
    /\ content = [w \in Write |-> {}]
    /\ todo = [w \in Write |-> {}]
    /\ current = [w \in Write |-> Nil]
    /\ wait = [w \in Write |-> {}]
    /\ acks = [w \in Write |-> {}]
    /\ version = [w \in Write |-> 0]
    /\ last = 0
    /\ began = [w \in Write |-> 0]
    /\ round = [n \in Node |-> Idle]
    /\ late = {}
    /\ reader = [r \in Reader |->
                   [pc |-> "idle", manifest |-> Nil, todo |-> {}, current |-> Nil,
                    left |-> {}, faulty |-> FALSE]]
    /\ repair = {}
    /\ rot = FALSE
    /\ faults = 0

-----------------------------------------------------------------------------
(* The chunk files of one member *)

Clock(n) == now + Skew[n]

Fault == faults < MaxFaults /\ faults' = faults + 1

\* Faulty StoreChunk: a file that is there keeps its time.
StoreChunkStale(n, c) ==
    file' = [file EXCEPT ![n][c] =
               IF @.kind = "good" THEN @ ELSE [kind |-> "good", mtime |-> Clock(n)]]

\* chunk.Store.Put: a good file has its time refreshed; anything else is replaced, by
\* the rename of a complete temporary file, so no partial file is ever seen.
StoreChunk(n, c) ==
    file' = [file EXCEPT ![n][c] = [kind |-> "good", mtime |-> Clock(n)]]

\* What chunk.Store.Sweep removes at member n.
Garbage(n, live, cutoff) ==
    {c \in Chunk : /\ file[n][c].kind # "none"
                   /\ c \notin live
                   /\ file[n][c].mtime < cutoff}

RemoveFiles(n, D) ==
    file' = [file EXCEPT ![n] = [c \in Chunk |-> IF c \in D THEN NoFile ELSE file[n][c]]]

-----------------------------------------------------------------------------
(* Uploads and deletions *)

\* Another write may begin.
Room == Cardinality({w \in Write : pc[w] # "idle"}) < MaxWrites

Active(w) == pc[w] \in {"next", "chunk", "commit"}

\* Node.Put and Node.Delete of the manifest key: nextVersion, then replicateValue.
BeginCommit(w) ==
    /\ last' = last + 1
    /\ version' = [version EXCEPT ![w] = last + 1]
    /\ pc' = [pc EXCEPT ![w] = "commit"]
    /\ wait' = [wait EXCEPT ![w] = metaReplicas[object[w]]]

\* handleObjectPut and object.Store.Put.
StartPut(w, C) ==
    /\ w \in Puts
    /\ pc[w] = "idle"
    /\ Room
    /\ pc' = [pc EXCEPT ![w] = "next"]
    /\ content' = [content EXCEPT ![w] = C]
    /\ todo' = [todo EXCEPT ![w] = C]
    /\ began' = [began EXCEPT ![w] = now]
    /\ UNCHANGED <<now, file, meta, config, object, current, wait, acks, version, last,
                   round, late, reader, repair, rot, faults>>

\* writeChunks has read the next chunk: PutChunk.
StartChunk(w, c) ==
    /\ pc[w] = "next"
    /\ c \in todo[w]
    /\ pc' = [pc EXCEPT ![w] = "chunk"]
    /\ current' = [current EXCEPT ![w] = c]
    /\ wait' = [wait EXCEPT ![w] = chunkReplicas[c]]
    /\ UNCHANGED <<now, file, meta, config, object, content, todo, acks, version, last, began,
                   round, late, reader, repair, rot, faults>>

\* putChunkReplica: member n stores the chunk and says so.
PutChunkReplica(w, n) ==
    /\ pc[w] = "chunk"
    /\ n \in wait[w]
    /\ StoreChunk(n, current[w])
    /\ wait' = [wait EXCEPT ![w] = @ \ {n}]
    /\ acks' = [acks EXCEPT ![w] = @ \cup {n}]
    /\ UNCHANGED <<now, meta, config, pc, object, content, todo, current, version, last, began,
                   round, late, reader, repair, rot, faults>>

\* The call fails; the member may have stored the chunk all the same.
PutChunkReplicaFails(w, n) ==
    /\ pc[w] = "chunk"
    /\ n \in wait[w]
    /\ StoreChunk(n, current[w]) \/ UNCHANGED file
    /\ wait' = [wait EXCEPT ![w] = @ \ {n}]
    /\ Fault
    /\ UNCHANGED <<now, meta, config, pc, object, content, todo, current, acks, version, last,
                   began, round, late, reader, repair, rot>>

\* The upload ends with an error: nothing refers to the chunks it has stored.
Abandon(w) ==
    /\ pc' = [pc EXCEPT ![w] = "failed"]
    /\ content' = [content EXCEPT ![w] = {}]
    /\ todo' = [todo EXCEPT ![w] = {}]
    /\ began' = [began EXCEPT ![w] = 0]

\* PutChunk has all results.
PutChunkDone(w) ==
    /\ pc[w] = "chunk"
    /\ wait[w] = {}
    /\ IF Cardinality(acks[w]) < writeQuorum
       THEN Abandon(w)
       ELSE /\ pc' = [pc EXCEPT ![w] = "next"]
            /\ todo' = [todo EXCEPT ![w] = @ \ {current[w]}]
            /\ UNCHANGED <<content, began>>
    /\ current' = [current EXCEPT ![w] = Nil]
    /\ acks' = [acks EXCEPT ![w] = {}]
    /\ UNCHANGED <<now, file, meta, config, object, wait, version, last,
                   round, late, reader, repair, rot, faults>>

\* All chunks are stored: the manifest is written.
CommitPut(w) ==
    /\ pc[w] = "next"
    /\ todo[w] = {}
    /\ BeginCommit(w)
    /\ UNCHANGED <<now, file, meta, config, object, content, todo, current, acks, began,
                   round, late, reader, repair, rot, faults>>

\* object.Store.Delete: a tombstone replaces the manifest.
StartDelete(w) ==
    /\ w \in Deletes
    /\ pc[w] = "idle"
    /\ Room
    /\ BeginCommit(w)
    /\ began' = [began EXCEPT ![w] = now]
    /\ UNCHANGED <<now, file, meta, config, object, content, todo, current, acks,
                   round, late, reader, repair, rot, faults>>

\* The body cannot be read, or nextVersion finds no quorum.
WriteFails(w) ==
    /\ pc[w] = "next"
    /\ Abandon(w)
    /\ Fault
    /\ UNCHANGED <<now, file, meta, config, object, current, wait, acks,
                   version, last, round, late, reader, repair, rot>>

\* Memory.Set of the value of write w at member n: only what is newer is kept.
SetManifest(n, w) ==
    meta' = [meta EXCEPT ![n][object[w]] =
               IF @ = Nil \/ version[@] < version[w] THEN w ELSE @]

\* putReplica of the manifest.
CommitReplica(w, n) ==
    /\ pc[w] = "commit"
    /\ n \in wait[w]
    /\ SetManifest(n, w)
    /\ wait' = [wait EXCEPT ![w] = @ \ {n}]
    /\ acks' = [acks EXCEPT ![w] = @ \cup {n}]
    /\ UNCHANGED <<now, file, config, pc, object, content, todo, current, version, last, began,
                   round, late, reader, repair, rot, faults>>

CommitReplicaFails(w, n) ==
    /\ pc[w] = "commit"
    /\ n \in wait[w]
    /\ wait' = [wait EXCEPT ![w] = @ \ {n}]
    /\ Fault
    /\ UNCHANGED <<now, file, meta, config, pc, object, content, todo, current, acks,
                   version, last, began, round, late, reader, repair, rot>>

CommitDone(w) ==
    /\ pc[w] = "commit"
    /\ wait[w] = {}
    /\ pc' = [pc EXCEPT ![w] = IF Cardinality(acks[w]) >= writeQuorum THEN "ok" ELSE "failed"]
    /\ began' = [began EXCEPT ![w] = 0]
    /\ UNCHANGED <<now, file, meta, config, object, content, todo, current, wait, acks,
                   version, last, round, late, reader, repair, rot, faults>>

\* A hint, a read repair or the call its sender gave up on brings the value of w to a
\* replica that did not confirm it, at any later time, whatever became of w itself.
SpreadManifest(w, n) ==
    /\ version[w] > 0
    /\ n \in metaReplicas[object[w]] \ (wait[w] \cup acks[w])
    /\ SetManifest(n, w)
    /\ UNCHANGED <<now, file, config, writeVars, round, late, reader, repair, rot, faults>>

-----------------------------------------------------------------------------
(* Collection *)

\* markLiveChunks at member n: the chunks its undeleted manifests name.
LiveChunks(n) ==
    UNION {content[meta[n][o]] : o \in {p \in Object : meta[n][p] # Nil}}

\* Faulty Cutoff: a round begins without one.
CutoffUnset(n) == Nil

Cutoff(n) == Clock(n) - gracePeriod

EndRound(n) == round' = [round EXCEPT ![n] = Idle]

\* RunGC begins at member n.
StartGC(n) ==
    /\ n \in Collector
    /\ round[n].pc = "idle"
    /\ round' = [round EXCEPT ![n] = [pc |-> "mark", version |-> config[n],
                                      cutoff |-> Cutoff(n), left |-> Node, live |-> {}]]
    /\ UNCHANGED <<now, file, meta, config, writeVars, late, reader, repair, rot, faults>>

\* Members are asked in the order of their addresses.
Turn(n, m) == m \in round[n].left /\ \A x \in round[n].left : m <= x

\* requestGCMark of member m: one with another configuration version ends the round.
MarkMember(n, m) ==
    /\ round[n].pc = "mark"
    /\ Turn(n, m)
    /\ IF config[m] = round[n].version
       THEN round' = [round EXCEPT ![n] =
                        [pc |-> "mark", version |-> @.version, cutoff |-> @.cutoff,
                         left |-> @.left \ {m}, live |-> @.live \cup LiveChunks(m)]]
       ELSE EndRound(n)
    /\ UNCHANGED <<now, file, meta, config, writeVars, late, reader, repair, rot, faults>>

\* Every member has answered; the version is checked again before the sweep.
StartSweep(n) ==
    /\ round[n].pc = "mark"
    /\ round[n].left = {}
    /\ IF config[n] = round[n].version
       THEN round' = [round EXCEPT ![n] =
                        [pc |-> "sweep", version |-> @.version, cutoff |-> @.cutoff,
                         left |-> Node, live |-> @.live]]
       ELSE EndRound(n)
    /\ UNCHANGED <<now, file, meta, config, writeVars, late, reader, repair, rot, faults>>

\* requestGCSweep of member m: Sweep holds the lock that every Put and Get takes.
SweepMember(n, m) ==
    /\ round[n].pc = "sweep"
    /\ Turn(n, m)
    /\ IF config[m] = round[n].version
       THEN /\ RemoveFiles(m, Garbage(m, round[n].live, round[n].cutoff))
            /\ round' = [round EXCEPT ![n] =
                           IF @.left = {m}
                           THEN Idle
                           ELSE [pc |-> "sweep", version |-> @.version,
                                 cutoff |-> @.cutoff, left |-> @.left \ {m},
                                 live |-> @.live]]
       ELSE EndRound(n) /\ UNCHANGED file
    /\ UNCHANGED <<now, meta, config, writeVars, late, reader, repair, rot, faults>>

\* The collector gives up on the sweep of m, or m stops half-way: the round ends, the sweep
\* may have been done, or be done later.
SweepMemberFails(n, m) ==
    /\ round[n].pc = "sweep"
    /\ Turn(n, m)
    /\ config[m] = round[n].version
    /\ late' = late \cup {[member |-> m, live |-> round[n].live, cutoff |-> round[n].cutoff]}
    /\ EndRound(n)
    /\ Fault
    /\ UNCHANGED <<now, file, meta, config, writeVars, reader, repair, rot>>

\* Such a sweep removes some of what it finds.
LateSweep(s, D) ==
    /\ s \in late
    /\ D \subseteq Garbage(s.member, s.live, s.cutoff)
    /\ RemoveFiles(s.member, D)
    /\ late' = late \ {s}
    /\ UNCHANGED <<now, meta, config, writeVars, round, reader, repair, rot, faults>>

\* A member does not answer, or the collector stops.
GCFails(n) ==
    /\ round[n].pc # "idle"
    /\ EndRound(n)
    /\ Fault
    /\ UNCHANGED <<now, file, meta, config, writeVars, late, reader, repair, rot>>

-----------------------------------------------------------------------------
(* Downloads *)

\* The newest of the values that the members of Q hold for object o.
Newest(Q, o) ==
    LET held == {meta[n][o] : n \in Q} \ {Nil}
    IN  IF held = {} THEN Nil
        ELSE CHOOSE w \in held : \A x \in held : version[x] <= version[w]

ReadQuorum(o) == {Q \in SUBSET metaReplicas[o] : Cardinality(Q) >= readQuorum}

SetReader(r, p, m, t, c, l, f) ==
    reader' = [reader EXCEPT ![r] = [pc |-> p, manifest |-> m, todo |-> t, current |-> c,
                                     left |-> l, faulty |-> f]]

\* object.Store.Get: a quorum read of the manifest key finds an object.
StartRead(r, o, Q) ==
    LET w == Newest(Q, o)
    IN  /\ reader[r].pc = "idle"
        /\ Q \in ReadQuorum(o)
        /\ w \in Puts
        /\ content[w] # {}
        /\ SetReader(r, "reading", w, content[w], Nil, {}, FALSE)
        /\ UNCHANGED <<now, file, meta, config, writeVars, round, late, repair, rot, faults>>

\* GetChunk of chunk c is about to ask member n: the first replica of the next chunk, or
\* a replica of the same chunk after one that failed.
Asking(r, c, n) ==
    /\ reader[r].pc = "reading"
    /\ IF reader[r].current = Nil
       THEN c \in reader[r].todo /\ n \in chunkReplicas[c]
       ELSE c = reader[r].current /\ n \in reader[r].left

\* The chunk is written to the client; after the last one the object is complete.
ChunkRead(r, c) ==
    LET d == reader[r]
    IN  IF d.todo = {c}
        THEN SetReader(r, "whole", Nil, {}, Nil, {}, FALSE)
        ELSE SetReader(r, "reading", d.manifest, d.todo \ {c}, Nil, {}, d.faulty)

\* Faulty NextReplica: one bad replica ends the download.
NextReplicaNone(r, c, n, f) ==
    SetReader(r, "cut", reader[r].manifest, reader[r].todo, Nil, {}, reader[r].faulty \/ f)

\* GetChunk goes on to its next replica; when there is none the object is cut short,
\* behind the status 200 that the first chunk has sent.
NextReplica(r, c, n, f) ==
    LET d == reader[r]
        left == (IF d.current = Nil THEN chunkReplicas[c] ELSE d.left) \ {n}
    IN  IF left = {}
        THEN SetReader(r, "cut", d.manifest, d.todo, Nil, {}, d.faulty \/ f)
        ELSE SetReader(r, "reading", d.manifest, d.todo, c, left, d.faulty \/ f)

\* getChunkReplica finds a good copy: repairChunk starts on the other replicas.
GetChunkReplica(r, c, n) ==
    /\ Asking(r, c, n)
    /\ file[n][c].kind = "good"
    /\ ChunkRead(r, c)
    /\ repair' = repair \cup {[chunk |-> c, replica |-> m, lacking |-> FALSE] :
                                m \in chunkReplicas[c] \ {n}}
    /\ UNCHANGED <<now, file, meta, config, writeVars, round, late, rot, faults>>

\* There is no file, or its checksum is wrong.
GetChunkLacking(r, c, n) ==
    /\ Asking(r, c, n)
    /\ file[n][c].kind # "good"
    /\ NextReplica(r, c, n, FALSE)
    /\ UNCHANGED <<now, file, meta, config, writeVars, round, late, repair, rot, faults>>

\* Member n does not answer.
GetChunkFails(r, c, n) ==
    /\ Asking(r, c, n)
    /\ NextReplica(r, c, n, TRUE)
    /\ Fault
    /\ UNCHANGED <<now, file, meta, config, writeVars, round, late, repair, rot>>

\* repairChunk looks at a replica: one with a good copy is left alone.
RepairCheck(p) ==
    /\ p \in repair
    /\ ~p.lacking
    /\ repair' = (repair \ {p}) \cup
         IF file[p.replica][p.chunk].kind = "good" THEN {}
         ELSE {[chunk |-> p.chunk, replica |-> p.replica, lacking |-> TRUE]}
    /\ UNCHANGED <<now, file, meta, config, writeVars, round, late, reader, rot, faults>>

RepairPut(p) ==
    /\ p \in repair
    /\ p.lacking
    /\ StoreChunk(p.replica, p.chunk)
    /\ repair' = repair \ {p}
    /\ UNCHANGED <<now, meta, config, writeVars, round, late, reader, rot, faults>>

\* The repair fails, or its ten seconds are over.
RepairFails(p) ==
    /\ p \in repair
    /\ repair' = repair \ {p}
    /\ Fault
    /\ UNCHANGED <<now, file, meta, config, writeVars, round, late, reader, rot>>

-----------------------------------------------------------------------------
(* The environment *)

\* The grace period outlasts every upload, by any two clocks.
UploadsTimely ==
    \A n \in Collector, m \in Node : UploadLimit + Skew[n] <= gracePeriod + Skew[m]

\* Time passes.  That uploads end within UploadLimit is an assumption: the code sets no
\* limit to them.
Tick ==
    /\ now < MaxTime
    /\ \A w \in Write : Active(w) => now < began[w] + UploadLimit
    /\ now' = now + 1
    /\ UNCHANGED <<file, meta, config, writeVars, round, late, reader, repair, rot, faults>>

\* handleMembershipSync gives member n a newer configuration version.
SyncConfig(n) ==
    /\ Fault
    /\ config' = [config EXCEPT ![n] = @ + 1]
    /\ UNCHANGED <<now, file, meta, writeVars, round, late, reader, repair, rot>>

\* A file goes bad on the disk of member n.
Rot(n, c) ==
    /\ Fault
    /\ file[n][c].kind = "good"
    /\ file' = [file EXCEPT ![n][c] = [kind |-> "bad", mtime |-> file[n][c].mtime]]
    /\ rot' = TRUE
    /\ UNCHANGED <<now, meta, config, writeVars, round, late, reader, repair>>

-----------------------------------------------------------------------------

WriteStep(w) ==
    \/ \E C \in Contents : StartPut(w, C)
    \/ \E c \in Chunk : StartChunk(w, c)
    \/ \E n \in Node : PutChunkReplica(w, n) \/ PutChunkReplicaFails(w, n)
    \/ PutChunkDone(w) \/ CommitPut(w) \/ StartDelete(w) \/ WriteFails(w)
    \/ \E n \in Node : CommitReplica(w, n) \/ CommitReplicaFails(w, n)
    \/ CommitDone(w)
    \/ \E n \in Node : SpreadManifest(w, n)

WriteNext == \E w \in Write : WriteStep(w)

GCNext ==
    \/ \E n \in Node :
        \/ StartGC(n) \/ StartSweep(n) \/ GCFails(n)
        \/ \E m \in Node : MarkMember(n, m) \/ SweepMember(n, m) \/ SweepMemberFails(n, m)
    \/ \E s \in late, D \in SUBSET Chunk : LateSweep(s, D)

ReadNext ==
    \/ \E r \in Reader :
        \/ \E o \in Object : \E Q \in ReadQuorum(o) : StartRead(r, o, Q)
        \/ \E c \in Chunk, n \in Node :
             GetChunkReplica(r, c, n) \/ GetChunkLacking(r, c, n) \/ GetChunkFails(r, c, n)
    \/ \E p \in repair : RepairCheck(p) \/ RepairPut(p) \/ RepairFails(p)

EnvNext ==
    \/ Tick
    \/ \E n \in Node : SyncConfig(n)
    \/ \E n \in Node, c \in Chunk : Rot(n, c)

Next == WriteNext \/ GCNext \/ ReadNext \/ EnvNext

Spec == Init /\ [][Next]_vars

-----------------------------------------------------------------------------
(* Properties *)

\* A chunk has a file on one of its replicas.
Stored(c) == \E n \in chunkReplicas[c] : file[n][c].kind # "none"

\* The newest of what the members of Q hold of object o, as a property sees it.
Visible(Q, o, w) ==
    /\ \E n \in Q : meta[n][o] = w
    /\ \A n \in Q : meta[n][o] # Nil => version[meta[n][o]] <= version[w]

\* A chunk that an upload in progress has stored, or found stored, is not collected
\* before the manifest is written (chunk.Store.Put, Sweep).
UploadKept ==
    \A w \in Puts : Active(w) => \A c \in content[w] \ todo[w] : Stored(c)

\* When a quorum read finds the manifest of an upload that was acknowledged, every chunk
\* the manifest names is still stored: no collection, whenever it began and however many
\* run, has removed a chunk of an object that clients can read (RunGC, Sweep, Put).
CommittedReadable ==
    \A o \in Object : \A Q \in SUBSET metaReplicas[o] : \A w \in Puts :
        Cardinality(Q) >= readQuorum /\ pc[w] = "ok" /\ Visible(Q, o, w)
            => \A c \in content[w] : Stored(c)

\* A download is cut short only for a reason: a replica did not answer, a file rotted, the
\* upload was never acknowledged, or a newer write of the same object has begun (WriteTo,
\* GetChunk).
CutReadsExplained ==
    \A r \in Reader : LET w == reader[r].manifest IN
        reader[r].pc = "cut" =>
            \/ reader[r].faulty
            \/ rot
            \/ pc[w] # "ok"
            \/ \E x \in Write : object[x] = object[w] /\ version[x] > version[w]

=============================================================================
