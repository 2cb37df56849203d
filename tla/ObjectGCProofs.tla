--------------------------- MODULE ObjectGCProofs ---------------------------
(***************************************************************************)
(* Proofs about ObjectGC, for any number of members, chunks, objects,      *)
(* requests and collectors, any placement and any clocks.                  *)
(*                                                                         *)
(* The collector is safe because of two facts about the file of a chunk    *)
(* that a manifest names.  While the upload runs, a file written since it  *)
(* began is younger than every cutoff in use (Fresh).  Once a member has   *)
(* confirmed the manifest and still holds it, every collection in progress *)
(* has that member still to ask, or counts the chunk as live, or has a     *)
(* cutoff before the file's time (Covered).                                *)
(*                                                                         *)
(* A download of the newest manifest finds each chunk at a replica that it *)
(* has still to ask (Served): while the manifest is being written the file *)
(* there is Fresh, and once it was acknowledged the file is Covered, so    *)
(* the file stays however long the download takes.                         *)
(***************************************************************************)
EXTENDS ObjectGC, FiniteSetTheorems, NaturalFacts, TLAPS

\* A file of chunk c at n that was written since write w began.
Fresh(w, c, n) ==
    /\ n \in chunkReplicas[c]
    /\ file[n][c].kind # "none"
    /\ file[n][c].mtime >= began[w] + Skew[n]

\* No collection that is running removes the file of c at n, as long as member x holds a
\* manifest that names c.
Covered(x, c, n) ==
    /\ \A m \in Node :
         \/ round[m].pc = "idle"
         \/ round[m].pc = "mark" /\ x \in round[m].left
         \/ c \in round[m].live
         \/ file[n][c].mtime >= round[m].cutoff
    /\ \A s \in late : c \in s.live \/ file[n][c].mtime >= s.cutoff

\* What a write's fields are in each phase.
Phases ==
    \A w \in Write :
        /\ pc[w] = "idle" => version[w] = 0 /\ acks[w] = {} /\ content[w] = {} /\ todo[w] = {}
        /\ pc[w] = "next" => version[w] = 0 /\ acks[w] = {}
        /\ pc[w] = "chunk" => version[w] = 0 /\ current[w] \in todo[w]
                              /\ wait[w] \subseteq chunkReplicas[current[w]]
        /\ pc[w] \in {"commit", "ok"} => version[w] > 0
        /\ version[w] > 0 => /\ todo[w] = {}
                             /\ pc[w] \in {"commit", "ok", "failed"}
                             /\ acks[w] \subseteq metaReplicas[object[w]]
        /\ pc[w] = "commit" => wait[w] \subseteq metaReplicas[object[w]]
        /\ pc[w] = "ok" => Cardinality(acks[w]) >= writeQuorum

\* Versions are given once.
Versions ==
    /\ \A w \in Write : version[w] <= last
    /\ \A w, x \in Write : version[w] > 0 /\ version[w] = version[x] => w = x

\* A member holds manifests of the object, and at least what it has confirmed.
Manifests ==
    /\ \A n \in Node, o \in Object :
         meta[n][o] # Nil => version[meta[n][o]] > 0 /\ object[meta[n][o]] = o
    /\ \A w \in Write : version[w] > 0 => \A n \in acks[w] :
         /\ meta[n][object[w]] # Nil
         /\ version[meta[n][object[w]]] >= version[w]

\* Uploads are timely, files are not from the future, cutoffs are a grace period old.
Times ==
    /\ \A w \in Write : Active(w) => began[w] <= now /\ now <= began[w] + UploadLimit
    /\ \A n \in Node, c \in Chunk : file[n][c].kind # "none" => file[n][c].mtime <= now + Skew[n]
    /\ \A n \in Node : round[n].pc # "idle" =>
         n \in Collector /\ round[n].cutoff <= now + Skew[n] - gracePeriod
    /\ \A s \in late : \E n \in Collector : s.cutoff <= now + Skew[n] - gracePeriod

\* The chunks of an upload in progress.
Uploaded ==
    \A w \in Write :
        /\ pc[w] = "chunk" => \A n \in acks[w] : Fresh(w, current[w], n)
        /\ Active(w) => \A c \in content[w] \ todo[w] : \E n \in Node : Fresh(w, c, n)

\* The chunks of a manifest that a member has confirmed and holds.
Held ==
    \A w \in Write : version[w] > 0 =>
        \A x \in acks[w] : meta[x][object[w]] = w =>
            \A c \in content[w] : \E n \in chunkReplicas[c] :
                file[n][c].kind # "none" /\ Covered(x, c, n)

-----------------------------------------------------------------------------
(* Types *)

USE DEF Write

LEMMA TypeInit == Init => TypeOK
<1> SUFFICES ASSUME Init PROVE TypeOK
  OBVIOUS
<1>1. NoFile \in File /\ Idle \in Round
  BY DEF NoFile, File, Idle, Round
<1>2. reader \in [Reader -> Download]
  BY DEF Init, Download
<1>3. \A n \in Node : OldFile(n) \in File
  BY TimeAssumption DEF OldFile, File
<1>4. file \in [Node -> [Chunk -> File]]
  BY <1>1, <1>3 DEF Init
<1> QED
  BY <1>1, <1>2, <1>4 DEF Init, TypeOK

\* The chunk files stay files.
LEMMA FileTypes ==
    ASSUME TypeOK, NEW n \in Node, NEW c, NEW D
    PROVE  /\ StoreChunk(n, c) => file' \in [Node -> [Chunk -> File]]
           /\ RemoveFiles(n, D) => file' \in [Node -> [Chunk -> File]]
<1>1. [kind |-> "good", mtime |-> Clock(n)] \in File
  BY TimeAssumption DEF TypeOK, Clock, File
<1>2. NoFile \in File
  BY DEF NoFile, File
<1>3. ASSUME StoreChunk(n, c)
      PROVE  file' \in [Node -> [Chunk -> File]]
  <2>1. [file[n] EXCEPT ![c] = [kind |-> "good", mtime |-> Clock(n)]] \in [Chunk -> File]
    BY <1>1 DEF TypeOK
  <2> QED
    BY <1>3, <2>1 DEF TypeOK, StoreChunk
<1>4. ASSUME RemoveFiles(n, D)
      PROVE  file' \in [Node -> [Chunk -> File]]
  <2>1. [c1 \in Chunk |-> IF c1 \in D THEN NoFile ELSE file[n][c1]] \in [Chunk -> File]
    BY <1>2 DEF TypeOK
  <2> QED
    BY <1>4, <2>1 DEF TypeOK, RemoveFiles
<1> QED
  BY <1>3, <1>4

\* Memory.Set keeps the manifests of a member.
LEMMA ManifestTypes ==
    ASSUME TypeOK, NEW n \in Node, NEW w \in Write, SetManifest(n, w)
    PROVE  meta' \in [Node -> [Object -> Write \cup {Nil}]]
BY DEF TypeOK, SetManifest

\* The steps of an upload or a deletion keep the types.
LEMMA WriteTypes ==
    ASSUME TypeOK, WriteNext
    PROVE  TypeOK'
<1> USE WriteAssumption, PlacementAssumption DEF TypeOK
<1> PICK w \in Write : WriteStep(w)
  BY DEF WriteNext
<1>1. ASSUME NEW C \in Contents, StartPut(w, C)
      PROVE  TypeOK'
  BY <1>1 DEF StartPut
<1>2. ASSUME NEW c \in Chunk, StartChunk(w, c)
      PROVE  TypeOK'
  BY <1>2 DEF StartChunk
<1>3. ASSUME NEW n \in Node, PutChunkReplica(w, n)
      PROVE  TypeOK'
  <2>1. file' \in [Node -> [Chunk -> File]]
    BY <1>3, FileTypes DEF PutChunkReplica
  <2> QED
    BY <1>3, <2>1 DEF PutChunkReplica
<1>4. ASSUME NEW n \in Node, PutChunkReplicaFails(w, n)
      PROVE  TypeOK'
  <2>1. file' \in [Node -> [Chunk -> File]]
    BY <1>4, FileTypes DEF PutChunkReplicaFails
  <2> QED
    BY <1>4, <2>1 DEF PutChunkReplicaFails, Fault
<1>5. CASE PutChunkDone(w)
  <2>1. pc' \in [Write -> {"idle", "next", "chunk", "commit", "ok", "failed"}]
    BY <1>5 DEF PutChunkDone, Abandon
  <2>2. content' \in [Write -> SUBSET Chunk] /\ began' \in [Write -> Nat]
    BY <1>5 DEF PutChunkDone, Abandon
  <2>3. todo' \in [Write -> SUBSET Chunk]
    BY <1>5 DEF PutChunkDone, Abandon
  <2> QED
    BY <1>5, <2>1, <2>2, <2>3 DEF PutChunkDone
<1>6. CASE CommitPut(w)
  BY <1>6 DEF CommitPut, BeginCommit
<1>7. CASE StartDelete(w)
  BY <1>7 DEF StartDelete, BeginCommit
<1>8. CASE WriteFails(w)
  BY <1>8 DEF WriteFails, Abandon, Fault
<1>9. ASSUME NEW n \in Node, CommitReplica(w, n)
      PROVE  TypeOK'
  <2>1. meta' \in [Node -> [Object -> Write \cup {Nil}]]
    BY <1>9, ManifestTypes DEF CommitReplica
  <2> QED
    BY <1>9, <2>1 DEF CommitReplica
<1>10. ASSUME NEW n \in Node, CommitReplicaFails(w, n)
      PROVE  TypeOK'
  BY <1>10 DEF CommitReplicaFails, Fault
<1>11. CASE CommitDone(w)
  BY <1>11 DEF CommitDone
<1>12. ASSUME NEW n \in Node, SpreadManifest(w, n)
      PROVE  TypeOK'
  <2>1. meta' \in [Node -> [Object -> Write \cup {Nil}]]
    BY <1>12, ManifestTypes DEF SpreadManifest
  <2> QED
    BY <1>12, <2>1 DEF SpreadManifest, writeVars
<1> QED
  BY <1>1, <1>2, <1>3, <1>4, <1>5, <1>6, <1>7, <1>8, <1>9, <1>10, <1>11, <1>12
     DEF WriteStep

\* The steps of a collection keep the types.
LEMMA RoundTypes ==
    ASSUME TypeOK, NEW n \in Node, NEW m \in Node,
           \/ StartGC(n) \/ MarkMember(n, m) \/ StartSweep(n) \/ SweepMember(n, m)
           \/ SweepMemberFails(n, m) \/ GCFails(n)
    PROVE  TypeOK'
<1>1. Idle \in Round
  BY DEF Idle, Round
<1>2. LiveChunks(m) \subseteq Chunk
  BY DEF LiveChunks, TypeOK
<1>3. Clock(n) - gracePeriod \in Int
  BY TimeAssumption DEF TypeOK, Clock
<1>4. round'[n] \in Round
  BY <1>1, <1>2, <1>3
     DEF StartGC, MarkMember, StartSweep, SweepMember, SweepMemberFails, GCFails,
         EndRound, Cutoff, TypeOK, Round
<1>5. round' = [round EXCEPT ![n] = round'[n]]
  BY DEF StartGC, MarkMember, StartSweep, SweepMember, SweepMemberFails, GCFails,
         EndRound, TypeOK
<1>6. round' \in [Node -> Round]
  BY <1>4, <1>5 DEF TypeOK
<1>7. file' \in [Node -> [Chunk -> File]]
  BY FileTypes
     DEF StartGC, MarkMember, StartSweep, SweepMember, SweepMemberFails, GCFails, TypeOK
<1>8. UNCHANGED <<now, meta, config, writeVars, reader, repair, rot>> /\ faults' \in Nat
  BY DEF StartGC, MarkMember, StartSweep, SweepMember, SweepMemberFails, GCFails, Fault,
         TypeOK
<1>9. late' \subseteq Sweep
  <2>1. round[n].live \subseteq Chunk /\ round[n].cutoff \in Int
    BY DEF TypeOK, Round
  <2>2. [member |-> m, live |-> round[n].live, cutoff |-> round[n].cutoff] \in Sweep
    BY <2>1 DEF Sweep
  <2> QED
    BY <2>2 DEF StartGC, MarkMember, StartSweep, SweepMember, SweepMemberFails, GCFails, TypeOK
<1> QED
  BY <1>6, <1>7, <1>8, <1>9 DEF TypeOK, writeVars

LEMMA LateTypes ==
    ASSUME TypeOK, NEW s \in late, NEW D, LateSweep(s, D)
    PROVE  TypeOK'
<1>1. s.member \in Node
  BY DEF TypeOK, Sweep
<1>2. file' \in [Node -> [Chunk -> File]]
  BY <1>1, FileTypes DEF LateSweep
<1> QED
  BY <1>2 DEF LateSweep, TypeOK, writeVars

\* The steps of a download and of repairs keep the types.
LEMMA ReadTypes ==
    ASSUME TypeOK, ReadNext
    PROVE  TypeOK'
<1>1. ASSUME NEW r \in Reader, NEW o \in Object, NEW Q \in ReadQuorum(o), StartRead(r, o, Q)
      PROVE  TypeOK'
  BY <1>1 DEF StartRead, SetReader, TypeOK, Download, writeVars
<1>2. ASSUME NEW r \in Reader, NEW c \in Chunk, NEW n \in Node,
             GetChunkReplica(r, c, n) \/ GetChunkLacking(r, c, n) \/ GetChunkFails(r, c, n)
      PROVE  TypeOK'
  <2> DEFINE d == reader[r]
             left == (IF d.current = Nil THEN chunkReplicas[c] ELSE d.left) \ {n}
             done == [pc |-> "whole", manifest |-> Nil, todo |-> {}, current |-> Nil,
                      left |-> {}, faulty |-> FALSE]
             more == [pc |-> "reading", manifest |-> d.manifest, todo |-> d.todo \ {c},
                      current |-> Nil, left |-> {}, faulty |-> d.faulty]
             cut(f) == [pc |-> "cut", manifest |-> d.manifest, todo |-> d.todo,
                        current |-> Nil, left |-> {}, faulty |-> d.faulty \/ f]
             next(f) == [pc |-> "reading", manifest |-> d.manifest, todo |-> d.todo,
                         current |-> c, left |-> left, faulty |-> d.faulty \/ f]
  <2>a. d \in Download /\ chunkReplicas[c] \subseteq Node
    BY PlacementAssumption DEF TypeOK
  <2>b. done \in Download /\ more \in Download
    BY <2>a DEF Download
  <2>c. \A f \in BOOLEAN : cut(f) \in Download /\ next(f) \in Download
    BY <2>a DEF Download
  <2>d. reader \in [Reader -> Download]
    BY DEF TypeOK
  <2>e. \A m \in chunkReplicas[c] :
          [chunk |-> c, replica |-> m, lacking |-> FALSE] \in Repair
    BY <2>a DEF Repair
  <2>1. CASE GetChunkReplica(r, c, n)
    <3>1. reader' = [reader EXCEPT ![r] = done] \/ reader' = [reader EXCEPT ![r] = more]
      BY <2>1 DEF GetChunkReplica, ChunkRead, SetReader
    <3>2. reader' \in [Reader -> Download]
      <4> HIDE DEF done, more
      <4> QED
        BY <3>1, <2>b, <2>d
    <3>3. repair' \subseteq Repair
      BY <2>1, <2>e DEF GetChunkReplica, TypeOK
    <3> QED
      BY <2>1, <3>2, <3>3 DEF GetChunkReplica, TypeOK, writeVars
  <2>2. ASSUME NEW f \in BOOLEAN, NextReplica(r, c, n, f)
        PROVE  reader' \in [Reader -> Download]
    <3>1. reader' = [reader EXCEPT ![r] = cut(f)] \/ reader' = [reader EXCEPT ![r] = next(f)]
      BY <2>2 DEF NextReplica, SetReader
    <3> HIDE DEF cut, next
    <3> QED
      BY <3>1, <2>c, <2>d
  <2>3. CASE GetChunkLacking(r, c, n)
    <3>1. reader' \in [Reader -> Download]
      BY <2>2, <2>3 DEF GetChunkLacking
    <3> QED
      BY <3>1, <2>3 DEF GetChunkLacking, TypeOK, writeVars
  <2>4. CASE GetChunkFails(r, c, n)
    <3>1. reader' \in [Reader -> Download]
      BY <2>2, <2>4 DEF GetChunkFails
    <3> QED
      BY <3>1, <2>4 DEF GetChunkFails, Fault, TypeOK, writeVars
  <2> QED
    BY <1>2, <2>1, <2>3, <2>4
<1>3. ASSUME NEW p \in repair, RepairCheck(p) \/ RepairPut(p) \/ RepairFails(p)
      PROVE  TypeOK'
  <2>1. p.replica \in Node /\ p.chunk \in Chunk
    BY DEF TypeOK, Repair
  <2>2. file' \in [Node -> [Chunk -> File]]
    <3>1. CASE RepairPut(p)
      BY <3>1, <2>1, FileTypes DEF RepairPut
    <3> QED
      BY <1>3, <3>1 DEF RepairCheck, RepairFails, TypeOK
  <2>3. repair' \subseteq Repair
    <3>1. [chunk |-> p.chunk, replica |-> p.replica, lacking |-> TRUE] \in Repair
      BY <2>1 DEF Repair
    <3> QED
      BY <1>3, <3>1 DEF RepairCheck, RepairPut, RepairFails, TypeOK
  <2>4. /\ UNCHANGED <<now, meta, config, writeVars, round, late, reader, rot>>
        /\ faults' \in Nat
    BY <1>3 DEF RepairCheck, RepairPut, RepairFails, Fault, TypeOK
  <2> QED
    BY <2>2, <2>3, <2>4 DEF TypeOK, writeVars
<1> QED
  BY <1>1, <1>2, <1>3 DEF ReadNext

\* Time, configuration changes and rot keep the types.
LEMMA EnvTypes ==
    ASSUME TypeOK, EnvNext
    PROVE  TypeOK'
<1>1. CASE Tick
  BY <1>1 DEF Tick, TypeOK, writeVars
<1>2. ASSUME NEW n \in Node, SyncConfig(n)
      PROVE  TypeOK'
  BY <1>2 DEF SyncConfig, Fault, TypeOK, writeVars
<1>3. ASSUME NEW n \in Node, NEW c \in Chunk, Rot(n, c)
      PROVE  TypeOK'
  <2>1. [kind |-> "bad", mtime |-> file[n][c].mtime] \in File
    BY DEF TypeOK, File
  <2>2. file' \in [Node -> [Chunk -> File]]
    BY <1>3, <2>1 DEF Rot, TypeOK
  <2> QED
    BY <1>3, <2>2 DEF Rot, Fault, TypeOK, writeVars
<1> QED
  BY <1>1, <1>2, <1>3 DEF EnvNext

LEMMA TypeStep == TypeOK /\ [Next]_vars => TypeOK'
<1> SUFFICES ASSUME TypeOK, [Next]_vars PROVE TypeOK'
  OBVIOUS
<1>2. CASE GCNext
  BY <1>2, RoundTypes, LateTypes DEF GCNext
<1>3. CASE UNCHANGED vars
  BY <1>3 DEF vars, writeVars, TypeOK
<1> QED
  BY <1>2, <1>3, WriteTypes, ReadTypes, EnvTypes DEF Next

-----------------------------------------------------------------------------
(* Writes and manifests *)

BookInv == TypeOK /\ Phases /\ Versions /\ Manifests

LEMMA BookInit == Init => Phases /\ Versions /\ Manifests
BY DEF Init, Phases, Versions, Manifests

\* Collections, downloads and the environment leave writes and manifests alone.
LEMMA OthersLeaveWrites ==
    ASSUME GCNext \/ ReadNext \/ EnvNext
    PROVE  UNCHANGED <<meta, writeVars>>
<1>1. CASE GCNext
  BY <1>1 DEF GCNext, StartGC, MarkMember, StartSweep, SweepMember, SweepMemberFails, GCFails,
              LateSweep
<1>2. CASE ReadNext
  BY <1>2 DEF ReadNext, StartRead, GetChunkReplica, GetChunkLacking, GetChunkFails,
              RepairCheck, RepairPut, RepairFails
<1>3. CASE EnvNext
  BY <1>3 DEF EnvNext, Tick, SyncConfig, Rot
<1> QED
  BY <1>1, <1>2, <1>3

LEMMA PhasesStep ==
    ASSUME BookInv, NEW w \in Write, WriteStep(w)
    PROVE  Phases'
<1> USE WriteAssumption, PlacementAssumption DEF BookInv, TypeOK, Phases
<1>1. ASSUME NEW C \in Contents, StartPut(w, C)
      PROVE  Phases'
  BY <1>1 DEF StartPut
<1>2. ASSUME NEW c \in Chunk, StartChunk(w, c)
      PROVE  Phases'
  BY <1>2 DEF StartChunk
<1>3. ASSUME NEW n \in Node, PutChunkReplica(w, n)
      PROVE  Phases'
  BY <1>3 DEF PutChunkReplica, StoreChunk
<1>4. ASSUME NEW n \in Node, PutChunkReplicaFails(w, n)
      PROVE  Phases'
  BY <1>4 DEF PutChunkReplicaFails, StoreChunk
<1>5. CASE PutChunkDone(w)
  BY <1>5 DEF PutChunkDone, Abandon
<1>6. CASE CommitPut(w)
  BY <1>6 DEF CommitPut, BeginCommit
<1>7. CASE StartDelete(w)
  BY <1>7 DEF StartDelete, BeginCommit
<1>8. CASE WriteFails(w)
  BY <1>8 DEF WriteFails, Abandon
<1>9. ASSUME NEW n \in Node, CommitReplica(w, n)
      PROVE  Phases'
  BY <1>9 DEF CommitReplica, SetManifest
<1>10. ASSUME NEW n \in Node, CommitReplicaFails(w, n)
      PROVE  Phases'
  BY <1>10 DEF CommitReplicaFails
<1>11. CASE CommitDone(w)
  BY <1>11 DEF CommitDone
<1>12. ASSUME NEW n \in Node, SpreadManifest(w, n)
      PROVE  Phases'
  BY <1>12 DEF SpreadManifest, SetManifest, writeVars
<1> QED
  BY <1>1, <1>2, <1>3, <1>4, <1>5, <1>6, <1>7, <1>8, <1>9, <1>10, <1>11, <1>12
     DEF WriteStep

LEMMA VersionsStep ==
    ASSUME BookInv, NEW w \in Write, WriteStep(w)
    PROVE  Versions'
<1> USE DEF BookInv, TypeOK, Versions
<1>1. ASSUME NEW C \in Contents, StartPut(w, C)
      PROVE  Versions'
  BY <1>1 DEF StartPut
<1>2. ASSUME NEW c \in Chunk, StartChunk(w, c)
      PROVE  Versions'
  BY <1>2 DEF StartChunk
<1>3. ASSUME NEW n \in Node, PutChunkReplica(w, n)
      PROVE  Versions'
  BY <1>3 DEF PutChunkReplica, StoreChunk
<1>4. ASSUME NEW n \in Node, PutChunkReplicaFails(w, n)
      PROVE  Versions'
  BY <1>4 DEF PutChunkReplicaFails, StoreChunk
<1>5. CASE PutChunkDone(w)
  BY <1>5 DEF PutChunkDone, Abandon
<1>6. CASE CommitPut(w)
  BY <1>6 DEF CommitPut, BeginCommit
<1>7. CASE StartDelete(w)
  BY <1>7 DEF StartDelete, BeginCommit
<1>8. CASE WriteFails(w)
  BY <1>8 DEF WriteFails, Abandon
<1>9. ASSUME NEW n \in Node, CommitReplica(w, n)
      PROVE  Versions'
  BY <1>9 DEF CommitReplica, SetManifest
<1>10. ASSUME NEW n \in Node, CommitReplicaFails(w, n)
      PROVE  Versions'
  BY <1>10 DEF CommitReplicaFails
<1>11. CASE CommitDone(w)
  BY <1>11 DEF CommitDone
<1>12. ASSUME NEW n \in Node, SpreadManifest(w, n)
      PROVE  Versions'
  BY <1>12 DEF SpreadManifest, SetManifest, writeVars
<1> QED
  BY <1>1, <1>2, <1>3, <1>4, <1>5, <1>6, <1>7, <1>8, <1>9, <1>10, <1>11, <1>12
     DEF WriteStep

LEMMA ManifestsStep ==
    ASSUME BookInv, NEW w \in Write, WriteStep(w)
    PROVE  Manifests'
<1> USE WriteAssumption DEF BookInv, TypeOK, Phases, Versions, Manifests
<1>1. ASSUME NEW C \in Contents, StartPut(w, C)
      PROVE  Manifests'
  BY <1>1 DEF StartPut
<1>2. ASSUME NEW c \in Chunk, StartChunk(w, c)
      PROVE  Manifests'
  BY <1>2 DEF StartChunk
<1>3. ASSUME NEW n \in Node, PutChunkReplica(w, n)
      PROVE  Manifests'
  BY <1>3 DEF PutChunkReplica, StoreChunk
<1>4. ASSUME NEW n \in Node, PutChunkReplicaFails(w, n)
      PROVE  Manifests'
  BY <1>4 DEF PutChunkReplicaFails, StoreChunk
<1>5. CASE PutChunkDone(w)
  BY <1>5 DEF PutChunkDone, Abandon
<1>6. CASE CommitPut(w)
  BY <1>6 DEF CommitPut, BeginCommit
<1>7. CASE StartDelete(w)
  BY <1>7 DEF StartDelete, BeginCommit
<1>8. CASE WriteFails(w)
  BY <1>8 DEF WriteFails, Abandon
<1>9. ASSUME NEW n \in Node, CommitReplica(w, n)
      PROVE  Manifests'
  BY <1>9, SMTT(30) DEF CommitReplica, SetManifest
<1>10. ASSUME NEW n \in Node, CommitReplicaFails(w, n)
      PROVE  Manifests'
  BY <1>10 DEF CommitReplicaFails
<1>11. CASE CommitDone(w)
  BY <1>11 DEF CommitDone
<1>12. ASSUME NEW n \in Node, SpreadManifest(w, n)
      PROVE  Manifests'
  BY <1>12, SMTT(30) DEF SpreadManifest, SetManifest, writeVars
<1> QED
  BY <1>1, <1>2, <1>3, <1>4, <1>5, <1>6, <1>7, <1>8, <1>9, <1>10, <1>11, <1>12
     DEF WriteStep

\* Bookkeeping is inductive.
LEMMA BookStep == BookInv /\ [Next]_vars => BookInv'
<1> SUFFICES ASSUME BookInv, [Next]_vars PROVE BookInv'
  OBVIOUS
<1>1. TypeOK'
  BY TypeStep DEF BookInv
<1>2. CASE WriteNext
  BY <1>1, <1>2, PhasesStep, VersionsStep, ManifestsStep DEF WriteNext, BookInv
<1>3. CASE UNCHANGED <<meta, writeVars>>
  BY <1>1, <1>3 DEF BookInv, Phases, Versions, Manifests, writeVars
<1>4. CASE UNCHANGED vars
  BY <1>3, <1>4 DEF vars
<1> QED
  BY <1>2, <1>3, <1>4, OthersLeaveWrites DEF Next

-----------------------------------------------------------------------------
(* Files and time *)

\* What one step does to the files: a file stays as it is, goes bad, is written anew, or
\* is removed by a sweep that does not count its chunk as live and has a later cutoff.
FileChange ==
    \A n \in Node, c \in Chunk :
        \/ file'[n][c].kind = "none" /\ file[n][c].kind = "none"
        \/ /\ file'[n][c].kind # "none"
           /\ file'[n][c].mtime \in {file[n][c].mtime, now + Skew[n]}
           /\ file[n][c].kind = "none" => file'[n][c].mtime = now + Skew[n]
        \/ /\ file'[n][c].kind = "none"
           /\ \/ \E m \in Node : /\ round[m].pc = "sweep"
                                 /\ c \notin round[m].live
                                 /\ file[n][c].mtime < round[m].cutoff
              \/ \E s \in late : c \notin s.live /\ file[n][c].mtime < s.cutoff

LEMMA FilesUnchanged == ASSUME UNCHANGED file PROVE FileChange
BY DEF FileChange

LEMMA StoreChanges ==
    ASSUME TypeOK, NEW n \in Node, NEW c, StoreChunk(n, c)
    PROVE  FileChange
<1> SUFFICES ASSUME NEW m \in Node, NEW e \in Chunk
             PROVE  \/ file'[m][e] = file[m][e]
                    \/ file'[m][e].kind = "good" /\ file'[m][e].mtime = now + Skew[m]
  BY DEF FileChange
<1>1. CASE m = n
  <2>1. file'[m] = [file[n] EXCEPT ![c] = [kind |-> "good", mtime |-> Clock(n)]]
    BY <1>1 DEF StoreChunk, TypeOK
  <2> QED
    BY <1>1, <2>1 DEF Clock, TypeOK
<1>2. CASE m # n
  BY <1>2 DEF StoreChunk, TypeOK
<1> QED
  BY <1>1, <1>2

LEMMA SweepChanges ==
    ASSUME TypeOK, NEW m \in Node, NEW live, NEW cutoff,
           \/ \E n \in Node : /\ round[n].pc = "sweep"
                              /\ live = round[n].live /\ cutoff = round[n].cutoff
           \/ \E s \in late : live = s.live /\ cutoff = s.cutoff,
           NEW D \in SUBSET Garbage(m, live, cutoff), RemoveFiles(m, D)
    PROVE  FileChange
<1> SUFFICES ASSUME NEW k \in Node, NEW c \in Chunk
             PROVE  \/ file'[k][c] = file[k][c]
                    \/ /\ file'[k][c].kind = "none"
                       /\ c \notin live
                       /\ file[k][c].mtime < cutoff
  BY DEF FileChange
<1> QED
  BY DEF RemoveFiles, Garbage, NoFile, TypeOK

LEMMA FilesStep == ASSUME TypeOK, Next PROVE FileChange
<1>1. CASE WriteNext
  <2> PICK w \in Write : WriteStep(w)
    BY <1>1 DEF WriteNext
  <2>1. ASSUME NEW n \in Node, PutChunkReplica(w, n) \/ PutChunkReplicaFails(w, n)
        PROVE  FileChange
    BY <2>1, StoreChanges, FilesUnchanged DEF PutChunkReplica, PutChunkReplicaFails
  <2> QED
    BY <2>1, FilesUnchanged
       DEF WriteStep, StartPut, StartChunk, PutChunkDone, CommitPut, StartDelete, WriteFails,
           CommitReplica, CommitReplicaFails, CommitDone, SpreadManifest
<1>2. CASE GCNext
  <2>1. ASSUME NEW n \in Node, NEW m \in Node, SweepMember(n, m)
        PROVE  FileChange
    BY <2>1, SweepChanges, FilesUnchanged DEF SweepMember
  <2>2. ASSUME NEW s \in late, NEW D, LateSweep(s, D)
        PROVE  FileChange
    <3>1. s.member \in Node
      BY DEF TypeOK, Sweep
    <3> QED
      BY <2>2, <3>1, SweepChanges DEF LateSweep
  <2> QED
    BY <1>2, <2>1, <2>2, FilesUnchanged
       DEF GCNext, StartGC, MarkMember, StartSweep, SweepMemberFails, GCFails
<1>3. CASE ReadNext
  <2>1. ASSUME NEW p \in repair, RepairPut(p)
        PROVE  FileChange
    BY <2>1, StoreChanges DEF RepairPut, TypeOK, Repair
  <2> QED
    BY <1>3, <2>1, FilesUnchanged
       DEF ReadNext, StartRead, GetChunkReplica, GetChunkLacking, GetChunkFails, RepairCheck,
           RepairFails
<1>4. CASE EnvNext
  <2>1. ASSUME NEW n \in Node, NEW c \in Chunk, Rot(n, c)
        PROVE  FileChange
    <3> SUFFICES ASSUME NEW m \in Node, NEW e \in Chunk
                 PROVE  \/ file'[m][e] = file[m][e]
                        \/ /\ file'[m][e].kind # "none"
                           /\ file[m][e].kind # "none"
                           /\ file'[m][e].mtime = file[m][e].mtime
      BY DEF FileChange
    <3> QED
      BY <2>1 DEF Rot, TypeOK
  <2> QED
    BY <1>4, <2>1, FilesUnchanged DEF EnvNext, Tick, SyncConfig
<1> QED
  BY <1>1, <1>2, <1>3, <1>4 DEF Next

\* Only Tick moves the time.
LEMMA NowStep ==
    ASSUME TypeOK, Next
    PROVE  /\ now' \in Nat /\ now' >= now
           /\ EnvNext \/ now' = now
<1>1. ASSUME WriteNext PROVE now' = now
  BY <1>1
     DEF WriteNext, WriteStep, StartPut, StartChunk, PutChunkReplica, PutChunkReplicaFails,
         PutChunkDone, CommitPut, StartDelete, WriteFails, CommitReplica,
         CommitReplicaFails, CommitDone, SpreadManifest
<1>2. ASSUME GCNext PROVE now' = now
  BY <1>2 DEF GCNext, StartGC, MarkMember, StartSweep, SweepMember, SweepMemberFails,
              GCFails, LateSweep
<1>3. ASSUME ReadNext PROVE now' = now
  BY <1>3 DEF ReadNext, StartRead, GetChunkReplica, GetChunkLacking, GetChunkFails,
              RepairCheck, RepairPut, RepairFails
<1>4. CASE EnvNext
  BY <1>4 DEF EnvNext, Tick, SyncConfig, Rot, TypeOK
<1> QED
  BY <1>1, <1>2, <1>3, <1>4 DEF Next, TypeOK

\* What one step does to the collection of a member.
RoundChange ==
    \A m \in Node :
        \/ round'[m] = round[m]
        \/ round'[m].pc = "idle"
        \/ /\ round'[m].pc = "mark"
           /\ m \in Collector
           /\ round'[m].left = Node
           /\ round'[m].cutoff = now + Skew[m] - gracePeriod
        \/ /\ round[m].pc = "mark"
           /\ round'[m].pc = "mark"
           /\ round'[m].cutoff = round[m].cutoff
           /\ \E k \in Node : /\ round'[m].left = round[m].left \ {k}
                              /\ round'[m].live = round[m].live \cup LiveChunks(k)
        \/ /\ \/ round[m].pc = "mark" /\ round[m].left = {}
              \/ round[m].pc = "sweep"
           /\ round'[m].pc = "sweep"
           /\ round'[m].cutoff = round[m].cutoff
           /\ round'[m].live = round[m].live

\* A sweep is left to its member when its collector gives up.
LateChange ==
    \A s \in late' :
        \/ s \in late
        \/ \E m \in Node : /\ round[m].pc = "sweep"
                           /\ s.live = round[m].live /\ s.cutoff = round[m].cutoff

LEMMA LateStep == ASSUME TypeOK, Next PROVE LateChange
<1>1. ASSUME UNCHANGED late PROVE LateChange
  BY <1>1 DEF LateChange
<1>2. CASE GCNext
  <2>1. ASSUME NEW n \in Node, NEW m \in Node, SweepMemberFails(n, m)
        PROVE  LateChange
    BY <2>1 DEF SweepMemberFails, LateChange
  <2>2. ASSUME NEW s \in late, NEW D, LateSweep(s, D)
        PROVE  LateChange
    BY <2>2 DEF LateSweep, LateChange
  <2> QED
    BY <1>1, <1>2, <2>1, <2>2
       DEF GCNext, StartGC, MarkMember, StartSweep, SweepMember, GCFails
<1>3. CASE WriteNext
  BY <1>1, <1>3
     DEF WriteNext, WriteStep, StartPut, StartChunk, PutChunkReplica, PutChunkReplicaFails,
         PutChunkDone, CommitPut, StartDelete, WriteFails, CommitReplica,
         CommitReplicaFails, CommitDone, SpreadManifest
<1>4. CASE ReadNext
  BY <1>1, <1>4
     DEF ReadNext, StartRead, GetChunkReplica, GetChunkLacking, GetChunkFails,
         RepairCheck, RepairPut, RepairFails
<1>5. CASE EnvNext
  BY <1>1, <1>5 DEF EnvNext, Tick, SyncConfig, Rot
<1> QED
  BY <1>2, <1>3, <1>4, <1>5 DEF Next

LEMMA RoundsStep == ASSUME TypeOK, Next PROVE RoundChange
<1>1. CASE GCNext
  <2>1. ASSUME NEW n \in Node, StartGC(n)
        PROVE  RoundChange
    <3>1. \A k \in Node : k # n => round'[k] = round[k]
      BY <2>1 DEF StartGC, TypeOK
    <3>2. round'[n] = [pc |-> "mark", version |-> config[n],
                       cutoff |-> Cutoff(n), left |-> Node, live |-> {}]
      BY <2>1 DEF StartGC, TypeOK
    <3>3. n \in Collector
      BY <2>1 DEF StartGC
    <3>4. /\ round'[n].pc = "mark"
          /\ round'[n].left = Node
          /\ round'[n].cutoff = Cutoff(n)
      BY <3>2
    <3>5. Cutoff(n) = now + Skew[n] - gracePeriod
      BY TimeAssumption DEF Cutoff, Clock, TypeOK
    <3> QED
      BY <3>1, <3>5, <3>3, <3>4 DEF RoundChange
  <2>2. ASSUME NEW n \in Node, StartSweep(n)
        PROVE  RoundChange
    BY <2>2 DEF StartSweep, EndRound, Idle, RoundChange, TypeOK
  <2>3. ASSUME NEW n \in Node, NEW m \in Node, MarkMember(n, m)
        PROVE  RoundChange
    <3>1. \A k \in Node : k # n => round'[k] = round[k]
      BY <2>3 DEF MarkMember, EndRound, TypeOK
    <3>2. \/ round'[n].pc = "idle"
          \/ /\ round[n].pc = "mark"
             /\ round'[n].pc = "mark"
             /\ round'[n].cutoff = round[n].cutoff
             /\ round'[n].left = round[n].left \ {m}
             /\ round'[n].live = round[n].live \cup LiveChunks(m)
      BY <2>3 DEF MarkMember, EndRound, Idle, TypeOK
    <3> QED
      BY <3>1, <3>2 DEF RoundChange
  <2>4. ASSUME NEW n \in Node, NEW m \in Node, SweepMember(n, m)
        PROVE  RoundChange
    BY <2>4 DEF SweepMember, EndRound, Idle, RoundChange, TypeOK
  <2>5. ASSUME NEW n \in Node, NEW m \in Node, SweepMemberFails(n, m)
        PROVE  RoundChange
    BY <2>5 DEF SweepMemberFails, EndRound, Idle, RoundChange, TypeOK
  <2>6. ASSUME NEW n \in Node, GCFails(n)
        PROVE  RoundChange
    BY <2>6 DEF GCFails, EndRound, Idle, RoundChange, TypeOK
  <2>7. ASSUME NEW s \in late, NEW D, LateSweep(s, D)
        PROVE  RoundChange
    BY <2>7 DEF LateSweep, RoundChange
  <2> QED
    BY <1>1, <2>1, <2>2, <2>3, <2>4, <2>5, <2>6, <2>7 DEF GCNext
<1>2. CASE UNCHANGED round
  BY <1>2 DEF RoundChange
<1>3. CASE WriteNext
  BY <1>2, <1>3
     DEF WriteNext, WriteStep, StartPut, StartChunk, PutChunkReplica, PutChunkReplicaFails,
         PutChunkDone, CommitPut, StartDelete, WriteFails, CommitReplica,
         CommitReplicaFails, CommitDone, SpreadManifest
<1>4. CASE ReadNext
  BY <1>2, <1>4
     DEF ReadNext, StartRead, GetChunkReplica, GetChunkLacking, GetChunkFails,
         RepairCheck, RepairPut, RepairFails
<1>5. CASE EnvNext
  BY <1>2, <1>5 DEF EnvNext, Tick, SyncConfig, Rot
<1> QED
  BY <1>1, <1>3, <1>4, <1>5 DEF Next

\* A write that is in progress after a step has just begun, or was before.
LEMMA ActiveStep ==
    ASSUME TypeOK, NEW w \in Write, WriteStep(w), NEW x \in Write, Active(x)'
    PROVE  began'[x] = now \/ (Active(x) /\ began'[x] = began[x])
<1>1. ASSUME NEW C \in Contents, StartPut(w, C)
      PROVE  began'[x] = now \/ (Active(x) /\ began'[x] = began[x])
  BY <1>1 DEF StartPut, Active, TypeOK
<1>2. ASSUME NEW c \in Chunk, StartChunk(w, c)
      PROVE  began'[x] = now \/ (Active(x) /\ began'[x] = began[x])
  BY <1>2 DEF StartChunk, Active, TypeOK
<1>3. ASSUME NEW n \in Node, PutChunkReplica(w, n)
      PROVE  began'[x] = now \/ (Active(x) /\ began'[x] = began[x])
  BY <1>3 DEF PutChunkReplica, StoreChunk, Active, TypeOK
<1>4. ASSUME NEW n \in Node, PutChunkReplicaFails(w, n)
      PROVE  began'[x] = now \/ (Active(x) /\ began'[x] = began[x])
  BY <1>4 DEF PutChunkReplicaFails, StoreChunk, Active, TypeOK
<1>5. CASE PutChunkDone(w)
  BY <1>5 DEF PutChunkDone, Abandon, Active, TypeOK
<1>6. CASE CommitPut(w)
  BY <1>6 DEF CommitPut, BeginCommit, Active, TypeOK
<1>7. CASE StartDelete(w)
  BY <1>7 DEF StartDelete, BeginCommit, Active, TypeOK
<1>8. CASE WriteFails(w)
  BY <1>8 DEF WriteFails, Abandon, Active, TypeOK
<1>9. ASSUME NEW n \in Node, CommitReplica(w, n)
      PROVE  began'[x] = now \/ (Active(x) /\ began'[x] = began[x])
  BY <1>9 DEF CommitReplica, SetManifest, Active, TypeOK
<1>10. ASSUME NEW n \in Node, CommitReplicaFails(w, n)
      PROVE  began'[x] = now \/ (Active(x) /\ began'[x] = began[x])
  BY <1>10 DEF CommitReplicaFails, Active, TypeOK
<1>11. CASE CommitDone(w)
  BY <1>11 DEF CommitDone, Active, TypeOK
<1>12. ASSUME NEW n \in Node, SpreadManifest(w, n)
      PROVE  began'[x] = now \/ (Active(x) /\ began'[x] = began[x])
  BY <1>12 DEF SpreadManifest, SetManifest, writeVars, Active, TypeOK
<1> QED
  BY <1>1, <1>2, <1>3, <1>4, <1>5, <1>6, <1>7, <1>8, <1>9, <1>10, <1>11, <1>12
     DEF WriteStep

LEMMA TimesInit == Init => Times
<1> SUFFICES ASSUME Init PROVE Times
  OBVIOUS
<1>1. ASSUME NEW n \in Node, NEW c \in Chunk, file[n][c].kind # "none"
      PROVE  file[n][c].mtime <= now + Skew[n]
  <2>1. file[n][c] = OldFile(n) /\ now = 0
    BY <1>1 DEF Init, NoFile
  <2> QED
    BY <2>1, TimeAssumption DEF OldFile
<1> QED
  BY <1>1 DEF Init, Times, Active, Idle

LEMMA TimesStep ==
    ASSUME TypeOK, Times, Next
    PROVE  Times'
<1>1. TypeOK' /\ now' >= now
  BY TypeStep, NowStep
<1>2. ASSUME NEW x \in Write, Active(x)'
      PROVE  began'[x] <= now' /\ now' <= began'[x] + UploadLimit
  <2>1. CASE WriteNext
    <3> PICK w \in Write : WriteStep(w)
      BY <2>1 DEF WriteNext
    <3>1. now' = now
      BY <2>1, NowStep DEF WriteNext, WriteStep, StartPut, StartChunk, PutChunkReplica,
        PutChunkReplicaFails, PutChunkDone, CommitPut, StartDelete, WriteFails,
        CommitReplica, CommitReplicaFails, CommitDone, SpreadManifest
    <3> QED
      BY <1>2, <3>1, ActiveStep, TimeAssumption DEF Times, TypeOK
  <2>2. CASE UNCHANGED <<writeVars, now>>
    BY <1>2, <2>2 DEF writeVars, Active, Times
  <2>3. CASE Tick
    BY <1>2, <2>3, TimeAssumption DEF Tick, writeVars, Active, Times, TypeOK
  <2>4. CASE EnvNext
    BY <2>2, <2>3, <2>4 DEF EnvNext, SyncConfig, Rot
  <2> QED
    BY <2>1, <2>2, <2>4, NowStep, OthersLeaveWrites DEF Next
<1>3. ASSUME NEW n \in Node, NEW c \in Chunk, file'[n][c].kind # "none"
      PROVE  file'[n][c].mtime <= now' + Skew[n]
  <2>1. file'[n][c].mtime \in {file[n][c].mtime, now + Skew[n]}
        /\ (file[n][c].kind = "none" => file'[n][c].mtime = now + Skew[n])
    BY <1>3, FilesStep DEF FileChange
  <2>2. file[n][c].mtime \in Int /\ Skew[n] \in Int
    BY TimeAssumption DEF TypeOK, File
  <2> QED
    BY <1>1, <2>1, <2>2 DEF Times, TypeOK
<1>4. ASSUME NEW m \in Node, round'[m].pc # "idle"
      PROVE  m \in Collector /\ round'[m].cutoff <= now' + Skew[m] - gracePeriod
  <2>1. \/ /\ m \in Collector
           /\ round'[m].cutoff = now + Skew[m] - gracePeriod
        \/ round[m].pc # "idle" /\ round'[m].cutoff = round[m].cutoff
    BY <1>4, RoundsStep DEF RoundChange
  <2>2. round[m].cutoff \in Int /\ Skew[m] \in Int /\ gracePeriod \in Int
    BY TimeAssumption DEF TypeOK, Round
  <2> QED
    BY <1>1, <2>1, <2>2 DEF Times, TypeOK
<1>5. ASSUME NEW s \in late'
      PROVE  \E n \in Collector : s.cutoff <= now' + Skew[n] - gracePeriod
  <2>1. PICK n \in Collector : s.cutoff <= now + Skew[n] - gracePeriod
    BY LateStep DEF LateChange, Times
  <2>2. s.cutoff \in Int /\ Skew[n] \in Int /\ gracePeriod \in Int
    BY <1>1, TimeAssumption, PlacementAssumption DEF TypeOK, Sweep
  <2> QED
    BY <1>1, <2>1, <2>2 DEF TypeOK
<1> QED
  BY <1>2, <1>3, <1>4, <1>5 DEF Times

-----------------------------------------------------------------------------
(* Uploads in progress *)

\* A file written since an upload began is not removed while the upload runs, and grows
\* no older.
LEMMA FreshKept ==
    ASSUME UploadsTimely, TypeOK, Times, Next,
           NEW w \in Write, NEW c \in Chunk, NEW n \in Node,
           Active(w), began'[w] = began[w], Fresh(w, c, n)
    PROVE  Fresh(w, c, n)'
<1>1. began[w] \in Int /\ Skew[n] \in Int /\ now \in Int /\ file[n][c].mtime \in Int
  BY TimeAssumption DEF TypeOK, File
<1>2. began[w] <= now /\ now <= began[w] + UploadLimit
  BY DEF Times
<1>3. ASSUME NEW m \in Node, round[m].pc = "sweep", file[n][c].mtime < round[m].cutoff
      PROVE  FALSE
  <2>1. m \in Collector /\ round[m].cutoff <= now + Skew[m] - gracePeriod
    BY <1>3 DEF Times
  <2>2. UploadLimit + Skew[m] <= gracePeriod + Skew[n]
    BY <2>1 DEF UploadsTimely
  <2>3. round[m].cutoff \in Int /\ Skew[m] \in Int /\ gracePeriod \in Int /\ UploadLimit \in Int
    BY TimeAssumption DEF TypeOK, Round
  <2> QED
    BY <1>1, <1>2, <1>3, <2>1, <2>2, <2>3 DEF Fresh
<1>4. ASSUME NEW s \in late, file[n][c].mtime < s.cutoff
      PROVE  FALSE
  <2>1. PICK m \in Collector : s.cutoff <= now + Skew[m] - gracePeriod
    BY DEF Times
  <2>2. UploadLimit + Skew[m] <= gracePeriod + Skew[n]
    BY DEF UploadsTimely
  <2>3. s.cutoff \in Int /\ Skew[m] \in Int /\ gracePeriod \in Int /\ UploadLimit \in Int
    BY TimeAssumption, PlacementAssumption DEF TypeOK, Sweep
  <2> QED
    BY <1>1, <1>2, <1>4, <2>1, <2>2, <2>3 DEF Fresh
<1>5. /\ file'[n][c].kind # "none"
      /\ file'[n][c].mtime \in {file[n][c].mtime, now + Skew[n]}
  BY <1>3, <1>4, FilesStep DEF FileChange, Fresh
<1> QED
  BY <1>1, <1>2, <1>5 DEF Fresh

\* A file written during the upload is fresh.
LEMMA StoredIsFresh ==
    ASSUME TypeOK, Times, NEW w \in Write, Active(w), began'[w] = began[w],
           NEW n \in Node, NEW c \in Chunk, n \in chunkReplicas[c], StoreChunk(n, c)
    PROVE  Fresh(w, c, n)'
<1>1. began[w] \in Int /\ Skew[n] \in Int /\ now \in Int /\ began[w] <= now
  BY TimeAssumption DEF TypeOK, Times
<1>2. file'[n][c] = [kind |-> "good", mtime |-> Clock(n)]
  BY DEF StoreChunk, TypeOK
<1>3. Clock(n) >= began[w] + Skew[n]
  BY <1>1 DEF Clock
<1> QED
  BY <1>2, <1>3 DEF Fresh

UploadInv == BookInv /\ Times /\ Uploaded

LEMMA UploadedInit == Init => Uploaded
BY DEF Init, Uploaded, Active

\* A write that is not the one that takes a step.
LEMMA OtherWrites ==
    ASSUME TypeOK, NEW w \in Write, WriteStep(w), NEW x \in Write, x # w
    PROVE  /\ pc'[x] = pc[x] /\ content'[x] = content[x] /\ todo'[x] = todo[x]
           /\ current'[x] = current[x] /\ acks'[x] = acks[x] /\ began'[x] = began[x]
           /\ version'[x] = version[x]
<1> USE DEF TypeOK
<1>1. ASSUME NEW C \in Contents, StartPut(w, C)
      PROVE  /\ pc'[x] = pc[x] /\ content'[x] = content[x] /\ todo'[x] = todo[x]
             /\ current'[x] = current[x] /\ acks'[x] = acks[x] /\ began'[x] = began[x]
             /\ version'[x] = version[x]
  BY <1>1 DEF StartPut
<1>2. ASSUME NEW c \in Chunk, StartChunk(w, c)
      PROVE  /\ pc'[x] = pc[x] /\ content'[x] = content[x] /\ todo'[x] = todo[x]
             /\ current'[x] = current[x] /\ acks'[x] = acks[x] /\ began'[x] = began[x]
             /\ version'[x] = version[x]
  BY <1>2 DEF StartChunk
<1>3. ASSUME NEW n \in Node, PutChunkReplica(w, n)
      PROVE  /\ pc'[x] = pc[x] /\ content'[x] = content[x] /\ todo'[x] = todo[x]
             /\ current'[x] = current[x] /\ acks'[x] = acks[x] /\ began'[x] = began[x]
             /\ version'[x] = version[x]
  BY <1>3 DEF PutChunkReplica, StoreChunk
<1>4. ASSUME NEW n \in Node, PutChunkReplicaFails(w, n)
      PROVE  /\ pc'[x] = pc[x] /\ content'[x] = content[x] /\ todo'[x] = todo[x]
             /\ current'[x] = current[x] /\ acks'[x] = acks[x] /\ began'[x] = began[x]
             /\ version'[x] = version[x]
  BY <1>4 DEF PutChunkReplicaFails, StoreChunk
<1>5. CASE PutChunkDone(w)
  BY <1>5 DEF PutChunkDone, Abandon
<1>6. CASE CommitPut(w)
  BY <1>6 DEF CommitPut, BeginCommit
<1>7. CASE StartDelete(w)
  BY <1>7 DEF StartDelete, BeginCommit
<1>8. CASE WriteFails(w)
  BY <1>8 DEF WriteFails, Abandon
<1>9. ASSUME NEW n \in Node, CommitReplica(w, n)
      PROVE  /\ pc'[x] = pc[x] /\ content'[x] = content[x] /\ todo'[x] = todo[x]
             /\ current'[x] = current[x] /\ acks'[x] = acks[x] /\ began'[x] = began[x]
             /\ version'[x] = version[x]
  BY <1>9 DEF CommitReplica, SetManifest
<1>10. ASSUME NEW n \in Node, CommitReplicaFails(w, n)
      PROVE  /\ pc'[x] = pc[x] /\ content'[x] = content[x] /\ todo'[x] = todo[x]
             /\ current'[x] = current[x] /\ acks'[x] = acks[x] /\ began'[x] = began[x]
             /\ version'[x] = version[x]
  BY <1>10 DEF CommitReplicaFails
<1>11. CASE CommitDone(w)
  BY <1>11 DEF CommitDone
<1>12. ASSUME NEW n \in Node, SpreadManifest(w, n)
      PROVE  /\ pc'[x] = pc[x] /\ content'[x] = content[x] /\ todo'[x] = todo[x]
             /\ current'[x] = current[x] /\ acks'[x] = acks[x] /\ began'[x] = began[x]
             /\ version'[x] = version[x]
  BY <1>12 DEF SpreadManifest, SetManifest, writeVars
<1> QED
  BY <1>1, <1>2, <1>3, <1>4, <1>5, <1>6, <1>7, <1>8, <1>9, <1>10, <1>11, <1>12
     DEF WriteStep

\* What Uploaded says of one write.
UploadedOf(w) ==
    /\ pc[w] = "chunk" => \A n \in acks[w] : Fresh(w, current[w], n)
    /\ Active(w) => \A c \in content[w] \ todo[w] : \E n \in Node : Fresh(w, c, n)

\* A step in which a write stays as it is keeps its chunks fresh.
LEMMA UploadedKept ==
    ASSUME UploadsTimely, UploadInv, Next, NEW x \in Write,
           pc'[x] = pc[x], content'[x] = content[x], todo'[x] = todo[x],
           current'[x] = current[x], acks'[x] = acks[x], began'[x] = began[x]
    PROVE  UploadedOf(x)'
<1>1. ASSUME pc[x] = "chunk", NEW n \in acks[x]
      PROVE  Fresh(x, current[x], n)'
  <2>1. Active(x) /\ current[x] \in Chunk /\ n \in Node
    BY <1>1 DEF UploadInv, BookInv, TypeOK, Phases, Active
  <2>2. Fresh(x, current[x], n)
    BY <1>1 DEF UploadInv, Uploaded
  <2>3. TypeOK /\ Times
    BY DEF UploadInv, BookInv
  <2>4. PICK c \in Chunk : c = current[x]
    BY <2>1
  <2>5. Fresh(x, c, n)'
    BY <2>1, <2>2, <2>3, <2>4, FreshKept
  <2> QED
    BY <2>4, <2>5 DEF Fresh
<1>2. ASSUME Active(x), NEW c \in content[x] \ todo[x]
      PROVE  \E n \in Node : Fresh(x, c, n)'
  <2>1. c \in Chunk /\ TypeOK /\ Times
    BY DEF UploadInv, BookInv, TypeOK
  <2>2. PICK n \in Node : Fresh(x, c, n)
    BY <1>2 DEF UploadInv, Uploaded
  <2> QED
    BY <1>2, <2>1, <2>2, FreshKept
<1>3. Active(x)' <=> Active(x)
  BY DEF Active
<1>4. \A n, c : Fresh(x, c, n)' <=> /\ n \in chunkReplicas[c]
                                    /\ file'[n][c].kind # "none"
                                    /\ file'[n][c].mtime >= began'[x] + Skew[n]
  BY DEF Fresh
<1> QED
  BY <1>1, <1>2, <1>3 DEF UploadedOf, Fresh

LEMMA ChunksKept ==
    ASSUME UploadsTimely, UploadInv, Next, NEW w \in Write, Active(w), began'[w] = began[w],
           NEW c \in content[w] \ todo[w]
    PROVE  \E n \in Node : Fresh(w, c, n)'
<1>1. c \in Chunk /\ TypeOK /\ Times
  BY DEF UploadInv, BookInv, TypeOK
<1>2. PICK n \in Node : Fresh(w, c, n)
  BY DEF UploadInv, Uploaded
<1> QED
  BY <1>1, <1>2, FreshKept

LEMMA UploadedStep ==
    ASSUME UploadsTimely, UploadInv, NEW w \in Write, WriteStep(w)
    PROVE  Uploaded'
<1>1. Next
  BY DEF Next, WriteNext
<1>2. ASSUME NEW x \in Write, x # w
      PROVE  UploadedOf(x)'
  BY <1>1, <1>2, OtherWrites, UploadedKept DEF UploadInv, BookInv
<1>3. ASSUME Active(w), began'[w] = began[w]
      PROVE  \A c \in content[w] \ todo[w] : \E n \in Node : Fresh(w, c, n)'
  BY <1>1, <1>3, ChunksKept
<1>4. ASSUME NEW C \in Contents, StartPut(w, C)
      PROVE  UploadedOf(w)'
  <2>1. pc'[w] = "next" /\ content'[w] = C /\ todo'[w] = C
    BY <1>4 DEF StartPut, UploadInv, BookInv, TypeOK
  <2> QED
    BY <2>1 DEF UploadedOf
<1>5. ASSUME NEW c \in Chunk, StartChunk(w, c)
      PROVE  UploadedOf(w)'
  <2>1. /\ pc[w] = "next" /\ acks'[w] = {}
        /\ UNCHANGED <<content, todo, began>>
    BY <1>5 DEF StartChunk, UploadInv, BookInv, Phases
  <2> QED
    BY <2>1, <1>3 DEF UploadedOf, Active
<1>6. ASSUME NEW n \in Node, PutChunkReplica(w, n)
      PROVE  UploadedOf(w)'
  <2>1. /\ pc[w] = "chunk" /\ n \in wait[w] /\ StoreChunk(n, current[w])
        /\ UNCHANGED <<pc, content, todo, current, began>>
        /\ acks'[w] = acks[w] \cup {n}
    BY <1>6 DEF PutChunkReplica, UploadInv, BookInv, TypeOK
  <2>2. PICK c \in Chunk : c = current[w] /\ n \in chunkReplicas[c]
    BY <2>1 DEF UploadInv, BookInv, TypeOK, Phases
  <2>3. Active(w) /\ began'[w] = began[w] /\ TypeOK /\ Times
    BY <2>1 DEF Active, UploadInv, BookInv
  <2>4. Fresh(w, c, n)'
    BY <2>1, <2>2, <2>3, StoredIsFresh
  <2>5. \A m \in acks[w] : Fresh(w, c, m)'
    <3> TAKE m \in acks[w]
    <3>1. m \in Node
      BY DEF UploadInv, BookInv, TypeOK
    <3>2. Fresh(w, c, m)
      BY <2>1, <2>2 DEF UploadInv, Uploaded
    <3> QED
      BY <1>1, <2>3, <3>1, <3>2, FreshKept
  <2>6. (\A m \in acks[w] : Fresh(w, current[w], m))'
    BY <2>1, <2>2, <2>4, <2>5
  <2> QED
    BY <1>3, <2>1, <2>3, <2>6 DEF UploadedOf
<1>7. ASSUME NEW n \in Node, PutChunkReplicaFails(w, n)
      PROVE  UploadedOf(w)'
  <2>1. UNCHANGED <<pc, content, todo, current, acks, began>>
    BY <1>7 DEF PutChunkReplicaFails
  <2> QED
    BY <1>1, <2>1, UploadedKept
<1>8. ASSUME PutChunkDone(w) PROVE UploadedOf(w)'
  <2>1. CASE Cardinality(acks[w]) < writeQuorum
    <3>1. pc'[w] = "failed"
      BY <1>8, <2>1 DEF PutChunkDone, Abandon, UploadInv, BookInv, TypeOK
    <3> QED
      BY <3>1 DEF UploadedOf, Active
  <2>2. CASE ~(Cardinality(acks[w]) < writeQuorum)
    <3>1. /\ pc[w] = "chunk" /\ pc'[w] = "next" /\ UNCHANGED <<content, began>>
          /\ todo'[w] = todo[w] \ {current[w]}
      BY <1>8, <2>2 DEF PutChunkDone, UploadInv, BookInv, TypeOK
    <3>2. acks[w] # {}
      BY <2>2, QuorumAssumption, FS_EmptySet
    <3>3. PICK n \in acks[w] : Fresh(w, current[w], n)
      BY <3>1, <3>2 DEF UploadInv, Uploaded
    <3>4. PICK c \in Chunk : c = current[w]
      BY <3>1 DEF UploadInv, BookInv, TypeOK, Phases
    <3>5. Active(w) /\ began'[w] = began[w] /\ TypeOK /\ Times /\ n \in Node
      BY <3>1 DEF Active, UploadInv, BookInv, TypeOK
    <3>6. Fresh(w, c, n)'
      BY <1>1, <3>3, <3>4, <3>5, FreshKept
    <3> QED
      BY <1>3, <3>1, <3>4, <3>5, <3>6 DEF UploadedOf
  <2> QED
    BY <2>1, <2>2
<1>9. ASSUME CommitPut(w) PROVE UploadedOf(w)'
  <2>1. pc[w] = "next" /\ pc'[w] = "commit" /\ UNCHANGED <<content, todo, began>>
    BY <1>9 DEF CommitPut, BeginCommit, UploadInv, BookInv, TypeOK
  <2> QED
    BY <1>3, <2>1 DEF UploadedOf, Active
<1>10. ASSUME StartDelete(w) PROVE UploadedOf(w)'
  <2>1. pc'[w] = "commit" /\ content'[w] = {}
    BY <1>10 DEF StartDelete, BeginCommit, UploadInv, BookInv, TypeOK, Phases
  <2> QED
    BY <2>1 DEF UploadedOf
<1>11. ASSUME WriteFails(w) PROVE UploadedOf(w)'
  <2>1. pc'[w] = "failed"
    BY <1>11 DEF WriteFails, Abandon, UploadInv, BookInv, TypeOK
  <2> QED
    BY <2>1 DEF UploadedOf, Active
<1>12. ASSUME NEW n \in Node, CommitReplica(w, n)
      PROVE  UploadedOf(w)'
  <2>1. pc[w] = "commit" /\ UNCHANGED <<pc, content, todo, began>>
    BY <1>12 DEF CommitReplica
  <2> QED
    BY <1>3, <2>1 DEF UploadedOf, Active
<1>13. ASSUME NEW n \in Node, CommitReplicaFails(w, n)
      PROVE  UploadedOf(w)'
  <2>1. UNCHANGED <<pc, content, todo, current, acks, began>>
    BY <1>13 DEF CommitReplicaFails
  <2> QED
    BY <1>1, <2>1, UploadedKept
<1>14. ASSUME CommitDone(w) PROVE UploadedOf(w)'
  <2>1. pc'[w] \in {"ok", "failed"}
    BY <1>14 DEF CommitDone, UploadInv, BookInv, TypeOK
  <2> QED
    BY <2>1 DEF UploadedOf, Active
<1>15. ASSUME NEW n \in Node, SpreadManifest(w, n)
      PROVE  UploadedOf(w)'
  <2>1. UNCHANGED <<pc, content, todo, current, acks, began>>
    BY <1>15 DEF SpreadManifest, writeVars
  <2> QED
    BY <1>1, <2>1, UploadedKept
<1>16. UploadedOf(w)'
  BY <1>4, <1>5, <1>6, <1>7, <1>8, <1>9, <1>10, <1>11, <1>12, <1>13, <1>14, <1>15
     DEF WriteStep
<1> QED
  BY <1>2, <1>16 DEF Uploaded, UploadedOf

LEMMA UploadStep == UploadsTimely /\ UploadInv /\ [Next]_vars => UploadInv'
<1> SUFFICES ASSUME UploadsTimely, UploadInv, [Next]_vars PROVE UploadInv'
  OBVIOUS
<1>1. BookInv'
  BY BookStep DEF UploadInv
<1>2. CASE Next
  <2>1. Times'
    BY <1>2, TimesStep DEF UploadInv, BookInv
  <2>2. ASSUME NEW x \in Write, UNCHANGED writeVars
        PROVE  UploadedOf(x)'
    BY <1>2, <2>2, UploadedKept DEF writeVars
  <2>3. Uploaded'
    BY <1>2, <2>2, OthersLeaveWrites, UploadedStep DEF Next, WriteNext, Uploaded, UploadedOf
  <2> QED
    BY <1>1, <2>1, <2>3 DEF UploadInv
<1>3. CASE UNCHANGED vars
  <2>1. Times' /\ Uploaded'
    BY <1>3 DEF UploadInv, vars, writeVars, Times, Uploaded, Active, Fresh
  <2> QED
    BY <1>1, <2>1 DEF UploadInv
<1> QED
  BY <1>2, <1>3

-----------------------------------------------------------------------------
(* Manifests that are held *)

GCInv == UploadInv /\ Held

LEMMA HeldInit == Init => Held
BY DEF Init, Held

\* A file that no collection in progress removes is there after a step, as is the reason
\* that no collection removes it: the member that holds the manifest is still to be asked,
\* has been asked, or the file is young.
LEMMA CoveredKept ==
    ASSUME TypeOK, Times, Next, NEW x \in Node, NEW c \in Chunk, NEW n \in Node,
           c \in LiveChunks(x), file[n][c].kind # "none", Covered(x, c, n)
    PROVE  file'[n][c].kind # "none" /\ Covered(x, c, n)'
<1>1. /\ file[n][c].mtime \in Int /\ now \in Int /\ Skew[n] \in Int
      /\ file[n][c].mtime <= now + Skew[n]
  BY TimeAssumption DEF TypeOK, File, Times
<1>2. ASSUME NEW m \in Node, round[m].pc = "sweep", c \notin round[m].live,
             file[n][c].mtime < round[m].cutoff
      PROVE  FALSE
  <2>1. round[m].cutoff \in Int
    BY DEF TypeOK, Round
  <2> QED
    BY <1>1, <1>2, <2>1 DEF Covered
<1>6. ASSUME NEW s \in late, c \notin s.live, file[n][c].mtime < s.cutoff
      PROVE  FALSE
  <2>1. s.cutoff \in Int
    BY DEF TypeOK, Sweep
  <2> QED
    BY <1>1, <1>6, <2>1 DEF Covered
<1>3. file'[n][c].kind # "none" /\ file'[n][c].mtime \in {file[n][c].mtime, now + Skew[n]}
  BY <1>2, <1>6, FilesStep DEF FileChange
<1>4. file'[n][c].mtime \in Int /\ file'[n][c].mtime >= file[n][c].mtime
  BY <1>1, <1>3
<1>7. ASSUME NEW s \in late'
      PROVE  c \in s.live \/ file'[n][c].mtime >= s.cutoff
  <2>1. c \in s.live \/ file[n][c].mtime >= s.cutoff
    BY LateStep DEF LateChange, Covered
  <2>2. s.cutoff \in Int
    <3>1. TypeOK'
      BY TypeStep
    <3> QED
      BY <3>1 DEF TypeOK, Sweep
  <2> QED
    BY <1>1, <1>4, <2>1, <2>2
<1>5. ASSUME NEW m \in Node
      PROVE  \/ round'[m].pc = "idle"
             \/ round'[m].pc = "mark" /\ x \in round'[m].left
             \/ c \in round'[m].live
             \/ file'[n][c].mtime >= round'[m].cutoff
  <2>1. round[m].cutoff \in Int
    BY DEF TypeOK, Round
  <2>2. ASSUME file[n][c].mtime >= round[m].cutoff
        PROVE  file'[n][c].mtime >= round[m].cutoff
    BY <1>1, <1>4, <2>1, <2>2
  <2>3. \/ round[m].pc = "idle"
        \/ round[m].pc = "mark" /\ x \in round[m].left
        \/ c \in round[m].live
        \/ file'[n][c].mtime >= round[m].cutoff
    BY <2>2 DEF Covered
  <2>4. CASE round'[m] = round[m]
    BY <2>3, <2>4
  <2>5. CASE round'[m].pc = "mark" /\ round'[m].left = Node
    BY <2>5
  <2>6. ASSUME round[m].pc = "mark", round'[m].pc = "mark", round'[m].cutoff = round[m].cutoff,
               NEW k \in Node, round'[m].left = round[m].left \ {k},
               round'[m].live = round[m].live \cup LiveChunks(k)
        PROVE  \/ x \in round'[m].left
               \/ c \in round'[m].live
               \/ file'[n][c].mtime >= round'[m].cutoff
    BY <2>3, <2>6
  <2>7. CASE /\ \/ round[m].pc = "mark" /\ round[m].left = {}
                \/ round[m].pc = "sweep"
             /\ round'[m].cutoff = round[m].cutoff
             /\ round'[m].live = round[m].live
    BY <2>3, <2>7
  <2> QED
    BY <2>4, <2>5, <2>6, <2>7, RoundsStep DEF RoundChange
<1> QED
  BY <1>3, <1>5, <1>7 DEF Covered

\* A file written since an upload began is too young for every collection in progress.
LEMMA FreshIsCovered ==
    ASSUME UploadsTimely, TypeOK, Times, NEW w \in Write, Active(w),
           NEW c \in Chunk, NEW n \in Node, NEW x, Fresh(w, c, n)
    PROVE  Covered(x, c, n)
<1>1. ASSUME NEW k \in Int, NEW m \in Collector, k <= now + Skew[m] - gracePeriod
      PROVE  file[n][c].mtime >= k
  <2>1. /\ began[w] \in Int /\ Skew[n] \in Int /\ Skew[m] \in Int /\ now \in Int
        /\ file[n][c].mtime \in Int /\ gracePeriod \in Int /\ UploadLimit \in Int
    BY TimeAssumption, PlacementAssumption DEF TypeOK, File
  <2>2. now <= began[w] + UploadLimit /\ UploadLimit + Skew[m] <= gracePeriod + Skew[n]
    BY DEF Times, UploadsTimely
  <2> QED
    BY <1>1, <2>1, <2>2 DEF Fresh
<1>2. ASSUME NEW m \in Node, round[m].pc # "idle"
      PROVE  file[n][c].mtime >= round[m].cutoff
  BY <1>1, <1>2 DEF Times, TypeOK, Round
<1>3. ASSUME NEW s \in late
      PROVE  file[n][c].mtime >= s.cutoff
  BY <1>1 DEF Times, TypeOK, Sweep
<1> QED
  BY <1>2, <1>3 DEF Covered

\* How member y comes to hold, as confirmed, the manifest of write x: it did before, it
\* confirms it in this step, or the manifest names nothing.
ConfirmedChange(x, y) ==
    version'[x] > 0 /\ y \in acks'[x] /\ meta'[y][object[x]] = x =>
        \/ /\ version[x] > 0 /\ y \in acks[x] /\ meta[y][object[x]] = x
           /\ content'[x] = content[x]
        \/ /\ pc[x] = "commit" /\ content'[x] = content[x] /\ UNCHANGED <<file, round, late>>
        \/ content'[x] = {}

LEMMA ConfirmedStep ==
    ASSUME BookInv, NEW w \in Write, WriteStep(w), NEW x \in Write, NEW y \in Node
    PROVE  ConfirmedChange(x, y)
<1> USE WriteAssumption, PlacementAssumption
        DEF BookInv, TypeOK, Phases, Versions, Manifests, ConfirmedChange
<1>1. ASSUME NEW C \in Contents, StartPut(w, C)
      PROVE  ConfirmedChange(x, y)
  BY <1>1 DEF StartPut
<1>2. ASSUME NEW c \in Chunk, StartChunk(w, c)
      PROVE  ConfirmedChange(x, y)
  BY <1>2 DEF StartChunk
<1>3. ASSUME NEW n \in Node, PutChunkReplica(w, n)
      PROVE  ConfirmedChange(x, y)
  BY <1>3 DEF PutChunkReplica, StoreChunk
<1>4. ASSUME NEW n \in Node, PutChunkReplicaFails(w, n)
      PROVE  ConfirmedChange(x, y)
  BY <1>4 DEF PutChunkReplicaFails, StoreChunk
<1>5. ASSUME PutChunkDone(w)
      PROVE  ConfirmedChange(x, y)
  BY <1>5 DEF PutChunkDone, Abandon
<1>6. ASSUME CommitPut(w)
      PROVE  ConfirmedChange(x, y)
  BY <1>6 DEF CommitPut, BeginCommit
<1>7. ASSUME StartDelete(w)
      PROVE  ConfirmedChange(x, y)
  BY <1>7 DEF StartDelete, BeginCommit
<1>8. ASSUME WriteFails(w)
      PROVE  ConfirmedChange(x, y)
  BY <1>8 DEF WriteFails, Abandon
<1>9. ASSUME NEW n \in Node, CommitReplica(w, n)
      PROVE  ConfirmedChange(x, y)
  BY <1>9 DEF CommitReplica, SetManifest
<1>10. ASSUME NEW n \in Node, CommitReplicaFails(w, n)
      PROVE  ConfirmedChange(x, y)
  BY <1>10 DEF CommitReplicaFails
<1>11. ASSUME CommitDone(w)
      PROVE  ConfirmedChange(x, y)
  BY <1>11 DEF CommitDone
<1>12. ASSUME NEW n \in Node, SpreadManifest(w, n)
      PROVE  ConfirmedChange(x, y)
  BY <1>12 DEF SpreadManifest, SetManifest, writeVars
<1> QED
  BY <1>1, <1>2, <1>3, <1>4, <1>5, <1>6, <1>7, <1>8, <1>9, <1>10, <1>11, <1>12
     DEF WriteStep

LEMMA HeldStep ==
    ASSUME UploadsTimely, GCInv, Next
    PROVE  Held'
<1>1. UploadInv /\ BookInv /\ TypeOK /\ Times
  BY DEF GCInv, UploadInv, BookInv
<1> SUFFICES ASSUME NEW x \in Write, version'[x] > 0, NEW y \in acks'[x],
                    meta'[y][object'[x]] = x, NEW c \in content'[x]
             PROVE  \E n \in chunkReplicas[c] :
                      file'[n][c].kind # "none" /\ Covered(y, c, n)'
  BY DEF Held
<1>2. y \in Node /\ c \in Chunk /\ object' = object
  <2>1. TypeOK'
    BY <1>1, TypeStep
  <2>2. object' = object
    <3>1. ASSUME NEW w \in Write, WriteStep(w)
          PROVE  object' = object
      BY <3>1 DEF WriteStep, StartPut, StartChunk, PutChunkReplica, PutChunkReplicaFails,
         PutChunkDone, CommitPut, StartDelete, WriteFails, CommitReplica,
         CommitReplicaFails, CommitDone, SpreadManifest, writeVars
    <3> QED
      BY <3>1, OthersLeaveWrites DEF Next, WriteNext, writeVars
  <2> QED
    BY <2>1, <2>2 DEF TypeOK
<1>3. ConfirmedChange(x, y)
  <2>1. CASE WriteNext
    BY <1>1, <1>2, <2>1, ConfirmedStep DEF WriteNext
  <2>2. CASE UNCHANGED <<meta, writeVars>>
    BY <2>2 DEF writeVars, ConfirmedChange
  <2> QED
    BY <2>1, <2>2, OthersLeaveWrites DEF Next
<1>4. CASE version[x] > 0 /\ y \in acks[x] /\ meta[y][object[x]] = x /\ content'[x] = content[x]
  <2>1. PICK n \in chunkReplicas[c] : file[n][c].kind # "none" /\ Covered(y, c, n)
    BY <1>4 DEF GCInv, Held
  <2>2. n \in Node
    BY <1>2, PlacementAssumption
  <2>3. c \in LiveChunks(y)
    BY <1>1, <1>2, <1>4, WriteAssumption DEF LiveChunks, TypeOK
  <2> QED
    BY <1>1, <1>2, <2>1, <2>2, <2>3, CoveredKept
<1>5. CASE pc[x] = "commit" /\ content'[x] = content[x] /\ UNCHANGED <<file, round, late>>
  <2>1. Active(x) /\ c \in content[x] \ todo[x]
    BY <1>1, <1>5 DEF Active, BookInv, Phases
  <2>2. PICK n \in Node : Fresh(x, c, n)
    BY <1>1, <2>1 DEF UploadInv, Uploaded
  <2>3. Covered(y, c, n)
    BY <1>1, <1>2, <2>1, <2>2, FreshIsCovered
  <2> QED
    BY <1>5, <2>2, <2>3 DEF Fresh, Covered
<1> QED
  BY <1>2, <1>3, <1>4, <1>5 DEF ConfirmedChange

LEMMA GCInit == Init => GCInv
BY TypeInit, BookInit, TimesInit, UploadedInit, HeldInit DEF GCInv, UploadInv, BookInv

LEMMA GCStep == UploadsTimely /\ GCInv /\ [Next]_vars => GCInv'
<1> SUFFICES ASSUME UploadsTimely, GCInv, [Next]_vars PROVE GCInv'
  OBVIOUS
<1>1. UploadInv'
  BY UploadStep DEF GCInv
<1>2. CASE Next
  BY <1>1, <1>2, HeldStep DEF GCInv
<1>3. CASE UNCHANGED vars
  <2>1. Held'
    BY <1>3 DEF GCInv, Held, Covered, vars, writeVars
  <2> QED
    BY <1>1, <2>1 DEF GCInv
<1> QED
  BY <1>2, <1>3

-----------------------------------------------------------------------------
(* Downloads *)

\* The manifest of write w is being written, or was acknowledged.
Published(w) == pc[w] \in {"commit", "ok"}

\* No newer write of the object has begun.
Unsurpassed(w) == \A x \in Write : object[x] = object[w] => version[x] <= version[w]

\* The file of c at n is there, and stays as long as w is the newest write of its object.
Protected(w, c, n) ==
    /\ n \in chunkReplicas[c]
    /\ file[n][c].kind # "none"
    /\ pc[w] = "commit" => Fresh(w, c, n)
    /\ pc[w] = "ok" => \E x \in acks[w] : Covered(x, c, n)

\* The replicas that download r can still ask for chunk c.
ToAsk(r, c) == IF c = reader[r].current THEN reader[r].left ELSE chunkReplicas[c]

\* No file is bad before one rots.
NoneBad == ~rot => \A n \in Node, c \in Chunk : file[n][c].kind # "bad"

\* A download reads chunks of a manifest that was given a version.
Downloads ==
    \A r \in Reader : reader[r].pc \in {"reading", "cut"} =>
        /\ reader[r].manifest \in Puts
        /\ version[reader[r].manifest] > 0
        /\ reader[r].todo \subseteq content[reader[r].manifest]
        /\ reader[r].current \in reader[r].todo \cup {Nil}

\* Nothing explains yet why download r could be cut short.
Innocent(r) ==
    /\ reader[r].pc \in {"reading", "cut"}
    /\ ~reader[r].faulty
    /\ Published(reader[r].manifest)
    /\ Unsurpassed(reader[r].manifest)

\* Such a download can still ask, for each chunk it has to read, a replica that keeps it.
Served ==
    ~rot => \A r \in Reader : Innocent(r) =>
        /\ reader[r].pc = "reading"
        /\ \A c \in reader[r].todo : \E n \in ToAsk(r, c) : Protected(reader[r].manifest, c, n)

CutInv == GCInv /\ NoneBad /\ Downloads /\ Served

LEMMA CutInvExplains == CutInv => CutReadsExplained
<1> SUFFICES ASSUME CutInv, NEW r \in Reader, reader[r].pc = "cut", ~rot,
                    ~reader[r].faulty, pc[reader[r].manifest] = "ok",
                    \A x \in Write : ~(/\ object[x] = object[reader[r].manifest]
                                       /\ version[x] > version[reader[r].manifest])
             PROVE  FALSE
  BY DEF CutReadsExplained
<1> DEFINE w == reader[r].manifest
<1>1. w \in Write /\ version \in [Write -> Nat]
  BY DEF CutInv, Downloads, GCInv, UploadInv, BookInv, TypeOK
<1>2. Unsurpassed(w)
  BY <1>1 DEF Unsurpassed
<1>3. Innocent(r)
  BY <1>2 DEF Innocent, Published
<1> QED
  BY <1>3 DEF CutInv, Served

LEMMA CutInit == Init => CutInv
<1> SUFFICES ASSUME Init PROVE CutInv
  OBVIOUS
<1>1. NoneBad
  BY DEF Init, NoneBad, OldFile, NoFile
<1>2. Downloads /\ Served
  BY DEF Init, Downloads, Served, Innocent
<1> QED
  BY <1>1, <1>2, GCInit DEF CutInv

\* A manifest that has its version keeps it, and its chunks; it is acknowledged in a step
\* that changes no file and no collection.
PublishedChange(x) ==
    /\ version'[x] >= version[x]
    /\ version[x] > 0 =>
         /\ version'[x] = version[x] /\ content'[x] = content[x]
         /\ acks[x] \subseteq acks'[x]
         /\ Published(x)' =>
              \/ pc'[x] = pc[x] /\ began'[x] = began[x]
              \/ pc[x] = "commit" /\ pc'[x] = "ok" /\ UNCHANGED <<file, round, late>>

LEMMA PublishedWriteStep ==
    ASSUME BookInv, NEW w \in Write, WriteStep(w)
    PROVE  PublishedChange(w)
<1> USE WriteAssumption DEF BookInv, TypeOK, Phases, PublishedChange, Published
<1>0. version[w] \in Nat
  OBVIOUS
<1>1. ASSUME NEW C \in Contents, StartPut(w, C)
      PROVE  PublishedChange(w)
  BY <1>0, <1>1 DEF StartPut
<1>2. ASSUME NEW c \in Chunk, StartChunk(w, c)
      PROVE  PublishedChange(w)
  BY <1>0, <1>2 DEF StartChunk
<1>3. ASSUME NEW n \in Node, PutChunkReplica(w, n)
      PROVE  PublishedChange(w)
  BY <1>0, <1>3 DEF PutChunkReplica
<1>4. ASSUME NEW n \in Node, PutChunkReplicaFails(w, n)
      PROVE  PublishedChange(w)
  BY <1>0, <1>4 DEF PutChunkReplicaFails
<1>5. ASSUME PutChunkDone(w) PROVE PublishedChange(w)
  BY <1>0, <1>5 DEF PutChunkDone, Abandon
<1>6. ASSUME CommitPut(w) PROVE PublishedChange(w)
  <2>1. version[w] = 0 /\ version'[w] = last + 1 /\ last \in Nat
    BY <1>6 DEF CommitPut, BeginCommit
  <2> QED
    BY <2>1
<1>7. ASSUME StartDelete(w) PROVE PublishedChange(w)
  <2>1. version[w] = 0 /\ version'[w] = last + 1 /\ last \in Nat
    BY <1>7 DEF StartDelete, BeginCommit
  <2> QED
    BY <2>1
<1>8. ASSUME WriteFails(w) PROVE PublishedChange(w)
  BY <1>0, <1>8 DEF WriteFails, Abandon
<1>9. ASSUME NEW n \in Node, CommitReplica(w, n)
      PROVE  PublishedChange(w)
  BY <1>0, <1>9 DEF CommitReplica
<1>10. ASSUME NEW n \in Node, CommitReplicaFails(w, n)
      PROVE  PublishedChange(w)
  BY <1>0, <1>10 DEF CommitReplicaFails
<1>11. ASSUME CommitDone(w) PROVE PublishedChange(w)
  BY <1>0, <1>11 DEF CommitDone
<1>12. ASSUME NEW n \in Node, SpreadManifest(w, n)
      PROVE  PublishedChange(w)
  BY <1>0, <1>12 DEF SpreadManifest, writeVars
<1> QED
  BY <1>1, <1>2, <1>3, <1>4, <1>5, <1>6, <1>7, <1>8, <1>9, <1>10, <1>11, <1>12
     DEF WriteStep

LEMMA ObjectsStay == Next => object' = object
<1>1. ASSUME NEW w \in Write, WriteStep(w) PROVE object' = object
  BY <1>1 DEF WriteStep, StartPut, StartChunk, PutChunkReplica, PutChunkReplicaFails,
     PutChunkDone, CommitPut, StartDelete, WriteFails, CommitReplica,
     CommitReplicaFails, CommitDone, SpreadManifest, writeVars
<1> QED
  BY <1>1, OthersLeaveWrites DEF Next, WriteNext, writeVars

LEMMA PublishedStep ==
    ASSUME BookInv, Next, NEW x \in Write
    PROVE  PublishedChange(x)
<1>1. version[x] \in Nat
  BY DEF BookInv, TypeOK
<1>2. ASSUME NEW w \in Write, WriteStep(w) PROVE PublishedChange(x)
  <2>1. CASE x = w
    BY <1>2, <2>1, PublishedWriteStep
  <2>2. CASE x # w
    BY <1>1, <1>2, <2>2, OtherWrites DEF PublishedChange, BookInv
  <2> QED
    BY <2>1, <2>2
<1>3. CASE UNCHANGED writeVars
  BY <1>1, <1>3 DEF PublishedChange, writeVars
<1> QED
  BY <1>2, <1>3, OthersLeaveWrites DEF Next, WriteNext

\* What is the newest write after a step was it before.
LEMMA UnsurpassedBefore ==
    ASSUME BookInv, Next, NEW w \in Write, version[w] > 0, Unsurpassed(w)'
    PROVE  Unsurpassed(w)
<1> SUFFICES ASSUME NEW x \in Write, object[x] = object[w]
             PROVE  version[x] <= version[w]
  BY DEF Unsurpassed
<1>1. version'[x] <= version'[w]
  BY ObjectsStay DEF Unsurpassed
<1>2. version'[x] >= version[x] /\ version'[w] = version[w]
  BY PublishedStep DEF PublishedChange
<1>3. version'[x] \in Nat /\ version[x] \in Nat /\ version[w] \in Nat
  <2>1. TypeOK'
    BY TypeStep DEF BookInv
  <2> QED
    BY <2>1 DEF BookInv, TypeOK
<1> QED
  BY <1>1, <1>2, <1>3

\* Members that confirmed the newest manifest hold it.
LEMMA ConfirmedIsHeld ==
    ASSUME BookInv, NEW w \in Write, version[w] > 0, Unsurpassed(w), NEW x \in acks[w]
    PROVE  x \in Node /\ meta[x][object[w]] = w
<1>1. x \in Node /\ object[w] \in Object
  BY DEF BookInv, TypeOK
<1>2. PICK y \in Write : y = meta[x][object[w]]
  BY <1>1, WriteAssumption DEF BookInv, TypeOK, Manifests
<1>3. y # Nil
  BY <1>2, WriteAssumption
<1>4. object[y] = object[w] /\ version[y] >= version[w] /\ version[y] > 0
  BY <1>1, <1>2, <1>3 DEF BookInv, Manifests
<1>5. version[y] <= version[w]
  BY <1>4 DEF Unsurpassed
<1>6. version[y] \in Nat /\ version[w] \in Nat
  BY DEF BookInv, TypeOK
<1>7. version[y] = version[w]
  BY <1>4, <1>5, <1>6
<1> QED
  BY <1>1, <1>2, <1>7 DEF BookInv, Versions

\* The newest manifest, from its first replica on, has a file for each of its chunks that
\* is going to stay.
LEMMA PublishedProtected ==
    ASSUME GCInv, NEW w \in Write, version[w] > 0, Published(w), Unsurpassed(w),
           NEW c \in content[w]
    PROVE  \E n \in chunkReplicas[c] : Protected(w, c, n)
<1> USE DEF GCInv, UploadInv
<1>1. CASE pc[w] = "commit"
  <2>1. Active(w) /\ c \in content[w] \ todo[w]
    BY <1>1 DEF Active, BookInv, Phases
  <2>2. PICK n \in Node : Fresh(w, c, n)
    BY <2>1 DEF Uploaded
  <2> QED
    BY <1>1, <2>2 DEF Protected, Fresh
<1>2. CASE pc[w] = "ok"
  <2>1. Cardinality(acks[w]) >= writeQuorum
    BY <1>2 DEF BookInv, Phases
  <2>2. PICK x \in acks[w] : TRUE
    BY <2>1, QuorumAssumption, FS_EmptySet
  <2>3. meta[x][object[w]] = w
    BY ConfirmedIsHeld
  <2>4. PICK n \in chunkReplicas[c] : file[n][c].kind # "none" /\ Covered(x, c, n)
    BY <2>3 DEF Held
  <2> QED
    BY <1>2, <2>4 DEF Protected
<1> QED
  BY <1>1, <1>2 DEF Published

LEMMA ProtectedKept ==
    ASSUME UploadsTimely, GCInv, Next, NEW w \in Write, version[w] > 0,
           Published(w)', Unsurpassed(w)', NEW c \in content[w], NEW n, Protected(w, c, n)
    PROVE  Protected(w, c, n)'
<1>1. BookInv /\ TypeOK /\ Times
  BY DEF GCInv, UploadInv, BookInv
<1>2. PublishedChange(w) /\ Unsurpassed(w)
  BY <1>1, PublishedStep, UnsurpassedBefore
<1>3. c \in Chunk /\ n \in Node
  <2>1. c \in Chunk
    BY <1>1 DEF TypeOK
  <2> QED
    BY <2>1, PlacementAssumption DEF Protected
<1>4. Published(w)
  BY <1>2 DEF PublishedChange, Published
<1>5. CASE pc[w] = "commit" /\ pc'[w] = "commit"
  <2>1. Active(w) /\ began'[w] = began[w] /\ Fresh(w, c, n)
    BY <1>2, <1>5 DEF PublishedChange, Protected, Active
  <2>2. Fresh(w, c, n)'
    BY <1>1, <1>3, <2>1, FreshKept
  <2> QED
    BY <1>5, <2>2 DEF Protected, Fresh
<1>6. CASE pc[w] = "commit" /\ pc'[w] = "ok"
  <2>1. UNCHANGED <<file, round, late>> /\ acks[w] \subseteq acks'[w]
    BY <1>2, <1>6 DEF PublishedChange
  <2>2. acks'[w] # {}
    <3>1. BookInv'
      BY <1>1, BookStep
    <3>2. Cardinality(acks'[w]) >= writeQuorum
      BY <1>6, <3>1 DEF BookInv, Phases
    <3> QED
      BY <3>2, QuorumAssumption, FS_EmptySet
  <2>3. PICK x \in acks'[w] : TRUE
    BY <2>2
  <2>4. Active(w) /\ Fresh(w, c, n)
    BY <1>6 DEF Active, Protected
  <2>5. Covered(x, c, n)
    BY <1>1, <1>3, <2>4, FreshIsCovered
  <2>6. Covered(x, c, n)'
    BY <2>1, <2>5 DEF Covered
  <2> QED
    BY <1>6, <2>1, <2>6 DEF Protected
<1>7. CASE pc[w] = "ok"
  <2>1. PICK x \in acks[w] : Covered(x, c, n)
    BY <1>7 DEF Protected
  <2>2. x \in Node /\ meta[x][object[w]] = w
    BY <1>1, <1>2, ConfirmedIsHeld
  <2>3. c \in LiveChunks(x)
    BY <1>1, <2>2, WriteAssumption DEF LiveChunks, TypeOK
  <2>4. file'[n][c].kind # "none" /\ Covered(x, c, n)'
    BY <1>1, <1>3, <2>1, <2>2, <2>3, CoveredKept DEF Protected
  <2>5. x \in acks'[w] /\ pc'[w] = "ok"
    BY <1>2, <1>7 DEF PublishedChange
  <2> QED
    BY <2>4, <2>5 DEF Protected
<1> QED
  BY <1>4, <1>5, <1>6, <1>7 DEF Published

\* What has rotted is never forgotten.
LEMMA RotStays == ASSUME TypeOK, Next PROVE rot => rot'
<1>1. CASE WriteNext
  BY <1>1, ZenonT(60)
     DEF WriteNext, WriteStep, StartPut, StartChunk, PutChunkReplica,
         PutChunkReplicaFails, PutChunkDone, CommitPut, StartDelete, WriteFails,
         CommitReplica, CommitReplicaFails, CommitDone, SpreadManifest
<1>2. CASE GCNext
  BY <1>2 DEF GCNext, StartGC, MarkMember, StartSweep, SweepMember, SweepMemberFails,
              GCFails, LateSweep
<1>3. CASE ReadNext
  BY <1>3 DEF ReadNext, StartRead, GetChunkReplica, GetChunkLacking, GetChunkFails,
              RepairCheck, RepairPut, RepairFails
<1>4. CASE EnvNext
  BY <1>4 DEF EnvNext, Tick, SyncConfig, Rot
<1> QED
  BY <1>1, <1>2, <1>3, <1>4 DEF Next

\* Only rot makes a file bad.
LEMMA NoneBadStep ==
    ASSUME TypeOK, NoneBad, Next
    PROVE  NoneBad'
<1> SUFFICES ASSUME ~rot', NEW n \in Node, NEW c \in Chunk
             PROVE  file'[n][c].kind # "bad"
  BY DEF NoneBad
<1>1. file[n][c].kind # "bad" /\ file \in [Node -> [Chunk -> File]]
  BY RotStays DEF NoneBad, TypeOK
<1>2. CASE UNCHANGED file
  BY <1>1, <1>2
<1>3. ASSUME NEW m \in Node, NEW d, StoreChunk(m, d)
      PROVE  file'[n][c].kind # "bad"
  BY <1>1, <1>3 DEF StoreChunk
<1>4. ASSUME NEW m \in Node, NEW D, RemoveFiles(m, D)
      PROVE  file'[n][c].kind # "bad"
  BY <1>1, <1>4 DEF RemoveFiles, NoFile
<1>5. CASE WriteNext
  BY <1>2, <1>3, <1>5
     DEF WriteNext, WriteStep, StartPut, StartChunk, PutChunkReplica, PutChunkReplicaFails,
         PutChunkDone, CommitPut, StartDelete, WriteFails, CommitReplica,
         CommitReplicaFails, CommitDone, SpreadManifest
<1>6. CASE GCNext
  <2>1. ASSUME NEW s \in late, NEW D, LateSweep(s, D)
        PROVE  file'[n][c].kind # "bad"
    <3>1. s.member \in Node
      BY DEF TypeOK, Sweep
    <3> QED
      BY <1>4, <2>1, <3>1 DEF LateSweep
  <2> QED
    BY <1>2, <1>4, <1>6, <2>1
       DEF GCNext, StartGC, MarkMember, StartSweep, SweepMember, SweepMemberFails, GCFails
<1>7. CASE ReadNext
  <2>1. ASSUME NEW p \in repair, RepairPut(p)
        PROVE  file'[n][c].kind # "bad"
    <3>1. p.replica \in Node
      BY DEF TypeOK, Repair
    <3> QED
      BY <1>3, <2>1, <3>1 DEF RepairPut
  <2> QED
    BY <1>2, <1>7, <2>1
       DEF ReadNext, StartRead, GetChunkReplica, GetChunkLacking, GetChunkFails,
           RepairCheck, RepairFails
<1>8. CASE EnvNext
  BY <1>2, <1>8 DEF EnvNext, Tick, SyncConfig, Rot
<1> QED
  BY <1>5, <1>6, <1>7, <1>8 DEF Next

\* A step of download r.
Reads(r) ==
    \/ \E o \in Object : \E Q \in ReadQuorum(o) : StartRead(r, o, Q)
    \/ \E c \in Chunk, n \in Node :
         GetChunkReplica(r, c, n) \/ GetChunkLacking(r, c, n) \/ GetChunkFails(r, c, n)

\* Nothing but a download's own step changes it, and such a step changes no file.
LEMMA ReaderStep ==
    ASSUME TypeOK, Next, NEW r \in Reader
    PROVE  \/ reader'[r] = reader[r]
           \/ Reads(r) /\ UNCHANGED <<file, meta, writeVars, round, late, rot>>
<1>1. CASE WriteNext
  BY <1>1
     DEF WriteNext, WriteStep, StartPut, StartChunk, PutChunkReplica,
         PutChunkReplicaFails, PutChunkDone, CommitPut, StartDelete, WriteFails,
         CommitReplica, CommitReplicaFails, CommitDone, SpreadManifest
<1>2. CASE GCNext
  BY <1>2 DEF GCNext, StartGC, MarkMember, StartSweep, SweepMember, SweepMemberFails,
              GCFails, LateSweep
<1>3. CASE ReadNext
  <2>1. ASSUME NEW q \in Reader, Reads(q)
        PROVE  \/ reader'[r] = reader[r]
               \/ Reads(r) /\ UNCHANGED <<file, meta, writeVars, round, late, rot>>
    <3>1. UNCHANGED <<file, meta, writeVars, round, late, rot>>
      BY <2>1 DEF Reads, StartRead, GetChunkReplica, GetChunkLacking, GetChunkFails
    <3>2. q # r => reader'[r] = reader[r]
      BY <2>1 DEF Reads, StartRead, GetChunkReplica, GetChunkLacking, GetChunkFails,
                  ChunkRead, NextReplica, SetReader, TypeOK
    <3> QED
      BY <2>1, <3>1, <3>2
  <2> QED
    BY <1>3, <2>1 DEF ReadNext, Reads, RepairCheck, RepairPut, RepairFails
<1>4. CASE EnvNext
  BY <1>4 DEF EnvNext, Tick, SyncConfig, Rot
<1> QED
  BY <1>1, <1>2, <1>3, <1>4 DEF Next

\* What a download is after a step of its own.
ReaderChange(r, d, e) ==
    \/ \E o \in Object : \E Q \in ReadQuorum(o) :
         /\ Newest(Q, o) \in Puts
         /\ e = [pc |-> "reading", manifest |-> Newest(Q, o), todo |-> content[Newest(Q, o)],
                 current |-> Nil, left |-> {}, faulty |-> FALSE]
    \/ e.pc = "whole"
    \/ \E c \in Chunk, n \in Node :
         /\ d.pc = "reading"
         /\ Asking(r, c, n)
         /\ \/ e = [pc |-> "reading", manifest |-> d.manifest, todo |-> d.todo \ {c},
                    current |-> Nil, left |-> {}, faulty |-> d.faulty]
            \/ \E f \in BOOLEAN :
                 LET left == (IF d.current = Nil THEN chunkReplicas[c] ELSE d.left) \ {n}
                 IN  /\ f \/ file[n][c].kind # "good"
                     /\ \/ /\ left = {}
                           /\ e = [pc |-> "cut", manifest |-> d.manifest, todo |-> d.todo,
                                   current |-> Nil, left |-> {}, faulty |-> d.faulty \/ f]
                        \/ /\ left # {}
                           /\ e = [pc |-> "reading", manifest |-> d.manifest,
                                   todo |-> d.todo, current |-> c, left |-> left,
                                   faulty |-> d.faulty \/ f]

LEMMA ReadsChange ==
    ASSUME TypeOK, NEW r \in Reader, Reads(r)
    PROVE  ReaderChange(r, reader[r], reader'[r])
<1> DEFINE d == reader[r]
<1>0. ASSUME NEW p, NEW m, NEW t, NEW c, NEW l, NEW f, SetReader(r, p, m, t, c, l, f)
      PROVE  reader'[r] = [pc |-> p, manifest |-> m, todo |-> t, current |-> c,
                           left |-> l, faulty |-> f]
  BY <1>0 DEF SetReader, TypeOK
<1>1. ASSUME NEW o \in Object, NEW Q \in ReadQuorum(o), StartRead(r, o, Q)
      PROVE  ReaderChange(r, d, reader'[r])
  <2>1. Newest(Q, o) \in Puts
    BY <1>1 DEF StartRead
  <2>2. reader'[r] = [pc |-> "reading", manifest |-> Newest(Q, o),
                      todo |-> content[Newest(Q, o)], current |-> Nil, left |-> {},
                      faulty |-> FALSE]
    BY <1>1 DEF StartRead, SetReader, TypeOK
  <2> QED
    BY <2>1, <2>2 DEF ReaderChange
<1>2. ASSUME NEW c \in Chunk, NEW n \in Node, GetChunkReplica(r, c, n)
      PROVE  ReaderChange(r, d, reader'[r])
  <2>1. Asking(r, c, n) /\ ChunkRead(r, c) /\ d.pc = "reading"
    BY <1>2 DEF GetChunkReplica, Asking
  <2>2. CASE d.todo = {c}
    <3>1. reader'[r].pc = "whole"
      BY <2>1, <2>2 DEF ChunkRead, SetReader, TypeOK
    <3> QED
      BY <3>1 DEF ReaderChange
  <2>3. CASE d.todo # {c}
    <3>1. reader'[r] = [pc |-> "reading", manifest |-> d.manifest, todo |-> d.todo \ {c},
                        current |-> Nil, left |-> {}, faulty |-> d.faulty]
      BY <1>0, <2>1, <2>3 DEF ChunkRead
    <3> QED
      BY <2>1, <3>1 DEF ReaderChange
  <2> QED
    BY <2>2, <2>3
<1>3. ASSUME NEW c \in Chunk, NEW n \in Node, NEW f \in BOOLEAN, Asking(r, c, n),
             NextReplica(r, c, n, f), f \/ file[n][c].kind # "good"
      PROVE  ReaderChange(r, d, reader'[r])
  <2> DEFINE left == (IF d.current = Nil THEN chunkReplicas[c] ELSE d.left) \ {n}
  <2>1. \/ /\ left = {}
           /\ reader'[r] = [pc |-> "cut", manifest |-> d.manifest, todo |-> d.todo,
                            current |-> Nil, left |-> {}, faulty |-> d.faulty \/ f]
        \/ /\ left # {}
           /\ reader'[r] = [pc |-> "reading", manifest |-> d.manifest,
                            todo |-> d.todo, current |-> c, left |-> left,
                            faulty |-> d.faulty \/ f]
    BY <1>0, <1>3 DEF NextReplica
  <2>2. d.pc = "reading"
    BY <1>3 DEF Asking
  <2> QED
    BY <1>3, <2>1, <2>2 DEF ReaderChange
<1>4. ASSUME NEW c \in Chunk, NEW n \in Node, GetChunkLacking(r, c, n)
      PROVE  ReaderChange(r, d, reader'[r])
  BY <1>3, <1>4 DEF GetChunkLacking
<1>5. ASSUME NEW c \in Chunk, NEW n \in Node, GetChunkFails(r, c, n)
      PROVE  ReaderChange(r, d, reader'[r])
  BY <1>3, <1>5 DEF GetChunkFails
<1> QED
  BY <1>1, <1>2, <1>4, <1>5 DEF Reads

\* When some element of H has a greatest value, CHOOSE finds one.
LEMMA GreatestOf ==
    ASSUME NEW H, NEW v, NEW h \in H, \A x \in H : v[x] <= v[h]
    PROVE  (CHOOSE w \in H : \A x \in H : v[x] <= v[w]) \in H
OBVIOUS

\* A quorum read returns a manifest that a member holds, and that was given its version.
LEMMA NewestIsWritten ==
    ASSUME BookInv, NEW o \in Object, NEW Q \in ReadQuorum(o), Newest(Q, o) \in Puts
    PROVE  version[Newest(Q, o)] > 0
<1> DEFINE held == {meta[n][o] : n \in Q} \ {Nil}
           Gaps == {last - version[w] : w \in held}
<1>1. Newest(Q, o) # Nil /\ Q \subseteq Node
  BY WriteAssumption, PlacementAssumption DEF ReadQuorum
<1>2. held # {} /\ Newest(Q, o) = CHOOSE w \in held : \A x \in held : version[x] <= version[w]
  BY <1>1 DEF Newest
<1>3. held \subseteq Write
  BY <1>1 DEF BookInv, TypeOK
<1>4. ASSUME NEW w \in held
      PROVE  version[w] > 0 /\ version[w] \in Nat /\ last - version[w] \in Nat
  <2>1. version[w] > 0
    BY <1>1 DEF BookInv, Manifests
  <2>2. w \in Write
    BY <1>3
  <2> HIDE DEF held
  <2>3. version[w] \in Nat /\ last \in Nat /\ version[w] <= last
    BY <2>2 DEF BookInv, TypeOK, Versions
  <2> QED
    BY <2>1, <2>3
<1> HIDE DEF held
<1>5. Gaps \subseteq Nat /\ Gaps # {}
  BY <1>2, <1>4
<1>6. PICK g \in Gaps : \A x \in Gaps : g <= x
  <2> HIDE DEF Gaps
  <2> QED
    BY <1>5, LeastNatural
<1>7. PICK h \in held : g = last - version[h]
  BY <1>6
<1>8. ASSUME NEW x \in held
      PROVE  version[x] <= version[h]
  <2>1. last - version[h] <= last - version[x]
    BY <1>6, <1>7
  <2>2. version[x] \in Nat /\ version[h] \in Nat /\ last \in Nat
    BY <1>4 DEF BookInv, TypeOK
  <2> QED
    BY <2>1, <2>2
<1>9. (CHOOSE w \in held : \A x \in held : version[x] <= version[w]) \in held
  BY <1>8, GreatestOf
<1> QED
  BY <1>2, <1>4, <1>9

LEMMA DownloadsStep ==
    ASSUME BookInv, Downloads, Next
    PROVE  Downloads'
<1> SUFFICES ASSUME NEW r \in Reader, reader'[r].pc \in {"reading", "cut"}
             PROVE  /\ reader'[r].manifest \in Puts
                    /\ version'[reader'[r].manifest] > 0
                    /\ reader'[r].todo \subseteq content'[reader'[r].manifest]
                    /\ reader'[r].current \in reader'[r].todo \cup {Nil}
  BY DEF Downloads
<1> DEFINE d == reader[r]
           e == reader'[r]
<1>1. ASSUME NEW w \in Puts, version[w] > 0
      PROVE  version'[w] > 0 /\ content'[w] = content[w]
  BY <1>1, PublishedStep DEF PublishedChange
<1>2. ASSUME d.pc \in {"reading", "cut"}, e.manifest = d.manifest, e.todo \subseteq d.todo
      PROVE  /\ e.manifest \in Puts /\ version'[e.manifest] > 0
             /\ e.todo \subseteq content'[e.manifest]
  <2>1. /\ d.manifest \in Puts /\ version[d.manifest] > 0
        /\ d.todo \subseteq content[d.manifest]
    BY <1>2 DEF Downloads
  <2> QED
    BY <1>1, <1>2, <2>1
<1>3. CASE e = d
  BY <1>2, <1>3 DEF Downloads
<1>4. ASSUME ReaderChange(r, d, e)
      PROVE  /\ e.manifest \in Puts /\ version'[e.manifest] > 0
             /\ e.todo \subseteq content'[e.manifest]
             /\ e.current \in e.todo \cup {Nil}
  <2>1. ASSUME NEW o \in Object, NEW Q \in ReadQuorum(o), Newest(Q, o) \in Puts,
               e.manifest = Newest(Q, o), e.todo = content[Newest(Q, o)]
        PROVE  /\ e.manifest \in Puts /\ version'[e.manifest] > 0
               /\ e.todo \subseteq content'[e.manifest]
    BY <1>1, <2>1, NewestIsWritten
  <2>2. \A c \in Chunk, n \in Node : Asking(r, c, n) => c \in d.todo
    BY WriteAssumption DEF Asking, Downloads
  <2>3. e.pc # "whole"
    OBVIOUS
  <2> HIDE DEF d, e
  <2>4. \/ /\ \E o \in Object : \E Q \in ReadQuorum(o) :
                /\ Newest(Q, o) \in Puts /\ e.manifest = Newest(Q, o)
                /\ e.todo = content[Newest(Q, o)]
           /\ e.current = Nil
        \/ /\ d.pc = "reading" /\ e.manifest = d.manifest /\ e.todo \subseteq d.todo
           /\ e.current \in e.todo \cup {Nil}
    BY <1>4, <2>2, <2>3 DEF ReaderChange
  <2> QED
    BY <1>2, <2>1, <2>4
<1> QED
  BY <1>3, <1>4, ReaderStep, ReadsChange DEF BookInv

\* A download that goes on, or ends, after a step of its own.
LEMMA ServedRead ==
    ASSUME GCInv, NoneBad, Downloads, Served, ~rot, NEW r \in Reader, NEW e,
           ReaderChange(r, reader[r], e), e.pc \in {"reading", "cut"}, ~e.faulty,
           Published(e.manifest), Unsurpassed(e.manifest)
    PROVE  /\ e.pc = "reading"
           /\ \A c \in e.todo : \E n \in IF c = e.current THEN e.left ELSE chunkReplicas[c] :
                Protected(e.manifest, c, n)
<1> DEFINE d == reader[r]
           Goal == /\ e.pc = "reading"
                   /\ \A c \in e.todo :
                        \E n \in IF c = e.current THEN e.left ELSE chunkReplicas[c] :
                          Protected(e.manifest, c, n)
<1> SUFFICES Goal
  OBVIOUS
<1>0. BookInv /\ TypeOK
  BY DEF GCInv, UploadInv, BookInv
<1>1. ASSUME NEW o \in Object, NEW Q \in ReadQuorum(o), Newest(Q, o) \in Puts,
             e = [pc |-> "reading", manifest |-> Newest(Q, o), todo |-> content[Newest(Q, o)],
                  current |-> Nil, left |-> {}, faulty |-> FALSE]
      PROVE  Goal
  <2>1. PICK w \in Puts : w = Newest(Q, o)
    BY <1>1
  <2>2. /\ e.pc = "reading" /\ e.manifest = w /\ e.todo = content[w] /\ e.current = Nil
        /\ version[w] > 0
    BY <1>0, <1>1, <2>1, NewestIsWritten
  <2>3. \A c \in content[w] : \E n \in chunkReplicas[c] : Protected(w, c, n)
    BY <2>2, PublishedProtected
  <2>4. \A c \in content[w] : c # Nil
    BY <1>0, WriteAssumption DEF TypeOK
  <2> QED
    BY <2>2, <2>3, <2>4
<1>2. ASSUME d.pc = "reading", e.manifest = d.manifest, ~d.faulty
      PROVE  \A c \in d.todo : \E n \in ToAsk(r, c) : Protected(d.manifest, c, n)
  BY <1>2 DEF Served, Innocent
<1>3. \A c \in d.todo : c \in Chunk /\ c # Nil
  BY <1>0, WriteAssumption DEF TypeOK, Download
<1>4. ASSUME NEW c \in Chunk, NEW n \in Node, d.pc = "reading", Asking(r, c, n),
             e = [pc |-> "reading", manifest |-> d.manifest, todo |-> d.todo \ {c},
                  current |-> Nil, left |-> {}, faulty |-> d.faulty]
      PROVE  Goal
  <2>1. /\ e.pc = "reading" /\ e.manifest = d.manifest /\ e.faulty = d.faulty
        /\ e.todo = d.todo \ {c} /\ e.current = Nil
    BY <1>4
  <2>2. ASSUME NEW x \in e.todo
        PROVE  \E m \in chunkReplicas[x] : Protected(d.manifest, x, m)
    <3>1. x \in d.todo /\ x # c /\ x # Nil
      BY <1>3, <2>1
    <3>2. x # d.current
      BY <1>4, <3>1 DEF Asking
    <3> QED
      BY <1>2, <1>4, <2>1, <3>1, <3>2 DEF ToAsk
  <2> QED
    BY <1>3, <2>1, <2>2
<1>5. ASSUME NEW c \in Chunk, NEW n \in Node, d.pc = "reading", Asking(r, c, n),
             NEW f \in BOOLEAN, NEW left,
             left = (IF d.current = Nil THEN chunkReplicas[c] ELSE d.left) \ {n},
             f \/ file[n][c].kind # "good",
             e.manifest = d.manifest, e.todo = d.todo, e.faulty = (d.faulty \/ f),
             \/ left = {} /\ e.pc = "cut"
             \/ e.pc = "reading" /\ e.current = c /\ e.left = left,
             c \in d.todo
      PROVE  Goal
  <2>1. ~d.faulty /\ ~f
    BY <1>0, <1>5 DEF TypeOK, Download
  <2>2. file[n][c].kind = "none"
    <3>1. file[n][c].kind \in {"none", "good", "bad"}
      BY <1>0 DEF TypeOK, File
    <3> QED
      BY <1>5, <2>1, <3>1 DEF NoneBad
  <2>3. \A x \in d.todo : \E m \in ToAsk(r, x) : Protected(d.manifest, x, m)
    BY <1>2, <1>5, <2>1
  <2>4. PICK m \in ToAsk(r, c) : Protected(d.manifest, c, m)
    BY <1>5, <2>3
  <2>5. m # n
    BY <2>2, <2>4 DEF Protected
  <2>6. m \in left
    <3>1. CASE d.current = Nil
      BY <1>3, <1>5, <2>4, <2>5, <3>1 DEF ToAsk
    <3>2. CASE d.current # Nil
      BY <1>5, <2>4, <2>5, <3>2 DEF ToAsk, Asking
    <3> QED
      BY <3>1, <3>2
  <2>7. e.pc = "reading" /\ e.current = c /\ e.left = left
    BY <1>5, <2>6
  <2>8. ASSUME NEW x \in d.todo, x # c
        PROVE  \E k \in chunkReplicas[x] : Protected(d.manifest, x, k)
    <3>1. x # d.current
      BY <1>3, <1>5, <2>8 DEF Asking
    <3> QED
      BY <2>3, <2>8, <3>1 DEF ToAsk
  <2> QED
    BY <1>5, <2>4, <2>6, <2>7, <2>8
<1>6. ASSUME NEW c \in Chunk, NEW n \in Node, d.pc = "reading", Asking(r, c, n)
      PROVE  c \in d.todo
  BY <1>6, WriteAssumption DEF Asking, Downloads
<1>7. ASSUME NEW c \in Chunk, NEW n \in Node, d.pc = "reading", Asking(r, c, n),
             NEW f \in BOOLEAN, f \/ file[n][c].kind # "good",
             LET left == (IF d.current = Nil THEN chunkReplicas[c] ELSE d.left) \ {n}
             IN  \/ /\ left = {}
                    /\ e = [pc |-> "cut", manifest |-> d.manifest, todo |-> d.todo,
                            current |-> Nil, left |-> {}, faulty |-> d.faulty \/ f]
                 \/ /\ left # {}
                    /\ e = [pc |-> "reading", manifest |-> d.manifest,
                            todo |-> d.todo, current |-> c, left |-> left,
                            faulty |-> d.faulty \/ f]
      PROVE  Goal
  <2> DEFINE left == (IF d.current = Nil THEN chunkReplicas[c] ELSE d.left) \ {n}
  <2>1. /\ e.manifest = d.manifest /\ e.todo = d.todo /\ e.faulty = (d.faulty \/ f)
        /\ \/ left = {} /\ e.pc = "cut"
           \/ e.pc = "reading" /\ e.current = c /\ e.left = left
    BY <1>7
  <2> HIDE DEF Goal
  <2> QED
    BY <1>5, <1>6, <1>7, <2>1
<1>8. e.pc # "whole"
  OBVIOUS
<1> HIDE DEF Goal
<1> QED
  BY <1>1, <1>4, <1>7, <1>8 DEF ReaderChange

LEMMA ServedStep ==
    ASSUME UploadsTimely, GCInv, NoneBad, Downloads, Served, Next
    PROVE  Served'
<1> SUFFICES ASSUME ~rot', NEW r \in Reader, Innocent(r)'
             PROVE  (/\ reader[r].pc = "reading"
                     /\ \A c \in reader[r].todo : \E n \in ToAsk(r, c) :
                          Protected(reader[r].manifest, c, n))'
  BY DEF Served
<1>0. BookInv /\ TypeOK /\ ~rot
  BY RotStays DEF GCInv, UploadInv, BookInv
<1>1. CASE reader'[r] = reader[r]
  <2>1. PICK w \in Puts : w = reader[r].manifest /\ version[w] > 0
                          /\ reader[r].todo \subseteq content[w]
    BY <1>1 DEF Downloads, Innocent
  <2>2. Published(w)' /\ Unsurpassed(w)'
    BY <1>1, <2>1 DEF Innocent, Published, Unsurpassed
  <2>3. Published(w) /\ Unsurpassed(w)
    BY <1>0, <2>1, <2>2, PublishedStep, UnsurpassedBefore DEF PublishedChange, Published
  <2>4. Innocent(r)
    BY <1>1, <2>1, <2>3 DEF Innocent
  <2>5. /\ reader[r].pc = "reading"
        /\ \A c \in reader[r].todo : \E n \in ToAsk(r, c) : Protected(w, c, n)
    BY <1>0, <2>1, <2>4 DEF Served
  <2>6. \A c \in reader[r].todo : \A n : Protected(w, c, n) => Protected(w, c, n)'
    BY <2>1, <2>2, ProtectedKept
  <2>7. \A c : ToAsk(r, c)' = ToAsk(r, c)
    BY <1>1 DEF ToAsk
  <2>8. \A c, n : Protected(w, c, n)' => (Protected(reader[r].manifest, c, n))'
    BY <1>1, <2>1 DEF Protected, Fresh
  <2> QED
    BY <1>1, <2>5, <2>6, <2>7, <2>8
<1>2. CASE Reads(r) /\ UNCHANGED <<file, meta, writeVars, round, late, rot>>
  <2>1. PICK d : d = reader'[r]
    OBVIOUS
  <2>2. /\ d.pc \in {"reading", "cut"} /\ ~d.faulty
        /\ Published(d.manifest) /\ Unsurpassed(d.manifest)
    BY <1>2, <2>1 DEF Innocent, Published, Unsurpassed, writeVars
  <2>3. ReaderChange(r, reader[r], d)
    BY <1>0, <1>2, <2>1, ReadsChange
  <2>4. /\ d.pc = "reading"
        /\ \A c \in d.todo : \E n \in IF c = d.current THEN d.left ELSE chunkReplicas[c] :
             Protected(d.manifest, c, n)
    BY <1>0, <2>2, <2>3, ServedRead
  <2>5. \A c, n : Protected(d.manifest, c, n) => (Protected(reader[r].manifest, c, n))'
    BY <1>2, <2>1 DEF Protected, Fresh, Covered, writeVars
  <2>6. \A c : ToAsk(r, c)' = IF c = d.current THEN d.left ELSE chunkReplicas[c]
    BY <2>1 DEF ToAsk
  <2> QED
    BY <2>1, <2>4, <2>5, <2>6
<1> QED
  BY <1>0, <1>1, <1>2, ReaderStep

LEMMA CutStep == UploadsTimely /\ CutInv /\ [Next]_vars => CutInv'
<1> SUFFICES ASSUME UploadsTimely, CutInv, [Next]_vars PROVE CutInv'
  OBVIOUS
<1>1. GCInv' /\ TypeOK /\ BookInv
  BY GCStep DEF CutInv, GCInv, UploadInv, BookInv
<1>2. CASE Next
  BY <1>1, <1>2, NoneBadStep, DownloadsStep, ServedStep DEF CutInv
<1>3. CASE UNCHANGED vars
  <2>1. NoneBad' /\ Downloads'
    BY <1>3 DEF CutInv, NoneBad, Downloads, vars, writeVars
  <2>2. Served'
    BY <1>3 DEF CutInv, Served, Innocent, Published, Unsurpassed, ToAsk, Protected, Fresh,
                Covered, vars, writeVars
  <2> QED
    BY <1>1, <2>1, <2>2 DEF CutInv
<1> QED
  BY <1>2, <1>3

-----------------------------------------------------------------------------
(* Theorems *)

\* A write quorum and a read quorum of the same manifest have a replica in common.
LEMMA ManifestQuorumsMeet ==
    ASSUME NEW o \in Object,
           NEW A \in SUBSET metaReplicas[o], Cardinality(A) >= writeQuorum,
           NEW B \in SUBSET metaReplicas[o], Cardinality(B) >= readQuorum
    PROVE  \E n \in A : n \in B
<1> DEFINE R == metaReplicas[o]
<1>1. IsFiniteSet(R) /\ IsFiniteSet(A) /\ IsFiniteSet(B)
  BY PlacementAssumption, FS_Subset
<1>2. A \cup B \subseteq R
  OBVIOUS
<1>3. Cardinality(A \cup B) <= Cardinality(R)
  BY <1>1, <1>2, FS_Subset
<1>4. Cardinality(A \cup B) = Cardinality(A) + Cardinality(B) - Cardinality(A \cap B)
  BY <1>1, FS_Union
<1>5. /\ Cardinality(A) \in Nat /\ Cardinality(B) \in Nat
      /\ Cardinality(R) \in Nat /\ Cardinality(A \cup B) \in Nat
  BY <1>1, FS_CardinalityType, FS_Union
<1>6. writeQuorum + readQuorum > Cardinality(R) /\ writeQuorum \in Nat /\ readQuorum \in Nat
  BY QuorumAssumption
<1>7. ASSUME A \cap B = {} PROVE FALSE
  <2>1. Cardinality(A \cap B) = 0
    BY <1>7, FS_EmptySet
  <2> HIDE DEF R
  <2> QED
    BY <1>3, <1>4, <1>5, <1>6, <2>1
<1> QED
  BY <1>7

LEMMA GCInvReadable == GCInv => CommittedReadable
<1> SUFFICES ASSUME GCInv,
                    NEW o \in Object, NEW Q \in SUBSET metaReplicas[o], NEW w \in Puts,
                    Cardinality(Q) >= readQuorum, pc[w] = "ok", Visible(Q, o, w),
                    NEW c \in content[w]
             PROVE  Stored(c)
  BY DEF CommittedReadable
<1> USE DEF GCInv, UploadInv, BookInv
<1>1. w \in Write /\ version[w] > 0 /\ acks[w] \subseteq metaReplicas[object[w]]
      /\ Cardinality(acks[w]) >= writeQuorum
  BY DEF Phases
<1>2. PICK k \in Q : meta[k][o] = w
  BY DEF Visible
<1>3. object[w] = o
  <2>1. k \in Node /\ meta[k][o] # Nil
    BY <1>1, <1>2, PlacementAssumption, WriteAssumption
  <2> QED
    BY <1>2, <2>1 DEF Manifests
<1>4. PICK x \in acks[w] : x \in Q
  BY <1>1, <1>3, ManifestQuorumsMeet
<1>5. x \in Node
  BY PlacementAssumption, <1>4
<1>6. meta[x][o] \in Write /\ version[meta[x][o]] >= version[w]
  BY <1>1, <1>3, <1>4, <1>5 DEF Manifests, TypeOK
<1>7. version[meta[x][o]] <= version[w]
  BY <1>4, <1>6, WriteAssumption DEF Visible
<1>8. meta[x][o] = w
  <2>1. version[w] \in Nat /\ version[meta[x][o]] \in Nat
    BY <1>1, <1>6 DEF TypeOK
  <2>2. version[w] = version[meta[x][o]]
    BY <1>6, <1>7, <2>1
  <2> QED
    BY <1>1, <1>6, <2>2 DEF Versions
<1>9. meta[x][object[w]] = w
  BY <1>3, <1>8
<1>10. \A e \in content[w] : \E n \in chunkReplicas[e] :
         file[n][e].kind # "none" /\ Covered(x, e, n)
  BY <1>1, <1>4, <1>9 DEF Held
<1> QED
  BY <1>10 DEF Stored

LEMMA GCInvUploads == GCInv => UploadKept
BY DEF GCInv, UploadInv, Uploaded, UploadKept, Stored, Fresh

\* The state of ObjectGC has its type (object.Store, chunk.Store, RunGC).
THEOREM TypeCorrect == Spec => []TypeOK
<1>1. TypeOK /\ [Next]_vars => TypeOK'
  BY TypeStep
<1> QED
  BY TypeInit, <1>1, PTL DEF Spec

\* If no upload outlasts the grace period, by any two clocks, no collection removes a
\* chunk of an acknowledged object that a quorum read finds (RunGC, Sweep, Put).
THEOREM CollectionSafe == ASSUME UploadsTimely PROVE Spec => []CommittedReadable
<1>1. GCInv /\ [Next]_vars => GCInv'
  BY GCStep
<1> QED
  BY GCInit, GCInvReadable, <1>1, PTL DEF Spec

\* Under the same assumption no collection removes a chunk from under an upload that is
\* in progress (chunk.Store.Put, Sweep).
THEOREM UploadsSafe == ASSUME UploadsTimely PROVE Spec => []UploadKept
<1>1. GCInv /\ [Next]_vars => GCInv'
  BY GCStep
<1> QED
  BY GCInit, GCInvUploads, <1>1, PTL DEF Spec

\* Under the same assumption a download of the newest object is not cut short by
\* collections, writes and repairs: every chunk it has still to read keeps a file at a
\* replica it has still to ask (WriteTo, GetChunk, RunGC).
THEOREM DownloadsComplete == ASSUME UploadsTimely PROVE Spec => []CutReadsExplained
<1>1. CutInv /\ [Next]_vars => CutInv'
  BY CutStep
<1> QED
  BY CutInit, CutInvExplains, <1>1, PTL DEF Spec

=============================================================================
