----------------------------- MODULE MemoryStore -----------------------------
(***************************************************************************)
(* The durable key-value store of one node: the map in memory              *)
(* (internal/store/memory.go), its write-ahead log (wal.go) and its        *)
(* snapshot (snapshot.go), across crashes and failing disk operations.     *)
(*                                                                         *)
(* A call of Set or DeleteIfMatch writes the record's eight-byte header,   *)
(* writes its payload, syncs the file and only then changes the map.       *)
(* A snapshot is written to a temporary file, renamed over the old one and *)
(* followed by the truncation of the log.  A crash can fall between any    *)
(* two of these steps.  A crash of the process leaves the files as they    *)
(* are, with what was not synced; a crash of the machine leaves of what    *)
(* was not synced any part, in the order in which it was written.  A start *)
(* reads what it finds and syncs only what it writes itself, the header of *)
(* an empty log or the log that it truncates.                              *)
(*                                                                         *)
(* The log is a sequence of frames rather than bytes.  A frame is whole,   *)
(* or it is cut exactly behind its header ("bare"), or anywhere else       *)
(* ("partial"): io.ReadFull reports the first as io.EOF and the second as  *)
(* io.ErrUnexpectedEOF, and Replay treats these differently.  Logs of the  *)
(* old format without a file header are not modelled.                      *)
(***************************************************************************)
EXTENDS KVVersion, Sequences, SequencesExt

CONSTANTS
    Key,               \* keys
    Offered,           \* the values that Set is called with
    SnapshotThreshold, \* snapshotThreshold, in records
    MaxLog,            \* bound: records in the log
    MaxErrors,         \* bound: failing disk operations
    MaxCrashes         \* bound: crashes

ASSUME OfferedAssumption == Offered \subseteq Value

ASSUME BoundAssumption ==
    {SnapshotThreshold, MaxLog, MaxErrors, MaxCrashes} \subseteq Nat

VARIABLES
    status,            \* "down", "up" or "refused": whether OpenMemory succeeded
    data,              \* the map
    maxVersionCounter, \* the largest version counter seen
    file,              \* the log as a process sees it
    disk,              \* the logs that a crash of the machine may leave
    snapshot,          \* the snapshot file as a process sees it
    diskSnapshot,      \* the snapshot files that a crash of the machine may leave
    snapshotMu,        \* a snapshot is wanted or being taken
    pc,                \* the step of the call that holds the store's lock
    op,                \* the record that this call appends
    durable,           \* history: of each key, what the last call that appended and
                       \* succeeded left, or the last snapshot that was completed
    doubt,             \* history: records since then that were not acknowledged
    damaged,           \* history: a start dropped frames from an unreadable log,
                       \* and no snapshot has been completed since
    errors,            \* disk operations that failed
    crashes            \* crashes so far

memory == <<data, maxVersionCounter>>

logs == <<file, disk>>

snapshots == <<snapshot, diskSnapshot>>

history == <<durable, doubt, damaged>>

vars == <<status, memory, logs, snapshots, snapshotMu, pc, op, history, errors, crashes>>

\* kvWALEntry
Record == [Op : {"set"}, Key : Key, Value : Value]
             \cup [Op : {"delete"}, Key : Key, Version : Version]

\* No call is in progress while op is Nil.
ASSUME NoRecordAssumption == Nil \notin Record

Frame == [Record : Record, Form : {"whole", "bare", "partial"}]

\* The file header is there, is missing, or was cut short.
Log == [Header : {"empty", "torn", "ok"}, Frames : Seq(Frame)]

Map == [Key -> MaybeValue]

Snapshot == [Data : Map, MaxVersionCounter : Nat]

EmptyLog == [Header |-> "empty", Frames |-> <<>>]

NoSnapshot == [Data |-> [k \in Key |-> Nil], MaxVersionCounter |-> 0]

TypeOK ==
    /\ status \in {"down", "up", "refused"}
    /\ data \in Map
    /\ maxVersionCounter \in Nat
    /\ file \in disk /\ disk \subseteq Log
    /\ snapshot \in diskSnapshot /\ diskSnapshot \subseteq Snapshot
    /\ snapshotMu \in BOOLEAN
    /\ pc \in {"idle", "payload", "sync", "renamed", "saved", "truncated", "header"}
    /\ op \in Record \cup {Nil}
    /\ op # Nil <=> pc \in {"payload", "sync"}
    /\ durable \in Snapshot
    /\ doubt \subseteq Record
    /\ damaged \in BOOLEAN
    /\ errors \in 0 .. MaxErrors
    /\ crashes \in 0 .. MaxCrashes

\* The first start finds no file.
Init ==
    /\ status = "down"
    /\ data = NoSnapshot.Data
    /\ maxVersionCounter = 0
    /\ file = EmptyLog
    /\ disk = {EmptyLog}
    /\ snapshot = NoSnapshot
    /\ diskSnapshot = {NoSnapshot}
    /\ snapshotMu = FALSE
    /\ pc = "idle"
    /\ op = Nil
    /\ durable = NoSnapshot
    /\ doubt = {}
    /\ damaged = FALSE
    /\ errors = 0
    /\ crashes = 0

Raise(counter, v) == IF v.Version.Counter > counter THEN v.Version.Counter ELSE counter

-----------------------------------------------------------------------------
(* Set and DeleteIfMatch *)

\* A write to the log: until the next sync a crash of the machine may undo it.
Write(log) ==
    /\ file' = log
    /\ disk' = disk \cup {log}

\* A sync of the log: a crash of the machine leaves it as it is.
Sync ==
    /\ disk' = {file}
    /\ UNCHANGED file

\* The log with a frame for the record appended, and with its last frame replaced.
Appended(record, form) ==
    [file EXCEPT !.Frames = Append(@, [Record |-> record, Form |-> form])]

LastFrame(form) ==
    [file EXCEPT !.Frames = Append(Front(@), [Record |-> op, Form |-> form])]

\* writeRecord writes the header of the record, of which a crash of the machine may
\* leave a part.
BeginAppend(record) ==
    /\ status = "up"
    /\ pc = "idle"
    /\ Len(file.Frames) < MaxLog
    /\ file' = Appended(record, "bare")
    /\ disk' = disk \cup {Appended(record, form) : form \in {"bare", "partial"}}
    /\ pc' = "payload"
    /\ op' = record
    /\ UNCHANGED <<status, memory, snapshots, snapshotMu, history, errors, crashes>>

\* A value that is not newer than the current one is ignored: Set returns nil and
\* takes no step.
Set(k, v) ==
    /\ ~AtLeast(data[k], v)
    /\ BeginAppend([Op |-> "set", Key |-> k, Value |-> v])

DeleteIfMatch(k, v) ==
    /\ data[k] # Nil
    /\ CompareVersion(data[k].Version, v.Version) = 0
    /\ BeginAppend([Op |-> "delete", Key |-> k, Version |-> v.Version])

WritePayload ==
    /\ status = "up"
    /\ pc = "payload"
    /\ Write(LastFrame("whole"))
    /\ pc' = "sync"
    /\ UNCHANGED <<status, memory, snapshots, snapshotMu, op, history, errors, crashes>>

\* Faulty FinishAppend: the record stays pending.
FinishAppendPending ==
    /\ status = "up"
    /\ pc = "sync"
    /\ Sync
    /\ pc' = "idle"
    /\ UNCHANGED <<status, memory, snapshots, snapshotMu, op, history, errors, crashes>>

\* MaybeSnapshot asks for a snapshot when the log has grown enough; a caller that
\* finds one being taken does not wait for it.
WantsSnapshot == snapshotMu \/ Len(file.Frames) >= SnapshotThreshold

\* The record is durable: the map changes and the call succeeds.
FinishAppend ==
    /\ status = "up"
    /\ pc = "sync"
    /\ Sync
    /\ IF op.Op = "set"
       THEN /\ data' = [data EXCEPT ![op.Key] = op.Value]
            /\ maxVersionCounter' = Raise(maxVersionCounter, op.Value)
            /\ durable' = [Data |-> [durable.Data EXCEPT ![op.Key] = op.Value],
                           MaxVersionCounter |-> Raise(durable.MaxVersionCounter, op.Value)]
            /\ doubt' = {r \in doubt : r.Key # op.Key}
       ELSE /\ data' = [data EXCEPT ![op.Key] = Nil]
            /\ durable' = [durable EXCEPT !.Data[op.Key] = Nil]
            /\ UNCHANGED <<maxVersionCounter, doubt>>
    /\ snapshotMu' = WantsSnapshot
    /\ pc' = "idle"
    /\ op' = Nil
    /\ UNCHANGED <<status, snapshots, damaged, errors, crashes>>

\* A write or the sync fails: the call returns the error, the map is unchanged
\* and what was written of the frame stays in the file.
AppendError ==
    /\ status = "up"
    /\ pc \in {"payload", "sync"}
    /\ errors < MaxErrors
    /\ errors' = errors + 1
    /\ \/ UNCHANGED logs
       \/ pc = "payload" /\ Write([file EXCEPT !.Frames = Front(@)])
       \/ pc = "payload" /\ Write(LastFrame("partial"))
    /\ doubt' = doubt \cup {op}
    /\ pc' = "idle"
    /\ op' = Nil
    /\ UNCHANGED <<status, memory, snapshots, snapshotMu, durable, damaged, crashes>>

-----------------------------------------------------------------------------
(* Snapshots *)

\* SaveSnapshot is called.
SaveSnapshot ==
    /\ status = "up"
    /\ ~snapshotMu
    /\ snapshotMu' = TRUE
    /\ UNCHANGED <<status, memory, logs, snapshots, pc, op, history, errors, crashes>>

\* Faulty RenameSnapshot: the largest counter is not saved with the map.
RenameSnapshotNoCounter ==
    /\ status = "up"
    /\ snapshotMu
    /\ pc = "idle"
    /\ snapshot' = [Data |-> data, MaxVersionCounter |-> 0]
    /\ diskSnapshot' = diskSnapshot \cup {snapshot'}
    /\ pc' = "renamed"
    /\ UNCHANGED <<status, memory, logs, snapshotMu, op, history, errors, crashes>>

\* The state is copied, written to the temporary file, synced and renamed.
RenameSnapshot ==
    /\ status = "up"
    /\ snapshotMu
    /\ pc = "idle"
    /\ snapshot' = [Data |-> data, MaxVersionCounter |-> maxVersionCounter]
    /\ diskSnapshot' = diskSnapshot \cup {snapshot'}
    /\ pc' = "renamed"
    /\ UNCHANGED <<status, memory, logs, snapshotMu, op, history, errors, crashes>>

\* Faulty SyncDir: the directory is not synced.
SyncDirSkipped ==
    /\ status = "up"
    /\ pc = "renamed"
    /\ pc' = "saved"
    /\ UNCHANGED <<status, memory, logs, snapshots, snapshotMu, op, history, errors, crashes>>

\* syncDir makes the rename durable.
SyncDir ==
    /\ status = "up"
    /\ pc = "renamed"
    /\ diskSnapshot' = {snapshot}
    /\ pc' = "saved"
    /\ UNCHANGED <<status, memory, logs, snapshot, snapshotMu, op, history, errors, crashes>>

TruncateLog ==
    /\ status = "up"
    /\ pc = "saved"
    /\ Write(EmptyLog)
    /\ pc' = "truncated"
    /\ UNCHANGED <<status, memory, snapshots, snapshotMu, op, history, errors, crashes>>

\* The logs that a write of the file header can leave.
Headed(headers) == {[file EXCEPT !.Header = h] : h \in headers}

WriteHeader ==
    /\ status = "up"
    /\ pc = "truncated"
    /\ file' = [file EXCEPT !.Header = "ok"]
    /\ disk' = disk \cup Headed({"torn", "ok"})
    /\ pc' = "header"
    /\ UNCHANGED <<status, memory, snapshots, snapshotMu, op, history, errors, crashes>>

\* With the log synced, too, all that the map holds is durable.
FinishSnapshot ==
    /\ status = "up"
    /\ pc = "header"
    /\ Sync
    /\ pc' = "idle"
    /\ snapshotMu' = FALSE
    /\ durable' = [Data |-> data, MaxVersionCounter |-> maxVersionCounter]
    /\ doubt' = {}
    /\ damaged' = FALSE
    /\ UNCHANGED <<status, memory, snapshots, op, errors, crashes>>

\* Any step of the snapshot fails: it is given up there, and the error is logged.
\* A failing header write may have written a part of the header.
SnapshotError ==
    /\ status = "up"
    /\ snapshotMu
    /\ pc \in {"idle", "renamed", "saved", "truncated", "header"}
    /\ errors < MaxErrors
    /\ errors' = errors + 1
    /\ \/ UNCHANGED logs
       \/ pc = "truncated" /\ Write([file EXCEPT !.Header = "torn"])
    /\ pc' = "idle"
    /\ snapshotMu' = FALSE
    /\ UNCHANGED <<status, memory, snapshots, op, history, crashes>>

-----------------------------------------------------------------------------
(* Crashes *)

\* The records that may or may not have reached the log: the one being appended
\* and those that were not acknowledged.
InDoubt == doubt \cup ({op} \ {Nil})

\* What was in memory is lost.
Crash ==
    /\ crashes < MaxCrashes
    /\ crashes' = crashes + 1
    /\ status' = "down"
    /\ data' = NoSnapshot.Data
    /\ maxVersionCounter' = 0
    /\ snapshotMu' = FALSE
    /\ pc' = "idle"
    /\ op' = Nil
    /\ doubt' = InDoubt
    /\ UNCHANGED <<durable, errors>>

\* The process alone: the files stay as they are, synced or not.
ProcessCrash ==
    /\ status = "up"
    /\ Crash
    /\ \/ UNCHANGED logs
       \/ pc = "payload" /\ Write(LastFrame("partial"))
    /\ UNCHANGED <<snapshots, damaged>>

\* The machine, whether the process runs or not.
MachineCrash ==
    /\ Crash
    /\ file' \in disk
    /\ disk' = {file'}
    /\ snapshot' \in diskSnapshot
    /\ diskSnapshot' = {snapshot'}
    /\ UNCHANGED damaged

-----------------------------------------------------------------------------
(* Starts *)

\* What Replay does with one record.
Apply(s, record) ==
    IF record.Op = "set"
    THEN [Data |-> [s.Data EXCEPT ![record.Key] = record.Value],
          MaxVersionCounter |-> Raise(s.MaxVersionCounter, record.Value)]
    ELSE LET current == s.Data[record.Key]
         IN  IF current # Nil /\ CompareVersion(current.Version, record.Version) = 0
             THEN [s EXCEPT !.Data[record.Key] = Nil]
             ELSE s

\* The number of frames that Replay makes out.  Behind a file header that was cut
\* short it makes out none.
ValidFrames ==
    CHOOSE n \in 0 .. Len(file.Frames) :
        /\ file.Header # "ok" => n = 0
        /\ \A i \in 1 .. n : file.Frames[i].Form = "whole"
        /\ file.Header = "ok" /\ n < Len(file.Frames) => file.Frames[n + 1].Form # "whole"

\* The states that Replay passes through from s: after[i] behind the first i frames.
Replay(s, frames) ==
    LET after[i \in 0 .. Len(frames)] ==
            IF i = 0 THEN s ELSE Apply(after[i - 1], frames[i].Record)
    IN  after

\* The snapshot with the valid frames replayed on top of it.
Replayed == Replay(snapshot, file.Frames)[ValidFrames]

\* A log that Replay can make out: at most its last frame is cut.
Readable ==
    /\ file.Header = "ok" \/ file = EmptyLog
    /\ Len(file.Frames) <= ValidFrames + 1

\* The log that repairTail leaves: the valid frames.
Truncated == [Header |-> "ok", Frames |-> SubSeq(file.Frames, 1, ValidFrames)]

\* Replay meets something cut and truncates the log there, except behind a record
\* header: readRecord reports that as the end of the file.  With frames behind the
\* cut one the reader takes their bytes for the rest of it, and if they do not suffice
\* truncates them, too.
Repairs ==
    /\ file.Header # "empty"
    /\ file.Frames # Truncated.Frames
    /\ Readable => file.Frames[ValidFrames + 1].Form # "bare"

\* OpenMemory succeeds with what Replay made of the snapshot and the log.  If it has
\* changed the log it has synced it: OpenWAL behind the header that it wrote to an
\* empty log, repairTail behind the truncation.
Open(log) ==
    /\ status = "down"
    /\ status' = "up"
    /\ data' = Replayed.Data
    /\ maxVersionCounter' = Replayed.MaxVersionCounter
    /\ file' = log
    /\ disk' = IF log = file THEN disk ELSE {log}
    /\ UNCHANGED <<snapshots, snapshotMu, pc, op, durable, doubt, errors, crashes>>

Recover ==
    /\ Readable
    /\ Open(IF Repairs THEN Truncated ELSE [file EXCEPT !.Header = "ok"])
    /\ UNCHANGED damaged

\* Frames without any file header pass for the old format and are never valid.
RecoverTruncated ==
    /\ ~Readable
    /\ Repairs
    /\ Open(Truncated)
    /\ damaged' = TRUE

\* A crash while OpenWAL writes the header of an empty log.
CrashInOpen ==
    /\ status = "down"
    /\ file = EmptyLog
    /\ Crash
    /\ \E h \in {"torn", "ok"} :
          /\ file' = [file EXCEPT !.Header = h]
          /\ disk' = disk \cup Headed({"torn", h})
    /\ UNCHANGED <<snapshots, damaged>>

\* A crash between the truncation in repairTail and its sync.
CrashInRepair ==
    /\ status = "down"
    /\ Repairs
    /\ Crash
    /\ Write(Truncated)
    /\ damaged' = (damaged \/ ~Readable)
    /\ UNCHANGED snapshots

\* Otherwise the checksum fails and OpenMemory returns an error, as it does for a
\* log that is only a part of a file header.
Refuse ==
    /\ status = "down"
    /\ ~Readable
    /\ status' = "refused"
    /\ UNCHANGED <<memory, logs, snapshots, snapshotMu, pc, op, history, errors, crashes>>

-----------------------------------------------------------------------------

Next ==
    \/ \E k \in Key, v \in Offered : Set(k, v) \/ DeleteIfMatch(k, v)
    \/ WritePayload
    \/ FinishAppend
    \/ AppendError
    \/ SaveSnapshot
    \/ RenameSnapshot
    \/ SyncDir
    \/ TruncateLog
    \/ WriteHeader
    \/ FinishSnapshot
    \/ SnapshotError
    \/ ProcessCrash
    \/ MachineCrash
    \/ CrashInOpen
    \/ CrashInRepair
    \/ Recover
    \/ RecoverTruncated
    \/ Refuse

Spec == Init /\ [][Next]_vars

-----------------------------------------------------------------------------
(* Properties *)

\* A successful start: of each key the durable value, or what a record in doubt
\* makes of it.
StateKept ==
    status = "down" /\ status' = "up" =>
        \A k \in Key :
            \/ data'[k] = durable.Data[k]
            \/ \E r \in doubt :
                  r.Key = k /\ data'[k] = IF r.Op = "set" THEN r.Value ELSE Nil

\* OpenMemory: after any crashes of the process and of the machine, at any step of an
\* append, a snapshot, a truncation or a start, a start on a log that is whole up to
\* its last frame restores of each key what the last Set or DeleteIfMatch that
\* appended and was acknowledged left, or a record since then that was not.
RecoveryExact == [][Readable /\ ~damaged => StateKept]_vars

\* OpenMemory: the largest counter that was acknowledged survives every recovery, also
\* when the key that carried it was removed by DeleteIfMatch and the log truncated;
\* nextVersion starts above it.
MaxVersionKept ==
    [][Readable /\ ~damaged /\ status = "down" /\ status' = "up" =>
          maxVersionCounter' >= durable.MaxVersionCounter]_vars

\* Replay (wal.go: "hands every complete record to apply"; ARCHITECTURE.md:
\* "replay truncates a torn tail"): no successful start forgets an acknowledged
\* call, however often the node crashed before.
AckedSurvive == [][StateKept]_vars

=============================================================================
