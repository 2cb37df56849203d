-------------------------- MODULE MemoryStoreProofs --------------------------
(***************************************************************************)
(* Proofs about MemoryStore, for any keys, values, thresholds, errors and  *)
(* crashes.                                                                *)
(*                                                                         *)
(* Replay is a recursive function: ReplayDef shows that its definition has *)
(* a solution.  What the frames replayed do to one key is one of two       *)
(* things, whatever they started from (ReplayKey): they fix its value, or  *)
(* they remove it if its version is one of those they name.  So a log can  *)
(* be replayed twice, as after a crash between a new snapshot and the      *)
(* truncation of the log (ReplayTwice).                                    *)
(*                                                                         *)
(* The invariant (RestoreInv) then says of every log that a crash might    *)
(* leave, synced or not, that on each of the snapshots that a crash might  *)
(* leave the result is what was acknowledged, up to the records in doubt   *)
(* (LogsRestore).  So that it survives the next snapshot, the state of the *)
(* process restores it as well (CurrentRestores), and replaying the log on *)
(* that state or on any of the snapshots makes the same of it              *)
(* (FileRepeats, BasesAgree).  A step that changes the log leaves only     *)
(* logs of which no more can remain than of one that was there before      *)
(* (Covers), the last record of a call excepted: it is in doubt until the  *)
(* call succeeds, and then fixes or removes its key (KeyAcked).            *)
(***************************************************************************)
EXTENDS MemoryStore, SequenceTheorems, NaturalFacts

-----------------------------------------------------------------------------
(* Replay *)

LEMMA FrameIn ==
    ASSUME NEW frames \in Seq(Frame), NEW i \in 1 .. Len(frames)
    PROVE  /\ frames[i] \in Frame
           /\ frames[i].Record \in Record
           /\ frames[i].Form \in {"whole", "bare", "partial"}
<1>1. frames[i] \in Frame
  BY ElementOfSeq
<1> QED
  BY <1>1 DEF Frame

\* The recursive definition of Replay has a solution.
LEMMA ReplayDef ==
    ASSUME NEW s, NEW frames \in Seq(Frame)
    PROVE  Replay(s, frames) =
             [i \in 0 .. Len(frames) |->
                IF i = 0 THEN s ELSE Apply(Replay(s, frames)[i - 1], frames[i].Record)]
<1> DEFINE Solution(g, n) ==
             g = [i \in 0 .. n |-> IF i = 0 THEN s ELSE Apply(g[i - 1], frames[i].Record)]
           S == {n \in Nat : \E g : Solution(g, n)}
<1>1. 0 \in S
  <2>1. Solution([i \in 0 .. 0 |-> s], 0)
    OBVIOUS
  <2> QED
    BY <2>1
<1>2. ASSUME NEW n \in Nat, n \in S
      PROVE  n + 1 \in S
  <2>1. PICK g : Solution(g, n)
    BY <1>2
  <2> DEFINE h == [i \in 0 .. n + 1 |->
                     IF i = n + 1 THEN Apply(g[n], frames[n + 1].Record) ELSE g[i]]
             Next1(i) == IF i = 0 THEN s ELSE Apply(h[i - 1], frames[i].Record)
  <2>2. ASSUME NEW i \in 0 .. n + 1
        PROVE  h[i] = Next1(i)
    <3>1. CASE i = n + 1
      <4>1. h[i] = Apply(g[n], frames[n + 1].Record)
        BY <3>1
      <4>2. h[n] = g[n]
        OBVIOUS
      <4>3. i # 0 /\ i - 1 = n
        BY <3>1
      <4> QED
        BY <3>1, <4>1, <4>2, <4>3
    <3>2. CASE i # n + 1 /\ i # 0
      <4>1. i \in 0 .. n /\ i - 1 \in 0 .. n /\ i - 1 # n + 1
        BY <3>2
      <4>2. h[i] = g[i] /\ h[i - 1] = g[i - 1]
        BY <3>2, <4>1
      <4>3. g[i] = Apply(g[i - 1], frames[i].Record)
        BY <2>1, <3>2, <4>1
      <4> QED
        BY <3>2, <4>2, <4>3
    <3>3. CASE i = 0
      BY <2>1, <3>3
    <3> QED
      BY <3>1, <3>2, <3>3
  <2>3. Solution(h, n + 1)
    <3>1. h = [i \in 0 .. n + 1 |-> h[i]]
      OBVIOUS
    <3> HIDE DEF h
    <3> QED
      BY <2>2, <3>1
  <2>4. \E f : Solution(f, n + 1)
    <3> HIDE DEF Solution, h
    <3> QED
      BY <2>3
  <2> HIDE DEF Solution
  <2> QED
    BY <2>4
<1>3. Len(frames) \in S
  <2> HIDE DEF S
  <2> QED
    BY <1>1, <1>2, InductiveSet
<1>4. PICK g : Solution(g, Len(frames))
  BY <1>3
<1> QED
  BY <1>4 DEF Replay

LEMMA ReplaySteps ==
    ASSUME NEW s, NEW frames \in Seq(Frame)
    PROVE  /\ Replay(s, frames)[0] = s
           /\ \A i \in 1 .. Len(frames) :
                Replay(s, frames)[i] = Apply(Replay(s, frames)[i - 1], frames[i].Record)
BY ReplayDef

LEMMA ApplyKey ==
    ASSUME NEW s \in Snapshot, NEW r \in Record
    PROVE  /\ Apply(s, r) \in Snapshot
           /\ \A k \in Key \ {r.Key} : Apply(s, r).Data[k] = s.Data[k]
           /\ r.Op = "set" => Apply(s, r).Data[r.Key] = r.Value
           /\ r.Op # "set" =>
                Apply(s, r).Data[r.Key] =
                  IF s.Data[r.Key] # Nil /\ CompareVersion(s.Data[r.Key].Version, r.Version) = 0
                  THEN Nil ELSE s.Data[r.Key]
           /\ Apply(s, r).MaxVersionCounter =
                IF r.Op = "set" THEN Raise(s.MaxVersionCounter, r.Value) ELSE s.MaxVersionCounter
           /\ Apply(s, r).MaxVersionCounter >= s.MaxVersionCounter
<1>0. r.Key \in Key
  BY DEF Record
<1>t. s.Data \in [Key -> MaybeValue] /\ s.MaxVersionCounter \in Nat
  BY DEF Snapshot, Map
<1>1. CASE r.Op = "set"
  <2>1. r.Value \in Value
    BY <1>1 DEF Record
  <2>2. r.Value.Version.Counter \in Nat
    BY <2>1 DEF Value, Version
  <2>3. /\ Raise(s.MaxVersionCounter, r.Value) \in Nat
        /\ Raise(s.MaxVersionCounter, r.Value) >= s.MaxVersionCounter
    BY <1>t, <2>2 DEF Raise
  <2> DEFINE d == [s.Data EXCEPT ![r.Key] = r.Value]
  <2>4. Apply(s, r) = [Data |-> d,
                       MaxVersionCounter |-> Raise(s.MaxVersionCounter, r.Value)]
    BY <1>1 DEF Apply
  <2>5. /\ d \in Map
        /\ d[r.Key] = r.Value
        /\ \A k \in Key \ {r.Key} : d[k] = s.Data[k]
    BY <1>0, <1>t, <2>1 DEF Map, MaybeValue
  <2> HIDE DEF d
  <2> QED
    BY <1>1, <2>3, <2>4, <2>5 DEF Snapshot
<1>2. CASE r.Op # "set"
  <2> DEFINE hit == s.Data[r.Key] # Nil
                      /\ CompareVersion(s.Data[r.Key].Version, r.Version) = 0
             d == [s.Data EXCEPT ![r.Key] = Nil]
  <2>1. CASE hit
    <3>1. Apply(s, r) = [s EXCEPT !.Data = d]
      BY <1>2, <2>1 DEF Apply
    <3>2. /\ d \in Map
          /\ d[r.Key] = Nil
          /\ \A k \in Key \ {r.Key} : d[k] = s.Data[k]
      BY <1>0, <1>t DEF Map, MaybeValue
    <3>3. [s EXCEPT !.Data = d] = [Data |-> d, MaxVersionCounter |-> s.MaxVersionCounter]
      BY DEF Snapshot
    <3> HIDE DEF d
    <3> QED
      BY <1>2, <1>t, <2>1, <3>1, <3>2, <3>3 DEF Snapshot
  <2>2. CASE ~hit
    <3>1. Apply(s, r) = s
      BY <1>2, <2>2 DEF Apply
    <3> QED
      BY <1>2, <1>t, <2>2, <3>1
  <2> QED
    BY <2>1, <2>2
<1> QED
  BY <1>1, <1>2

\* What replay makes of a snapshot is a snapshot, and its counter is as large.
LEMMA ReplayType ==
    ASSUME NEW s \in Snapshot, NEW frames \in Seq(Frame)
    PROVE  \A n \in 0 .. Len(frames) :
              /\ Replay(s, frames)[n] \in Snapshot
              /\ Replay(s, frames)[n].MaxVersionCounter >= s.MaxVersionCounter
<1> DEFINE S == {n \in Nat : n <= Len(frames) =>
                    /\ Replay(s, frames)[n] \in Snapshot
                    /\ Replay(s, frames)[n].MaxVersionCounter >= s.MaxVersionCounter}
<1>1. 0 \in S
  BY ReplaySteps DEF Snapshot
<1>2. ASSUME NEW n \in Nat, n \in S
      PROVE  n + 1 \in S
  <2> SUFFICES ASSUME n + 1 <= Len(frames)
               PROVE  /\ Replay(s, frames)[n + 1] \in Snapshot
                      /\ Replay(s, frames)[n + 1].MaxVersionCounter >= s.MaxVersionCounter
    OBVIOUS
  <2>1. n + 1 \in 1 .. Len(frames) /\ n <= Len(frames) /\ (n + 1) - 1 = n
    OBVIOUS
  <2>2. Replay(s, frames)[n + 1] = Apply(Replay(s, frames)[n], frames[n + 1].Record)
    BY <2>1, ReplaySteps
  <2>3. frames[n + 1].Record \in Record
    BY <2>1, FrameIn
  <2>4. /\ Replay(s, frames)[n] \in Snapshot
        /\ Replay(s, frames)[n].MaxVersionCounter >= s.MaxVersionCounter
    BY <1>2, <2>1
  <2> DEFINE t == Replay(s, frames)[n]
             u == Replay(s, frames)[n + 1]
  <2>5. u \in Snapshot /\ u.MaxVersionCounter >= t.MaxVersionCounter
    BY <2>2, <2>3, <2>4, ApplyKey
  <2>6. s.MaxVersionCounter \in Nat /\ t.MaxVersionCounter \in Nat /\ u.MaxVersionCounter \in Nat
    BY <2>4, <2>5 DEF Snapshot
  <2> QED
    BY <2>4, <2>5, <2>6
<1> HIDE DEF S
<1>3. \A n \in Nat : n \in S
  BY <1>1, <1>2, InductiveSet
<1> QED
  BY <1>3 DEF S

\* Replay of the first n frames depends on the first n records only.
LEMMA ReplayAgrees ==
    ASSUME NEW s, NEW p \in Seq(Frame), NEW q \in Seq(Frame),
           NEW n \in 0 .. Len(p), n <= Len(q),
           \A i \in 1 .. n : p[i].Record = q[i].Record
    PROVE  Replay(s, p)[n] = Replay(s, q)[n]
<1> DEFINE S == {i \in Nat : i <= n => Replay(s, p)[i] = Replay(s, q)[i]}
<1>1. 0 \in S
  BY ReplaySteps
<1>2. ASSUME NEW i \in Nat, i \in S
      PROVE  i + 1 \in S
  <2> SUFFICES ASSUME i + 1 <= n
               PROVE  Replay(s, p)[i + 1] = Replay(s, q)[i + 1]
    OBVIOUS
  <2>1. i + 1 \in 1 .. Len(p) /\ i + 1 \in 1 .. Len(q) /\ (i + 1) - 1 = i /\ i <= n
    OBVIOUS
  <2>2. Replay(s, p)[i + 1] = Apply(Replay(s, p)[i], p[i + 1].Record)
    BY <2>1, ReplaySteps
  <2>3. Replay(s, q)[i + 1] = Apply(Replay(s, q)[i], q[i + 1].Record)
    BY <2>1, ReplaySteps
  <2>4. Replay(s, p)[i] = Replay(s, q)[i] /\ p[i + 1].Record = q[i + 1].Record
    BY <1>2, <2>1
  <2> QED
    BY <2>2, <2>3, <2>4
<1> HIDE DEF S
<1>3. \A i \in Nat : i \in S
  BY <1>1, <1>2, InductiveSet
<1> QED
  BY <1>3 DEF S

\* Of a key, the frames replayed so far have fixed the value, whatever it was
\* before, or they have removed it if it had one of certain versions.
KeyFixed(frames, n, k) ==
    \E c : \A s \in Snapshot : Replay(s, frames)[n].Data[k] = c

Hits(D, v) == v # Nil /\ \E d \in D : CompareVersion(v.Version, d) = 0

KeyRemoved(frames, n, k) ==
    \E D \in SUBSET Version : \A s \in Snapshot :
        Replay(s, frames)[n].Data[k] = IF Hits(D, s.Data[k]) THEN Nil ELSE s.Data[k]

LEMMA ReplayKey ==
    ASSUME NEW frames \in Seq(Frame), NEW k \in Key
    PROVE  \A n \in 0 .. Len(frames) : KeyFixed(frames, n, k) \/ KeyRemoved(frames, n, k)
<1> DEFINE S == {n \in Nat : n <= Len(frames) =>
                    KeyFixed(frames, n, k) \/ KeyRemoved(frames, n, k)}
<1>1. 0 \in S
  <2>1. \A s \in Snapshot :
           Replay(s, frames)[0].Data[k] = IF Hits({}, s.Data[k]) THEN Nil ELSE s.Data[k]
    BY ReplaySteps DEF Hits
  <2>2. KeyRemoved(frames, 0, k)
    <3> DEFINE D == {}
    <3>1. D \in SUBSET Version
      OBVIOUS
    <3>2. \A s \in Snapshot :
             Replay(s, frames)[0].Data[k] = IF Hits(D, s.Data[k]) THEN Nil ELSE s.Data[k]
      BY <2>1
    <3> HIDE DEF D
    <3> QED
      BY <3>1, <3>2 DEF KeyRemoved
  <2> QED
    BY <2>2
<1>2. ASSUME NEW n \in Nat, n \in S
      PROVE  n + 1 \in S
  <2> SUFFICES ASSUME n + 1 <= Len(frames)
               PROVE  KeyFixed(frames, n + 1, k) \/ KeyRemoved(frames, n + 1, k)
    OBVIOUS
  <2> DEFINE r == frames[n + 1].Record
             Before(s) == Replay(s, frames)[n]
             After(s) == Replay(s, frames)[n + 1]
  <2>1. n + 1 \in 1 .. Len(frames) /\ n \in 0 .. Len(frames) /\ (n + 1) - 1 = n
    OBVIOUS
  <2>2. r \in Record
    BY <2>1, FrameIn
  <2>3. \A s \in Snapshot : After(s) = Apply(Before(s), r) /\ Before(s) \in Snapshot
    BY <2>1, ReplaySteps, ReplayType
  <2>4. KeyFixed(frames, n, k) \/ KeyRemoved(frames, n, k)
    BY <1>2, <2>1
  <2> HIDE DEF r, Before, After
  <2>5. CASE r.Key # k
    <3>1. \A s \in Snapshot : After(s).Data[k] = Before(s).Data[k]
      BY <2>2, <2>3, <2>5, ApplyKey
    <3> USE DEF Before, After
    <3>2. CASE KeyFixed(frames, n, k)
      BY <3>1, <3>2 DEF KeyFixed
    <3>3. CASE KeyRemoved(frames, n, k)
      <4>1. PICK D \in SUBSET Version : \A s \in Snapshot :
               Before(s).Data[k] = IF Hits(D, s.Data[k]) THEN Nil ELSE s.Data[k]
        BY <3>3 DEF KeyRemoved
      <4>2. \A s \in Snapshot :
               After(s).Data[k] = IF Hits(D, s.Data[k]) THEN Nil ELSE s.Data[k]
        BY <3>1, <4>1
      <4> QED
        BY <4>2 DEF KeyRemoved
    <3> QED
      BY <2>4, <3>2, <3>3
  <2>6. CASE r.Key = k /\ r.Op = "set"
    <3>1. \A s \in Snapshot : After(s).Data[k] = r.Value
      BY <2>2, <2>3, <2>6, ApplyKey
    <3> QED
      BY <3>1 DEF KeyFixed, After
  <2>7. CASE r.Key = k /\ r.Op # "set"
    <3> DEFINE Hit(v) == v # Nil /\ CompareVersion(v.Version, r.Version) = 0
    <3>1. \A s \in Snapshot :
             After(s).Data[k] = IF Hit(Before(s).Data[k]) THEN Nil ELSE Before(s).Data[k]
      BY <2>2, <2>3, <2>7, ApplyKey
    <3>2. CASE KeyFixed(frames, n, k)
      <4>1. PICK c : \A s \in Snapshot : Before(s).Data[k] = c
        BY <3>2 DEF KeyFixed, Before
      <4> DEFINE d == IF Hit(c) THEN Nil ELSE c
      <4>2. \A s \in Snapshot : After(s).Data[k] = d
        BY <3>1, <4>1
      <4> HIDE DEF d
      <4> QED
        BY <4>2 DEF KeyFixed, After
    <3>3. CASE KeyRemoved(frames, n, k)
      <4>1. PICK D \in SUBSET Version : \A s \in Snapshot :
               Before(s).Data[k] = IF Hits(D, s.Data[k]) THEN Nil ELSE s.Data[k]
        BY <3>3 DEF KeyRemoved, Before
      <4> DEFINE E == D \cup {r.Version}
      <4>2. E \in SUBSET Version
        BY <2>2, <2>7 DEF Record
      <4>3. \A v : Hits(E, v) <=> Hits(D, v) \/ Hit(v)
        BY DEF Hits
      <4>4. \A s \in Snapshot :
               After(s).Data[k] = IF Hits(E, s.Data[k]) THEN Nil ELSE s.Data[k]
        <5> SUFFICES ASSUME NEW s \in Snapshot
                     PROVE  After(s).Data[k] = IF Hits(E, s.Data[k]) THEN Nil ELSE s.Data[k]
          OBVIOUS
        <5>1. Before(s).Data[k] = IF Hits(D, s.Data[k]) THEN Nil ELSE s.Data[k]
          BY <4>1
        <5>2. ~Hit(Nil)
          OBVIOUS
        <5> HIDE DEF Hit, E
        <5> QED
          BY <3>1, <4>3, <5>1, <5>2
      <4> HIDE DEF E
      <4> QED
        BY <4>2, <4>4 DEF KeyRemoved, After
    <3> QED
      BY <2>4, <3>2, <3>3
  <2>8. r.Op = "set" \/ r.Op # "set"
    OBVIOUS
  <2> QED
    BY <2>5, <2>6, <2>7
<1> HIDE DEF S
<1>3. \A n \in Nat : n \in S
  BY <1>1, <1>2, InductiveSet
<1> QED
  BY <1>3 DEF S

\* Replay changes a key in a way that depends only on that key.
LEMMA ReplayLocal ==
    ASSUME NEW frames \in Seq(Frame), NEW n \in 0 .. Len(frames), NEW k \in Key,
           NEW s \in Snapshot, NEW t \in Snapshot, s.Data[k] = t.Data[k]
    PROVE  Replay(s, frames)[n].Data[k] = Replay(t, frames)[n].Data[k]
<1>1. CASE KeyFixed(frames, n, k)
  BY <1>1 DEF KeyFixed
<1>2. CASE KeyRemoved(frames, n, k)
  BY <1>2 DEF KeyRemoved
<1> QED
  BY <1>1, <1>2, ReplayKey

\* Replaying the same frames a second time changes no key.
LEMMA ReplayTwice ==
    ASSUME NEW frames \in Seq(Frame), NEW n \in 0 .. Len(frames), NEW k \in Key,
           NEW s \in Snapshot
    PROVE  Replay(Replay(s, frames)[n], frames)[n].Data[k] = Replay(s, frames)[n].Data[k]
<1> DEFINE t == Replay(s, frames)[n]
<1>1. t \in Snapshot
  BY ReplayType
<1>2. CASE KeyFixed(frames, n, k)
  BY <1>1, <1>2 DEF KeyFixed
<1>3. CASE KeyRemoved(frames, n, k)
  <2>1. PICK D \in SUBSET Version : \A u \in Snapshot :
           Replay(u, frames)[n].Data[k] = IF Hits(D, u.Data[k]) THEN Nil ELSE u.Data[k]
    BY <1>3 DEF KeyRemoved
  <2>2. t.Data[k] = IF Hits(D, s.Data[k]) THEN Nil ELSE s.Data[k]
    BY <2>1
  <2>3. Replay(t, frames)[n].Data[k] = IF Hits(D, t.Data[k]) THEN Nil ELSE t.Data[k]
    BY <1>1, <2>1
  <2> HIDE DEF t
  <2>4. Replay(t, frames)[n].Data[k] = t.Data[k]
    BY <2>2, <2>3
  <2> QED
    BY <2>4 DEF t
<1> QED
  BY <1>2, <1>3, ReplayKey

\* On a map without the key, replay leaves the key out or gives it the value that it
\* gives it on every other map.
LEMMA ReplayOnNil ==
    ASSUME NEW frames \in Seq(Frame), NEW n \in 0 .. Len(frames), NEW k \in Key,
           NEW s \in Snapshot, NEW t \in Snapshot, t.Data[k] = Nil
    PROVE  Replay(t, frames)[n].Data[k] \in {Nil, Replay(s, frames)[n].Data[k]}
<1>1. CASE KeyFixed(frames, n, k)
  BY <1>1 DEF KeyFixed
<1>2. CASE KeyRemoved(frames, n, k)
  BY <1>2 DEF KeyRemoved, Hits
<1> QED
  BY <1>1, <1>2, ReplayKey

-----------------------------------------------------------------------------
(* Type correctness *)

USE DEF memory, logs, snapshots, history

\* While a call holds the lock, its frame is the last one of the log, the log without
\* it is one that a crash may leave, and what DeleteIfMatch has compared stays as it
\* was.
CallHeld ==
    /\ status # "up" => op = Nil
    /\ op # Nil => file.Frames # <<>>
    /\ pc = "payload" => /\ file.Frames[Len(file.Frames)].Form # "whole"
                         /\ [file EXCEPT !.Frames = Front(@)] \in disk
    /\ pc = "sync" => file.Frames[Len(file.Frames)] = [Record |-> op, Form |-> "whole"]
    /\ op # Nil /\ op.Op = "delete" =>
         /\ data[op.Key] # Nil
         /\ CompareVersion(data[op.Key].Version, op.Version) = 0

TypeInv == TypeOK /\ CallHeld

LEMMA PrefixOf ==
    ASSUME NEW q \in Seq(Frame), NEW n \in 0 .. Len(q)
    PROVE  /\ SubSeq(q, 1, n) \in Seq(Frame)
           /\ Len(SubSeq(q, 1, n)) = n
           /\ \A i \in 1 .. n : SubSeq(q, 1, n)[i] = q[i]
BY ElementOfSeq, SubSeqProperties

LEMMA FrontOf ==
    ASSUME NEW q \in Seq(Frame), q # <<>>
    PROVE  /\ Len(q) \in Nat \ {0}
           /\ Front(q) \in Seq(Frame)
           /\ Len(Front(q)) = Len(q) - 1
           /\ \A i \in 1 .. Len(q) - 1 : Front(q)[i] = q[i]
<1>1. Len(q) \in Nat \ {0}
  BY EmptySeq
<1>2. Len(q) - 1 \in 0 .. Len(q)
  BY <1>1
<1> QED
  BY <1>1, <1>2, PrefixOf DEF Front

\* The last frame of a log replaced.
LEMMA LastReplaced ==
    ASSUME NEW q \in Seq(Frame), q # <<>>, NEW f \in Frame,
           NEW p \in Seq(Frame), Len(p) = Len(q) - 1,
           \A i \in 1 .. Len(q) - 1 : p[i] = q[i]
    PROVE  /\ Append(p, f) \in Seq(Frame) /\ Append(p, f) # <<>>
           /\ Len(Append(p, f)) = Len(q)
           /\ Append(p, f)[Len(q)] = f
           /\ \A i \in 1 .. Len(q) - 1 : Append(p, f)[i] = q[i]
<1> DEFINE a == Append(p, f)
<1>1. /\ Len(q) \in Nat \ {0}
      /\ a \in Seq(Frame)
      /\ Len(a) = Len(q)
      /\ a[Len(q)] = f
      /\ \A i \in 1 .. Len(q) - 1 : a[i] = q[i]
  OBVIOUS
<1> HIDE DEF a
<1>2. a # <<>>
  BY <1>1
<1> QED
  BY <1>1, <1>2 DEF a

LEMMA LogOf ==
    ASSUME NEW log \in Log
    PROVE  /\ log.Frames \in Seq(Frame)
           /\ Len(log.Frames) \in Nat
           /\ log.Header \in {"empty", "torn", "ok"}
           /\ \A q \in Seq(Frame) :
                /\ [log EXCEPT !.Frames = q] \in Log
                /\ [log EXCEPT !.Frames = q].Header = log.Header
                /\ [log EXCEPT !.Frames = q].Frames = q
           /\ \A h \in {"empty", "torn", "ok"} :
                /\ [log EXCEPT !.Header = h] \in Log
                /\ [log EXCEPT !.Header = h].Header = h
                /\ [log EXCEPT !.Header = h].Frames = log.Frames
BY DEF Log

\* A frame behind the log.
LEMMA AppendedOf ==
    ASSUME file \in Log, NEW record \in Record, NEW form \in {"whole", "bare", "partial"}
    PROVE  LET log == Appended(record, form)
               l == Len(file.Frames)
           IN  /\ log \in Log
               /\ log.Header = file.Header
               /\ log.Frames # <<>>
               /\ Len(log.Frames) = l + 1
               /\ \A i \in 1 .. l : log.Frames[i] = file.Frames[i]
               /\ log.Frames[l + 1] = [Record |-> record, Form |-> form]
               /\ [log EXCEPT !.Frames = Front(@)] = file
<1> DEFINE f == [Record |-> record, Form |-> form]
           p == file.Frames
           q == Append(p, f)
           log == Appended(record, form)
<1>1. p \in Seq(Frame) /\ Len(p) \in Nat /\ f \in Frame
  BY LogOf DEF Frame
<1>2. /\ q \in Seq(Frame) /\ Len(q) = Len(p) + 1 /\ q # <<>>
      /\ \A i \in 1 .. Len(p) : q[i] = p[i]
      /\ q[Len(p) + 1] = f
  BY <1>1
<1>3. Front(q) = p
  <2> HIDE DEF q, p, f
  <2>1. Len(q) \in Nat \ {0} /\ Len(q) - 1 = Len(p)
    BY <1>1, <1>2
  <2>2. /\ Front(q) \in Seq(Frame) /\ Len(Front(q)) = Len(p)
        /\ \A i \in 1 .. Len(p) : Front(q)[i] = q[i]
    BY <1>2, <2>1, FrontOf
  <2> QED
    BY <1>1, <1>2, <2>2, SeqEqual
<1>4. log = [file EXCEPT !.Frames = q]
  BY DEF Appended
<1> HIDE DEF q
<1>5. log \in Log /\ log.Header = file.Header /\ log.Frames = q
  BY <1>2, <1>4 DEF Log
<1>6. [log EXCEPT !.Frames = Front(@)] = file
  <2>1. log = [Header |-> file.Header, Frames |-> q]
    BY <1>4 DEF Log
  <2>2. [log EXCEPT !.Frames = Front(@)] = [Header |-> file.Header, Frames |-> Front(q)]
    BY <2>1
  <2> QED
    BY <1>3, <2>2 DEF Log
<1> HIDE DEF log
<1> QED
  BY <1>2, <1>5, <1>6 DEF log

\* The last frame of the log replaced.
LEMMA LastFrameOf ==
    ASSUME file \in Log, file.Frames # <<>>, op \in Record,
           NEW form \in {"whole", "bare", "partial"}
    PROVE  LET log == LastFrame(form)
               l == Len(file.Frames)
           IN  /\ log \in Log
               /\ log.Header = file.Header
               /\ log.Frames # <<>>
               /\ Len(log.Frames) = l
               /\ \A i \in 1 .. l - 1 : log.Frames[i] = file.Frames[i]
               /\ log.Frames[l] = [Record |-> op, Form |-> form]
<1> DEFINE f == [Record |-> op, Form |-> form]
           p == Front(file.Frames)
           q == Append(p, f)
           log == LastFrame(form)
<1>1. file.Frames \in Seq(Frame) /\ f \in Frame
  BY LogOf DEF Frame
<1>2. /\ p \in Seq(Frame) /\ Len(p) = Len(file.Frames) - 1
      /\ \A i \in 1 .. Len(file.Frames) - 1 : p[i] = file.Frames[i]
  BY <1>1, FrontOf
<1> HIDE DEF p, f
<1>3. /\ q \in Seq(Frame) /\ q # <<>> /\ Len(q) = Len(file.Frames)
      /\ q[Len(file.Frames)] = f
      /\ \A i \in 1 .. Len(file.Frames) - 1 : q[i] = file.Frames[i]
  BY <1>1, <1>2, LastReplaced
<1>4. log = [file EXCEPT !.Frames = q]
  BY DEF LastFrame, p, f
<1> HIDE DEF q
<1>5. log \in Log /\ log.Header = file.Header /\ log.Frames = q
  BY <1>3, <1>4 DEF Log
<1> HIDE DEF log
<1> QED
  BY <1>3, <1>5 DEF log, f

\* The last frame of the log taken away.
LEMMA FrontLogOf ==
    ASSUME file \in Log, file.Frames # <<>>
    PROVE  LET log == [file EXCEPT !.Frames = Front(@)]
               l == Len(file.Frames)
           IN  /\ log \in Log
               /\ log.Header = file.Header
               /\ Len(log.Frames) = l - 1
               /\ \A i \in 1 .. l - 1 : log.Frames[i] = file.Frames[i]
<1> DEFINE p == Front(file.Frames)
           log == [file EXCEPT !.Frames = p]
<1>1. /\ p \in Seq(Frame) /\ Len(p) = Len(file.Frames) - 1
      /\ \A i \in 1 .. Len(file.Frames) - 1 : p[i] = file.Frames[i]
  <2>1. file.Frames \in Seq(Frame)
    BY LogOf
  <2> QED
    BY <2>1, FrontOf
<1> HIDE DEF p
<1>2. log \in Log /\ log.Header = file.Header /\ log.Frames = p
  BY <1>1 DEF Log
<1> QED
  BY <1>1, <1>2 DEF p

LEMMA ValidFramesOf ==
    ASSUME file \in Log
    PROVE  /\ ValidFrames \in 0 .. Len(file.Frames)
           /\ file.Header # "ok" => ValidFrames = 0
           /\ \A i \in 1 .. ValidFrames : file.Frames[i].Form = "whole"
           /\ file.Header = "ok" /\ ValidFrames < Len(file.Frames) =>
                file.Frames[ValidFrames + 1].Form # "whole"
<1> DEFINE frames == file.Frames
           Valid(n) ==
             /\ file.Header # "ok" => n = 0
             /\ \A i \in 1 .. n : file.Frames[i].Form = "whole"
             /\ file.Header = "ok" /\ n < Len(file.Frames) =>
                  file.Frames[n + 1].Form # "whole"
<1>0. frames \in Seq(Frame)
  BY DEF Log
<1>1. \E n \in 0 .. Len(frames) : Valid(n)
  <2>1. CASE file.Header # "ok"
    <3>1. 0 \in 0 .. Len(frames) /\ Valid(0)
      BY <1>0, <2>1
    <3> QED
      BY <3>1
  <2>2. CASE file.Header = "ok"
    <3> DEFINE S == {n \in Nat : n = Len(frames) \/ frames[n + 1].Form # "whole"}
    <3>1. Len(frames) \in S
      BY <1>0
    <3>2. PICK n \in S : \A x \in S : n <= x
      <4>1. S \subseteq Nat /\ S # {}
        BY <3>1
      <4> HIDE DEF S
      <4> QED
        BY <4>1, LeastNatural
    <3>3. n \in 0 .. Len(frames)
      BY <1>0, <3>1, <3>2
    <3>4. ASSUME NEW i \in 1 .. n
          PROVE  frames[i].Form = "whole"
      <4>1. i - 1 \in Nat /\ i - 1 < n /\ (i - 1) + 1 = i
        BY <3>3
      <4>2. i - 1 \notin S
        BY <3>2, <4>1
      <4> QED
        BY <4>1, <4>2
    <3>5. Valid(n)
      BY <2>2, <3>2, <3>4
    <3> QED
      BY <3>3, <3>5
  <2> QED
    BY <2>1, <2>2
<1>2. ValidFrames = CHOOSE n \in 0 .. Len(frames) : Valid(n)
  BY DEF ValidFrames
<1> HIDE DEF Valid
<1>3. ValidFrames \in 0 .. Len(frames) /\ Valid(ValidFrames)
  BY <1>1, <1>2
<1> QED
  BY <1>3 DEF Valid

LEMMA FileTyped ==
    ASSUME TypeOK
    PROVE  /\ file \in Log /\ snapshot \in Snapshot
           /\ file.Frames \in Seq(Frame) /\ Len(file.Frames) \in Nat
           /\ \A log \in disk : /\ log \in Log
                                /\ log.Frames \in Seq(Frame) /\ Len(log.Frames) \in Nat
<1>1. disk \subseteq Log /\ file \in disk /\ snapshot \in diskSnapshot /\ diskSnapshot \subseteq Snapshot
  BY DEF TypeOK
<1> QED
  BY <1>1, LogOf

LEMMA EmptyTyped == EmptyLog \in Log /\ EmptyLog.Frames = <<>> /\ NoSnapshot \in Snapshot
BY EmptySeq DEF EmptyLog, Log, NoSnapshot, Snapshot, Map, MaybeValue

LEMMA TypeInit == Init => TypeInv
<1> SUFFICES ASSUME Init
             PROVE  TypeInv
  OBVIOUS
<1>1. 0 \in 0 .. MaxErrors /\ 0 \in 0 .. MaxCrashes
  BY BoundAssumption
<1>2. data \in Map /\ maxVersionCounter \in Nat
  BY EmptyTyped DEF Init, Snapshot
<1> QED
  BY <1>1, <1>2, EmptyTyped DEF Init, TypeInv, TypeOK, CallHeld

Current == [Data |-> data, MaxVersionCounter |-> maxVersionCounter]

LEMMA CurrentType ==
    ASSUME TypeOK
    PROVE  /\ Current \in Snapshot
           /\ Current.Data = data /\ Current.MaxVersionCounter = maxVersionCounter
BY DEF TypeOK, Snapshot, Current

LEMMA ReplayedType ==
    ASSUME TypeOK
    PROVE  Replayed \in Snapshot
BY FileTyped, ValidFramesOf, ReplayType DEF Replayed

LEMMA BeginAppendType ==
    ASSUME TypeInv, NEW record \in Record, BeginAppend(record),
           record.Op = "delete" =>
             /\ data[record.Key] # Nil
             /\ CompareVersion(data[record.Key].Version, record.Version) = 0
    PROVE  TypeInv'
<1>1. TypeOK /\ file \in Log
  BY FileTyped DEF TypeInv
<1> DEFINE log == Appended(record, "bare")
           part == Appended(record, "partial")
<1>2. /\ log \in Log /\ log.Frames # <<>>
      /\ log.Frames[Len(log.Frames)].Form # "whole"
      /\ [log EXCEPT !.Frames = Front(@)] = file
  <2>1. /\ log \in Log /\ log.Frames # <<>>
        /\ Len(log.Frames) = Len(file.Frames) + 1
        /\ log.Frames[Len(file.Frames) + 1] = [Record |-> record, Form |-> "bare"]
        /\ [log EXCEPT !.Frames = Front(@)] = file
    BY <1>1, AppendedOf
  <2> HIDE DEF log
  <2> QED
    BY <2>1
<1>p. part \in Log
  BY <1>1, AppendedOf
<1>o. file' = log /\ disk' = disk \cup {log, part}
  BY DEF BeginAppend
<1> HIDE DEF log, part
<1>3. disk' \subseteq Log /\ file' \in disk' /\ file \in disk'
  BY <1>1, <1>2, <1>p, <1>o DEF TypeOK
<1>4. TypeOK'
  BY <1>1, <1>3, NoRecordAssumption DEF TypeOK, BeginAppend
<1>5. CallHeld'
  BY <1>1, <1>2, <1>3, <1>o DEF TypeInv, CallHeld, BeginAppend
<1> QED
  BY <1>4, <1>5 DEF TypeInv

LEMMA CallTyped ==
    ASSUME TypeInv, pc \in {"payload", "sync"}
    PROVE  /\ op \in Record /\ op # Nil /\ status = "up"
           /\ file.Frames # <<>> /\ file \in Log
           /\ pc = "sync" =>
                file.Frames[Len(file.Frames)] = [Record |-> op, Form |-> "whole"]
           /\ pc = "payload" => /\ file.Frames[Len(file.Frames)].Form # "whole"
                                /\ [file EXCEPT !.Frames = Front(@)] \in disk
           /\ op.Op # "set" => /\ op.Op = "delete"
                               /\ data[op.Key] # Nil
                               /\ CompareVersion(data[op.Key].Version, op.Version) = 0
<1>1. op \in Record /\ op # Nil /\ file \in Log
  BY FileTyped DEF TypeInv, TypeOK
<1>2. op.Op # "set" => op.Op = "delete"
  BY <1>1 DEF Record
<1> QED
  BY <1>1, <1>2 DEF TypeInv, CallHeld

LEMMA WritePayloadType ==
    ASSUME TypeInv, WritePayload
    PROVE  TypeInv'
<1>1. pc = "payload" /\ op \in Record /\ op # Nil /\ file.Frames # <<>> /\ file \in Log /\ TypeOK
  BY CallTyped DEF WritePayload, TypeInv
<1>2. /\ file' \in Log /\ file'.Frames # <<>>
      /\ file'.Frames[Len(file'.Frames)] = [Record |-> op, Form |-> "whole"]
  BY <1>1, LastFrameOf DEF WritePayload, Write
<1>3. TypeOK'
  BY <1>1, <1>2 DEF TypeOK, WritePayload, Write
<1>4. CallHeld'
  BY <1>1, <1>2 DEF TypeInv, CallHeld, WritePayload
<1> QED
  BY <1>3, <1>4 DEF TypeInv

\* The call that has synced its record makes the change that Replay would make, in the
\* map and in what is durable.
LEMMA FinishAppendType ==
    ASSUME TypeInv, FinishAppend
    PROVE  /\ TypeInv'
           /\ Current' = Apply(Current, op)
           /\ durable' \in Snapshot
           /\ op.Op = "set" =>
                /\ durable'.Data[op.Key] = op.Value
                /\ durable'.MaxVersionCounter = Raise(durable.MaxVersionCounter, op.Value)
           /\ op.Op # "set" =>
                /\ durable'.Data[op.Key] = Nil
                /\ durable'.MaxVersionCounter = durable.MaxVersionCounter
           /\ \A k \in Key : k # op.Key => durable'.Data[k] = durable.Data[k]
<1>1. /\ pc = "sync" /\ op \in Record /\ op # Nil /\ TypeOK
      /\ op.Op # "set" => /\ op.Op = "delete"
                          /\ data[op.Key] # Nil
                          /\ CompareVersion(data[op.Key].Version, op.Version) = 0
  BY CallTyped DEF FinishAppend, TypeInv
<1>2. Current \in Snapshot /\ Current.Data = data /\ Current.MaxVersionCounter = maxVersionCounter
  BY <1>1, CurrentType
<1>3. Current' = Apply(Current, op)
  <2>1. CASE op.Op = "set"
    BY <2>1 DEF FinishAppend, Apply, Current
  <2>2. CASE op.Op # "set"
    <3>1. Apply(Current, op) = [Current EXCEPT !.Data[op.Key] = Nil]
      BY <1>1, <1>2, <2>2 DEF Apply
    <3>2. Current' = [Data |-> [data EXCEPT ![op.Key] = Nil], MaxVersionCounter |-> maxVersionCounter]
      BY <2>2 DEF FinishAppend, Current
    <3> QED
      BY <3>1, <3>2 DEF Current
  <2> QED
    BY <2>1, <2>2
<1>4. Current' \in Snapshot
  BY <1>1, <1>2, <1>3, ApplyKey
<1>5. data' \in Map /\ maxVersionCounter' \in Nat
  BY <1>4 DEF Snapshot, Current
<1>6. /\ durable' \in Snapshot
      /\ op.Op = "set" =>
           /\ durable'.Data[op.Key] = op.Value
           /\ durable'.MaxVersionCounter = Raise(durable.MaxVersionCounter, op.Value)
      /\ op.Op # "set" =>
           /\ durable'.Data[op.Key] = Nil
           /\ durable'.MaxVersionCounter = durable.MaxVersionCounter
      /\ \A k \in Key : k # op.Key => durable'.Data[k] = durable.Data[k]
  <2>1. durable.Data \in [Key -> MaybeValue] /\ durable.MaxVersionCounter \in Nat
        /\ durable = [Data |-> durable.Data, MaxVersionCounter |-> durable.MaxVersionCounter]
        /\ op.Key \in Key
    BY <1>1 DEF TypeOK, Snapshot, Map, Record
  <2>2. CASE op.Op = "set"
    <3>1. op.Value \in Value /\ op.Value.Version.Counter \in Nat
      BY <1>1, <2>2 DEF Record, Value, Version
    <3>2. Raise(durable.MaxVersionCounter, op.Value) \in Nat
      BY <2>1, <3>1 DEF Raise
    <3> DEFINE d == [durable.Data EXCEPT ![op.Key] = op.Value]
    <3>3. d \in Map /\ d[op.Key] = op.Value /\ \A k \in Key : k # op.Key => d[k] = durable.Data[k]
      BY <2>1, <3>1 DEF Map, MaybeValue
    <3>4. durable' = [Data |-> d, MaxVersionCounter |-> Raise(durable.MaxVersionCounter, op.Value)]
      BY <2>2 DEF FinishAppend
    <3> HIDE DEF d
    <3> QED
      BY <2>2, <3>2, <3>3, <3>4 DEF Snapshot
  <2>3. CASE op.Op # "set"
    <3> DEFINE d == [durable.Data EXCEPT ![op.Key] = Nil]
    <3>3. d \in Map /\ d[op.Key] = Nil /\ \A k \in Key : k # op.Key => d[k] = durable.Data[k]
      BY <2>1 DEF Map, MaybeValue
    <3>4. durable' = [Data |-> d, MaxVersionCounter |-> durable.MaxVersionCounter]
      <4>1. durable' = [durable EXCEPT !.Data[op.Key] = Nil]
        BY <2>3 DEF FinishAppend
      <4> QED
        BY <2>1, <4>1
    <3> HIDE DEF d
    <3> QED
      BY <2>1, <2>3, <3>3, <3>4 DEF Snapshot
  <2> QED
    BY <2>2, <2>3
<1>7. doubt' \subseteq doubt /\ disk' = {file} /\ file' = file /\ damaged' = damaged
  BY DEF FinishAppend, Sync
<1>8. TypeOK'
  BY <1>1, <1>5, <1>6, <1>7 DEF TypeOK, FinishAppend, WantsSnapshot
<1>9. CallHeld'
  BY DEF CallHeld, FinishAppend
<1> QED
  BY <1>3, <1>6, <1>8, <1>9 DEF TypeInv

LEMMA AppendErrorType ==
    ASSUME TypeInv, AppendError
    PROVE  TypeInv'
<1>1. /\ op \in Record /\ op # Nil /\ file.Frames # <<>> /\ file \in Log /\ TypeOK
  BY CallTyped DEF AppendError, TypeInv
<1>2. /\ LastFrame("partial") \in Log
      /\ [file EXCEPT !.Frames = Front(@)] \in Log
  BY <1>1, LastFrameOf, FrontLogOf
<1>3. disk' \subseteq Log /\ file' \in disk'
  BY <1>1, <1>2 DEF AppendError, Write, TypeOK
<1>4. errors' \in 0 .. MaxErrors
  BY <1>1, BoundAssumption DEF TypeOK, AppendError
<1>5. TypeOK'
  BY <1>1, <1>3, <1>4 DEF TypeOK, AppendError
<1>6. CallHeld'
  BY DEF CallHeld, AppendError
<1> QED
  BY <1>5, <1>6 DEF TypeInv

LEMMA SnapshotStepType ==
    ASSUME TypeInv,
           \/ SaveSnapshot \/ RenameSnapshot \/ SyncDir \/ TruncateLog
           \/ WriteHeader \/ FinishSnapshot \/ SnapshotError
    PROVE  TypeInv'
<1>1. TypeOK /\ CallHeld /\ file \in Log /\ file \in disk /\ disk \subseteq Log
  BY FileTyped DEF TypeInv, TypeOK
<1>2. \A h \in {"empty", "torn", "ok"} : [file EXCEPT !.Header = h] \in Log
  BY <1>1, LogOf
<1>3. (op = Nil /\ pc \notin {"payload", "sync"}) \/ SaveSnapshot
  BY <1>1 DEF TypeOK, RenameSnapshot, SyncDir, TruncateLog, WriteHeader,
         FinishSnapshot, SnapshotError
<1>4. CASE SaveSnapshot
  BY <1>1, <1>4 DEF TypeInv, TypeOK, CallHeld, SaveSnapshot
<1>5. CASE RenameSnapshot
  <2>1. snapshot' \in Snapshot
    BY <1>1, <1>5, CurrentType DEF RenameSnapshot, Current
  <2> QED
    BY <1>1, <1>3, <1>5, <2>1 DEF TypeInv, TypeOK, CallHeld, RenameSnapshot, SaveSnapshot
<1>6. CASE SyncDir
  BY <1>1, <1>6 DEF TypeInv, TypeOK, CallHeld, SyncDir
<1>7. CASE TruncateLog
  BY <1>1, <1>7, EmptyTyped DEF TypeInv, TypeOK, CallHeld, TruncateLog, Write
<1>8. CASE WriteHeader
  <2>1. file' \in disk' /\ disk' \subseteq Log
    BY <1>1, <1>2, <1>8 DEF WriteHeader, Headed
  <2> QED
    BY <1>1, <1>8, <2>1 DEF TypeInv, TypeOK, CallHeld, WriteHeader
<1>9. CASE FinishSnapshot
  <2>1. durable' \in Snapshot
    BY <1>1, <1>9, CurrentType DEF FinishSnapshot, Current
  <2> QED
    BY <1>1, <1>9, <2>1 DEF TypeInv, TypeOK, CallHeld, FinishSnapshot, Sync
<1>10. CASE SnapshotError
  <2>1. file' \in disk' /\ disk' \subseteq Log
    BY <1>1, <1>2, <1>10 DEF SnapshotError, Write
  <2>2. errors' \in 0 .. MaxErrors
    BY <1>1, <1>10, BoundAssumption DEF TypeOK, SnapshotError
  <2> QED
    BY <1>1, <1>10, <2>1, <2>2 DEF TypeInv, TypeOK, CallHeld, SnapshotError
<1> QED
  BY <1>4, <1>5, <1>6, <1>7, <1>8, <1>9, <1>10

LEMMA TruncatedOf ==
    ASSUME TypeOK
    PROVE  /\ Truncated \in Log /\ Truncated.Header = "ok"
           /\ Len(Truncated.Frames) = ValidFrames
           /\ \A i \in 1 .. ValidFrames : Truncated.Frames[i] = file.Frames[i]
<1> DEFINE q == SubSeq(file.Frames, 1, ValidFrames)
<1>1. file.Frames \in Seq(Frame) /\ ValidFrames \in 0 .. Len(file.Frames)
  BY FileTyped, ValidFramesOf
<1>2. q \in Seq(Frame) /\ Len(q) = ValidFrames
      /\ \A i \in 1 .. ValidFrames : q[i] = file.Frames[i]
  BY <1>1, PrefixOf
<1> HIDE DEF q
<1>3. Truncated = [Header |-> "ok", Frames |-> q]
  BY DEF Truncated, q
<1> QED
  BY <1>2, <1>3 DEF Log

LEMMA CrashType ==
    ASSUME TypeInv, ProcessCrash \/ MachineCrash \/ CrashInOpen \/ CrashInRepair \/ Refuse
    PROVE  TypeInv'
<1>1. TypeOK /\ CallHeld /\ file \in Log /\ file \in disk /\ disk \subseteq Log
  BY FileTyped DEF TypeInv, TypeOK
<1>2. CASE Refuse
  BY <1>1, <1>2 DEF TypeInv, TypeOK, CallHeld, Refuse
<1>3. ASSUME Crash, file' \in disk', disk' \subseteq Log, damaged' \in BOOLEAN,
             snapshot' \in diskSnapshot', diskSnapshot' \subseteq Snapshot
      PROVE  TypeInv'
  <2>1. crashes' \in 0 .. MaxCrashes
    BY <1>1, <1>3, BoundAssumption DEF TypeOK, Crash
  <2>2. data' \in Map /\ maxVersionCounter' \in Nat
    BY <1>3, EmptyTyped DEF Crash, Snapshot
  <2>3. doubt' \subseteq Record
    BY <1>1, <1>3 DEF TypeOK, Crash, InDoubt
  <2>4. TypeOK'
    BY <1>1, <1>3, <2>1, <2>2, <2>3 DEF TypeOK, Crash
  <2>5. CallHeld'
    BY <1>3 DEF CallHeld, Crash
  <2> QED
    BY <2>4, <2>5 DEF TypeInv
<1>4. CASE ProcessCrash
  <2>1. pc = "payload" => LastFrame("partial") \in Log
    BY CallTyped, LastFrameOf
  <2> QED
    BY <1>1, <1>3, <1>4, <2>1 DEF ProcessCrash, Write, TypeOK
<1>5. CASE MachineCrash
  BY <1>1, <1>3, <1>5 DEF MachineCrash, TypeOK
<1>6. CASE CrashInOpen
  <2>1. \A h \in {"empty", "torn", "ok"} : [file EXCEPT !.Header = h] \in Log
    BY <1>1, LogOf
  <2>2. file' \in disk' /\ disk' \subseteq Log
    BY <1>1, <1>6, <2>1 DEF CrashInOpen, Headed
  <2> QED
    BY <1>1, <1>3, <1>6, <2>2 DEF CrashInOpen, TypeOK
<1>7. CASE CrashInRepair
  BY <1>1, <1>3, <1>7, TruncatedOf DEF CrashInRepair, Write, TypeOK
<1> QED
  BY <1>2, <1>4, <1>5, <1>6, <1>7

LEMMA OpenType ==
    ASSUME TypeInv, NEW log \in Log, Open(log), damaged' \in BOOLEAN
    PROVE  TypeInv'
<1>1. Replayed.Data \in Map /\ Replayed.MaxVersionCounter \in Nat
  BY ReplayedType DEF TypeInv, Snapshot
<1>2. file' \in disk' /\ disk' \subseteq Log
  BY DEF Open, TypeInv, TypeOK
<1>3. TypeOK'
  BY <1>1, <1>2 DEF TypeInv, TypeOK, Open
<1>4. CallHeld'
  BY DEF TypeInv, TypeOK, CallHeld, Open
<1> QED
  BY <1>3, <1>4 DEF TypeInv

\* The two starts open the log as they found it, with a header, or truncated.
LEMMA StartOpens ==
    ASSUME TypeOK, Recover \/ RecoverTruncated
    PROVE  /\ status = "down"
           /\ \E log \in Log :
                /\ Open(log)
                /\ Readable \/ damaged'
                /\ log = Truncated \/ log.Frames = file.Frames
           /\ damaged' \in BOOLEAN
           /\ damaged => damaged'
<1>1. /\ Truncated \in Log
      /\ [file EXCEPT !.Header = "ok"] \in Log
      /\ [file EXCEPT !.Header = "ok"].Frames = file.Frames
  BY TruncatedOf, FileTyped, LogOf
<1>2. CASE Recover
  <2>1. CASE Repairs
    BY <1>1, <1>2, <2>1 DEF Recover, Open, TypeOK
  <2>2. CASE ~Repairs
    BY <1>1, <1>2, <2>2 DEF Recover, Open, TypeOK
  <2> QED
    BY <2>1, <2>2
<1>3. CASE RecoverTruncated
  BY <1>1, <1>3 DEF RecoverTruncated, Open, TypeOK
<1> QED
  BY <1>2, <1>3

LEMMA SetBegins ==
    ASSUME NEW k \in Key, NEW v \in Offered, Set(k, v) \/ DeleteIfMatch(k, v)
    PROVE  \E record \in Record :
             /\ BeginAppend(record)
             /\ record.Op = "delete" =>
                  /\ data[record.Key] # Nil
                  /\ CompareVersion(data[record.Key].Version, record.Version) = 0
<1>1. v \in Value /\ v.Version \in Version
  BY OfferedAssumption DEF Value
<1>2. CASE Set(k, v)
  <2> DEFINE r == [Op |-> "set", Key |-> k, Value |-> v]
  <2>1. r \in Record /\ r.Op # "delete" /\ BeginAppend(r)
    BY <1>1, <1>2 DEF Record, Set
  <2> QED
    BY <2>1
<1>3. CASE DeleteIfMatch(k, v)
  <2> DEFINE r == [Op |-> "delete", Key |-> k, Version |-> v.Version]
  <2>1. r \in Record /\ BeginAppend(r) /\ r.Key = k /\ r.Version = v.Version
    BY <1>1, <1>3 DEF Record, DeleteIfMatch
  <2>2. data[k] # Nil /\ CompareVersion(data[k].Version, v.Version) = 0
    BY <1>3 DEF DeleteIfMatch
  <2> HIDE DEF r
  <2> QED
    BY <2>1, <2>2
<1> QED
  BY <1>2, <1>3

LEMMA TypeNext == TypeInv /\ [Next]_vars => TypeInv'
<1> SUFFICES ASSUME TypeInv, [Next]_vars
             PROVE  TypeInv'
  OBVIOUS
<1>1. ASSUME NEW k \in Key, NEW v \in Offered, Set(k, v) \/ DeleteIfMatch(k, v)
      PROVE  TypeInv'
  BY <1>1, SetBegins, BeginAppendType
<1>2. CASE WritePayload
  BY <1>2, WritePayloadType
<1>3. CASE FinishAppend
  BY <1>3, FinishAppendType
<1>4. CASE AppendError
  BY <1>4, AppendErrorType
<1>5. CASE \/ SaveSnapshot \/ RenameSnapshot \/ SyncDir \/ TruncateLog
           \/ WriteHeader \/ FinishSnapshot \/ SnapshotError
  BY <1>5, SnapshotStepType
<1>6. CASE ProcessCrash \/ MachineCrash \/ CrashInOpen \/ CrashInRepair \/ Refuse
  BY <1>6, CrashType
<1>7. CASE Recover \/ RecoverTruncated
  <2>1. TypeOK
    BY DEF TypeInv
  <2> QED
    BY <1>7, <2>1, StartOpens, OpenType
<1>8. CASE UNCHANGED vars
  BY <1>8 DEF vars, TypeInv, TypeOK, CallHeld
<1> QED
  BY <1>1, <1>2, <1>3, <1>4, <1>5, <1>6, <1>7, <1>8 DEF Next

\* Set, DeleteIfMatch, snapshots, crashes and OpenMemory (memory.go, wal.go,
\* snapshot.go) keep every variable in its type.
THEOREM StoreTypeCorrect == Spec => []TypeOK
<1>1. TypeInv => TypeOK
  BY DEF TypeInv
<1> QED
  BY TypeInit, TypeNext, <1>1, PTL DEF Spec

-----------------------------------------------------------------------------
(* What the logs restore *)

Effect(record) == IF record.Op = "set" THEN record.Value ELSE Nil

\* The value of a key is the one of the state s, or what a record of D makes of it.
Explained(s, D, k, value) ==
    value = s.Data[k] \/ \E r \in D : r.Key = k /\ value = Effect(r)

\* The first m frames may be all that a start makes out of a log, when the first n are
\* those of calls that have ended and at most the last frame is cut.
MayRemain(frames, n, m) ==
    /\ m \in 0 .. Len(frames)
    /\ \A i \in 1 .. m : frames[i].Form = "whole"
    /\ m >= n \/ (m = n - 1 /\ frames[n].Form # "whole")

\* What a start makes of m frames on a snapshot of B: of each key what is in d or in
\* doubt, and no smaller counter.  On any other state it leaves a key alone or makes
\* the same of it.
Restores(B, d, D, frames, m) ==
    /\ \A s \in B :
         /\ Replay(s, frames)[m].MaxVersionCounter >= d.MaxVersionCounter
         /\ \A k \in Key : Explained(d, D, k, Replay(s, frames)[m].Data[k])
    /\ \A s \in Snapshot, k \in Key :
         \/ Replay(s, frames)[m].Data[k] = s.Data[k]
         \/ Explained(d, D, k, Replay(s, frames)[m].Data[k])

AlwaysRestores(B, d, D, frames) ==
    \A m \in 0 .. Len(frames) :
        MayRemain(frames, Len(frames), m) => Restores(B, d, D, frames, m)

\* Every log that a crash may leave restores what is durable.
LogsRestore == \A log \in disk : AlwaysRestores(diskSnapshot, durable, InDoubt, log.Frames)

\* So does the state of the process: a snapshot of it may be the next to start from.
CurrentRestores ==
    status = "up" =>
        /\ maxVersionCounter >= durable.MaxVersionCounter
        /\ \A k \in Key : Explained(durable, InDoubt, k, data[k])

\* The frames of calls that have ended.
Ended == IF op = Nil THEN Len(file.Frames) ELSE Len(file.Frames) - 1

\* The frames replayed on the state s make nothing new of it.
Repeats(s, D, frames, n) ==
    \A m \in 0 .. Len(frames) :
        MayRemain(frames, n, m) =>
            \A k \in Key : Explained(s, D, k, Replay(s, frames)[m].Data[k])

FileRepeats == status = "up" => Repeats(Current, InDoubt, file.Frames, Ended)

\* The states that a start may begin with, now or after the next snapshot.
Bases == diskSnapshot \cup (IF status = "up" THEN {Current} ELSE {})

\* It makes no difference on which of them the frames are replayed.
Agree(B, frames, n) ==
    \A m \in 0 .. Len(frames) :
        MayRemain(frames, n, m) =>
            \A s \in B, t \in B, k \in Key :
                Replay(s, frames)[m].Data[k] = Replay(t, frames)[m].Data[k]

BasesAgree == Agree(Bases, file.Frames, Ended)

RestoreInv == LogsRestore /\ CurrentRestores /\ FileRepeats /\ BasesAgree

\* The log is truncated only when the snapshot on disk holds everything.
SnapshotHeld ==
    /\ status # "up" => pc = "idle"
    /\ status = "up" =>
         /\ pc \in {"renamed", "saved", "truncated", "header"} => snapshot = Current
         /\ pc \in {"saved", "truncated", "header"} => diskSnapshot = {Current}
         /\ pc \in {"truncated", "header"} => file.Frames = <<>>

StoreInv == TypeInv /\ SnapshotHeld /\ (~damaged => RestoreInv)

LEMMA BasesTyped ==
    ASSUME TypeOK
    PROVE  /\ Bases \subseteq Snapshot
           /\ diskSnapshot \subseteq Snapshot /\ diskSnapshot \subseteq Bases
           /\ snapshot \in diskSnapshot
           /\ \A s \in Snapshot : s.MaxVersionCounter \in Nat
           /\ durable \in Snapshot /\ durable.MaxVersionCounter \in Nat
BY CurrentType DEF TypeOK, Bases, Snapshot

\* One record replayed.
LEMMA ApplyEffect ==
    ASSUME NEW s \in Snapshot, NEW r \in Record
    PROVE  /\ Apply(s, r) \in Snapshot
           /\ Apply(s, r).MaxVersionCounter >= s.MaxVersionCounter
           /\ \A k \in Key : \/ Apply(s, r).Data[k] = s.Data[k]
                             \/ r.Key = k /\ Apply(s, r).Data[k] = Effect(r)
<1>1. \A k \in Key : r.Key # k => Apply(s, r).Data[k] = s.Data[k]
  BY ApplyKey
<1>2. \/ Apply(s, r).Data[r.Key] = s.Data[r.Key]
      \/ Apply(s, r).Data[r.Key] = Effect(r)
  BY ApplyKey DEF Effect
<1> QED
  BY <1>1, <1>2, ApplyKey

\* What may remain of q may remain of p, and is the same there.
Covers(p, n, q, l) ==
    \A m \in 0 .. Len(q) :
        MayRemain(q, l, m) => MayRemain(p, n, m) /\ \A i \in 1 .. m : q[i] = p[i]

LEMMA CoversReplay ==
    ASSUME NEW p \in Seq(Frame), NEW q \in Seq(Frame), NEW n, NEW l, Covers(p, n, q, l),
           NEW m \in 0 .. Len(q), MayRemain(q, l, m)
    PROVE  /\ m \in 0 .. Len(p) /\ MayRemain(p, n, m)
           /\ \A s : Replay(s, q)[m] = Replay(s, p)[m]
<1>1. m \in 0 .. Len(p) /\ MayRemain(p, n, m) /\ \A i \in 1 .. m : q[i] = p[i]
  BY DEF Covers, MayRemain
<1>2. m <= Len(p) /\ \A i \in 1 .. m : q[i].Record = p[i].Record
  BY <1>1
<1> QED
  BY <1>1, <1>2, ReplayAgrees

\* A frame that is not whole at the end changes nothing.
LEMMA CoversCut ==
    ASSUME NEW p \in Seq(Frame), NEW q \in Seq(Frame), Len(q) = Len(p) + 1,
           \A i \in 1 .. Len(p) : q[i] = p[i],
           q[Len(q)].Form # "whole"
    PROVE  Covers(p, Len(p), q, Len(p)) /\ Covers(p, Len(p), q, Len(q))
<1> DEFINE L == Len(p)
<1>1. L \in Nat /\ Len(q) = L + 1 /\ \A i \in 1 .. L : q[i] = p[i]
  OBVIOUS
<1>2. q[L + 1].Form # "whole"
  BY <1>1
<1>3. ASSUME NEW m \in 0 .. Len(q), NEW l \in {L, L + 1}, MayRemain(q, l, m)
      PROVE  MayRemain(p, L, m) /\ \A i \in 1 .. m : q[i] = p[i]
  <2> HIDE DEF L
  <2>1. m \in 0 .. L + 1 /\ \A i \in 1 .. m : q[i].Form = "whole"
    BY <1>1, <1>3 DEF MayRemain
  <2>2. m # L + 1
    BY <1>1, <1>2, <2>1
  <2>3. m \in 0 .. L
    BY <1>1, <2>1, <2>2
  <2>4. \A i \in 1 .. m : q[i] = p[i] /\ p[i].Form = "whole"
    BY <1>1, <2>1, <2>3
  <2>5. m >= L \/ (m = L - 1 /\ p[L].Form # "whole")
    <3>1. CASE m = L
      BY <1>1, <3>1
    <3>2. CASE m # L
      <4>1. m < L
        BY <1>1, <2>3, <3>2
      <4>2. l = L /\ m = L - 1 /\ q[L].Form # "whole"
        BY <1>1, <1>3, <4>1 DEF MayRemain
      <4>3. q[L] = p[L]
        BY <1>1, <2>3, <4>2
      <4> QED
        BY <4>2, <4>3
    <3> QED
      BY <3>1, <3>2
  <2> QED
    BY <2>3, <2>4, <2>5 DEF MayRemain, L
<1> QED
  BY <1>1, <1>3 DEF Covers

\* Neither does the last frame cut, or ended, or taken away.
LEMMA CoversLast ==
    ASSUME NEW p \in Seq(Frame), p # <<>>, NEW q \in Seq(Frame),
           \A i \in 1 .. Len(p) - 1 : q[i] = p[i],
           \/ q = p
           \/ Len(q) = Len(p) /\ q[Len(p)].Form # "whole"
           \/ Len(q) = Len(p) - 1
    PROVE  Covers(p, Len(p) - 1, q, Len(q))
<1> DEFINE L == Len(p)
           K == Len(q)
<1>1. L \in Nat \ {0} /\ K \in Nat
  BY EmptySeq
<1> SUFFICES ASSUME NEW m \in 0 .. K, MayRemain(q, K, m)
             PROVE  MayRemain(p, L - 1, m) /\ \A i \in 1 .. m : q[i] = p[i]
  BY DEF Covers
<1> HIDE DEF L, K
<1>2. /\ m \in 0 .. K /\ \A i \in 1 .. m : q[i].Form = "whole"
      /\ m >= K \/ (m = K - 1 /\ q[K].Form # "whole")
  BY DEF MayRemain, K
<1>3. /\ \A i \in 1 .. L - 1 : q[i] = p[i]
      /\ \/ q = p /\ K = L
         \/ K = L /\ q[L].Form # "whole"
         \/ K = L - 1
  BY DEF L, K
<1>4. CASE q = p /\ K = L
  BY <1>1, <1>2, <1>4 DEF MayRemain, L
<1>5. CASE K = L /\ q[L].Form # "whole"
  <2>1. m = L - 1
    BY <1>1, <1>2, <1>5
  <2> QED
    BY <1>1, <1>2, <1>3, <2>1 DEF MayRemain, L
<1>6. CASE K = L - 1
  <2>1. m \in 0 .. L /\ \A i \in 1 .. m : q[i] = p[i] /\ p[i].Form = "whole"
    BY <1>1, <1>2, <1>3, <1>6
  <2>2. m >= L - 1 \/ (m = (L - 1) - 1 /\ p[L - 1].Form # "whole")
    <3>1. CASE m >= K
      BY <1>6, <3>1
    <3>2. CASE ~(m >= K)
      <4>1. m = K - 1 /\ q[K].Form # "whole" /\ K \in 1 .. L - 1
        BY <1>1, <1>2, <1>6, <3>2
      <4>2. q[K] = p[K]
        BY <1>3, <4>1
      <4> QED
        BY <1>6, <4>1, <4>2
    <3> QED
      BY <3>1, <3>2
  <2> QED
    BY <2>1, <2>2 DEF MayRemain, L
<1> QED
  BY <1>3, <1>4, <1>5, <1>6

LEMMA CoversItself ==
    ASSUME NEW p, NEW n
    PROVE  Covers(p, n, p, n)
BY DEF Covers

\* The whole frames of a log that a start can make out.
LEMMA CoversWhole ==
    ASSUME NEW p \in Seq(Frame), NEW q \in Seq(Frame), NEW n,
           MayRemain(p, n, Len(q)), \A i \in 1 .. Len(q) : q[i] = p[i]
    PROVE  Covers(p, n, q, Len(q))
<1> SUFFICES ASSUME NEW m \in 0 .. Len(q), MayRemain(q, Len(q), m)
             PROVE  MayRemain(p, n, m) /\ \A i \in 1 .. m : q[i] = p[i]
  BY DEF Covers
<1>1. Len(q) \in Nat /\ m \in Nat
  OBVIOUS
<1>2. \A i \in 1 .. Len(q) : q[i].Form = "whole"
  BY DEF MayRemain
<1>3. m = Len(q)
  <2>1. m = Len(q) - 1 => Len(q) \in 1 .. Len(q)
    BY <1>1
  <2> QED
    BY <1>1, <1>2, <2>1 DEF MayRemain
<1> QED
  BY <1>3


\* What restores, repeats or agrees goes on doing so for fewer snapshots, more doubt
\* and frames that are covered.
LEMMA CoversRestores ==
    ASSUME NEW p \in Seq(Frame), NEW q \in Seq(Frame), Covers(p, Len(p), q, Len(q)),
           NEW B, NEW A \in SUBSET B, NEW d, NEW D, NEW E, D \subseteq E,
           AlwaysRestores(B, d, D, p)
    PROVE  AlwaysRestores(A, d, E, q)
<1> SUFFICES ASSUME NEW m \in 0 .. Len(q), MayRemain(q, Len(q), m)
             PROVE  Restores(A, d, E, q, m)
  BY DEF AlwaysRestores
<1>1. /\ m \in 0 .. Len(p) /\ MayRemain(p, Len(p), m)
      /\ \A s : Replay(s, q)[m] = Replay(s, p)[m]
  BY CoversReplay
<1>2. Restores(B, d, D, p, m)
  BY <1>1 DEF AlwaysRestores
<1> QED
  BY <1>1, <1>2 DEF Restores, Explained

LEMMA CoversRepeats ==
    ASSUME NEW p \in Seq(Frame), NEW q \in Seq(Frame), NEW n, NEW l, Covers(p, n, q, l),
           NEW s, NEW D, NEW E, D \subseteq E, Repeats(s, D, p, n)
    PROVE  Repeats(s, E, q, l)
<1> SUFFICES ASSUME NEW m \in 0 .. Len(q), MayRemain(q, l, m), NEW k \in Key
             PROVE  Explained(s, E, k, Replay(s, q)[m].Data[k])
  BY DEF Repeats
<1>1. /\ m \in 0 .. Len(p) /\ MayRemain(p, n, m)
      /\ Replay(s, q)[m] = Replay(s, p)[m]
  BY CoversReplay
<1>2. Explained(s, D, k, Replay(s, p)[m].Data[k])
  BY <1>1 DEF Repeats
<1> QED
  BY <1>1, <1>2 DEF Explained

LEMMA CoversAgree ==
    ASSUME NEW p \in Seq(Frame), NEW q \in Seq(Frame), NEW n, NEW l, Covers(p, n, q, l),
           NEW B, NEW A \in SUBSET B, Agree(B, p, n)
    PROVE  Agree(A, q, l)
<1> SUFFICES ASSUME NEW m \in 0 .. Len(q), MayRemain(q, l, m),
                    NEW s \in A, NEW t \in A, NEW k \in Key
             PROVE  Replay(s, q)[m].Data[k] = Replay(t, q)[m].Data[k]
  BY DEF Agree
<1>1. /\ m \in 0 .. Len(p) /\ MayRemain(p, n, m)
      /\ Replay(s, q)[m] = Replay(s, p)[m]
      /\ Replay(t, q)[m] = Replay(t, p)[m]
  BY CoversReplay
<1> QED
  BY <1>1 DEF Agree

LEMMA SameRestores ==
    ASSUME NEW p \in Seq(Frame), NEW B, NEW A \in SUBSET B, NEW d, NEW D, NEW E, D \subseteq E,
           AlwaysRestores(B, d, D, p)
    PROVE  AlwaysRestores(A, d, E, p)
BY CoversRestores, CoversItself

\* No frames at all.
LEMMA EmptyReplay ==
    ASSUME NEW q \in Seq(Frame), q = <<>>
    PROVE  \A m \in 0 .. Len(q) : m = 0 /\ \A s : Replay(s, q)[m] = s
<1>1. \A s : Replay(s, q)[0] = s
  BY ReplaySteps
<1>2. \A m \in 0 .. Len(q) : m = 0
  OBVIOUS
<1> QED
  BY <1>1, <1>2

LEMMA EmptyRestores ==
    ASSUME NEW q \in Seq(Frame), q = <<>>, NEW d, NEW D, NEW c \in Snapshot,
           c.MaxVersionCounter >= d.MaxVersionCounter,
           \A k \in Key : Explained(d, D, k, c.Data[k])
    PROVE  AlwaysRestores({c}, d, D, q)
<1>1. \A m \in 0 .. Len(q) : m = 0 /\ \A s : Replay(s, q)[m] = s
  BY EmptyReplay
<1> QED
  BY <1>1 DEF AlwaysRestores, Restores

LEMMA EmptyRepeats ==
    ASSUME NEW q \in Seq(Frame), q = <<>>, NEW D, NEW n, NEW c
    PROVE  Repeats(c, D, q, n) /\ Agree({c}, q, n)
<1>1. \A m \in 0 .. Len(q) : m = 0 /\ \A s : Replay(s, q)[m] = s
  BY EmptyReplay
<1> QED
  BY <1>1 DEF Repeats, Agree, Explained

\* A snapshot of the state of the process is one more to start from.
LEMMA CurrentAdded ==
    ASSUME NEW q \in Seq(Frame), NEW B, NEW d \in Snapshot, NEW D, NEW c \in Snapshot,
           AlwaysRestores(B, d, D, q),
           c.MaxVersionCounter >= d.MaxVersionCounter,
           \A k \in Key : Explained(d, D, k, c.Data[k])
    PROVE  AlwaysRestores(B \cup {c}, d, D, q)
<1> SUFFICES ASSUME NEW m \in 0 .. Len(q), MayRemain(q, Len(q), m)
             PROVE  Restores(B \cup {c}, d, D, q, m)
  BY DEF AlwaysRestores
<1>1. Restores(B, d, D, q, m)
  BY DEF AlwaysRestores
<1> DEFINE t == Replay(c, q)[m]
<1>2. t \in Snapshot /\ t.MaxVersionCounter >= c.MaxVersionCounter
  BY ReplayType
<1>3. t.MaxVersionCounter \in Nat /\ c.MaxVersionCounter \in Nat /\ d.MaxVersionCounter \in Nat
  BY <1>2 DEF Snapshot
<1>4. \A k \in Key : t.Data[k] = c.Data[k] \/ Explained(d, D, k, t.Data[k])
  BY <1>1 DEF Restores
<1>5. t.MaxVersionCounter >= d.MaxVersionCounter
  BY <1>2, <1>3
<1>6. \A k \in Key : Explained(d, D, k, t.Data[k])
  BY <1>4 DEF Explained
<1> HIDE DEF t
<1>7. \A s \in B \cup {c} : s \in B \/ Replay(s, q)[m] = t
  BY DEF t
<1> QED
  BY <1>1, <1>5, <1>6, <1>7 DEF Restores

LEMMA ApplyLocal ==
    ASSUME NEW s \in Snapshot, NEW t \in Snapshot, NEW r \in Record, NEW k \in Key,
           s.Data[k] = t.Data[k]
    PROVE  Apply(s, r).Data[k] = Apply(t, r).Data[k]
<1>1. CASE r.Key # k
  BY <1>1, ApplyKey
<1>2. CASE r.Key = k
  <2>1. r.Op = "set" \/ r.Op # "set"
    OBVIOUS
  <2>2. r.Op = "set" => Apply(s, r).Data[k] = r.Value /\ Apply(t, r).Data[k] = r.Value
    BY <1>2, ApplyKey
  <2> DEFINE After(v) == IF v # Nil /\ CompareVersion(v.Version, r.Version) = 0 THEN Nil ELSE v
  <2>3. r.Op # "set" => /\ Apply(s, r).Data[k] = After(s.Data[k])
                        /\ Apply(t, r).Data[k] = After(t.Data[k])
    BY <1>2, ApplyKey
  <2> HIDE DEF After
  <2> QED
    BY <2>1, <2>2, <2>3
<1> QED
  BY <1>1, <1>2

\* Replay of the last record.
LEMMA LastApplied ==
    ASSUME NEW p \in Seq(Frame), NEW q \in Seq(Frame), q # <<>>,
           Len(p) = Len(q) \/ Len(p) = Len(q) - 1,
           \A i \in 1 .. Len(q) - 1 : q[i] = p[i]
    PROVE  /\ Len(q) \in Nat \ {0} /\ Len(q) - 1 \in 0 .. Len(p)
           /\ q[Len(q)].Record \in Record
           /\ \A s : Replay(s, q)[Len(q)] = Apply(Replay(s, p)[Len(q) - 1], q[Len(q)].Record)
<1>1. Len(q) \in Nat \ {0} /\ Len(p) \in Nat
  BY EmptySeq
<1>2. /\ Len(q) - 1 \in 0 .. Len(q) /\ Len(q) - 1 \in 0 .. Len(p)
      /\ Len(q) \in 1 .. Len(q) /\ Len(q) - 1 <= Len(p)
  BY <1>1
<1>3. ASSUME NEW s
      PROVE  Replay(s, q)[Len(q)] = Apply(Replay(s, p)[Len(q) - 1], q[Len(q)].Record)
  <2>1. Replay(s, q)[Len(q)] = Apply(Replay(s, q)[Len(q) - 1], q[Len(q)].Record)
    BY <1>2, ReplaySteps
  <2>2. \A i \in 1 .. Len(q) - 1 : q[i].Record = p[i].Record
    OBVIOUS
  <2>3. Replay(s, q)[Len(q) - 1] = Replay(s, p)[Len(q) - 1]
    BY <1>2, <2>2, ReplayAgrees
  <2> QED
    BY <2>1, <2>3
<1> QED
  BY <1>1, <1>2, <1>3, FrameIn

\* The log with a whole frame at its end restores what it restored without, when the
\* record is in doubt.
LEMMA PayloadRestores ==
    ASSUME NEW p \in Seq(Frame), NEW q \in Seq(Frame), q # <<>>, Len(p) = Len(q) - 1,
           \A i \in 1 .. Len(q) - 1 : q[i] = p[i],
           q[Len(q)].Form = "whole",
           NEW B \in SUBSET Snapshot, NEW d \in Snapshot, NEW D, q[Len(q)].Record \in D,
           AlwaysRestores(B, d, D, p)
    PROVE  AlwaysRestores(B, d, D, q)
<1> DEFINE L == Len(q)
           r == q[L].Record
<1>1. /\ L \in Nat \ {0} /\ L - 1 \in 0 .. Len(p) /\ r \in Record
      /\ \A s : Replay(s, q)[L] = Apply(Replay(s, p)[L - 1], r)
  BY LastApplied
<1> SUFFICES ASSUME NEW m \in 0 .. L, MayRemain(q, L, m)
             PROVE  Restores(B, d, D, q, m)
  BY DEF AlwaysRestores
<1>2. m = L /\ \A i \in 1 .. L : q[i].Form = "whole"
  BY <1>1 DEF MayRemain
<1>3. \A i \in 1 .. L - 1 : p[i].Form = "whole"
  BY <1>1, <1>2
<1>4. Restores(B, d, D, p, L - 1)
  <2>1. MayRemain(p, Len(p), L - 1)
    BY <1>1, <1>3 DEF MayRemain
  <2> QED
    BY <1>1, <2>1 DEF AlwaysRestores
<1>5. r \in D /\ d.MaxVersionCounter \in Nat /\ \A s \in Snapshot : s.MaxVersionCounter \in Nat
  BY DEF Snapshot
<1>6. ASSUME NEW s \in Snapshot
      PROVE  LET t == Replay(s, p)[L - 1]
                 u == Replay(s, q)[L]
             IN  /\ t \in Snapshot /\ u \in Snapshot
                 /\ u.MaxVersionCounter >= t.MaxVersionCounter
                 /\ \A k \in Key : u.Data[k] = t.Data[k] \/ (r.Key = k /\ u.Data[k] = Effect(r))
  <2>1. Replay(s, p)[L - 1] \in Snapshot
    BY <1>1, ReplayType
  <2> HIDE DEF L, r
  <2> QED
    BY <1>1, <2>1, ApplyEffect
<1> HIDE DEF L, r
<1>7. ASSUME NEW s \in B
      PROVE  /\ Replay(s, q)[L].MaxVersionCounter >= d.MaxVersionCounter
             /\ \A k \in Key : Explained(d, D, k, Replay(s, q)[L].Data[k])
  <2> DEFINE t == Replay(s, p)[L - 1]
             u == Replay(s, q)[L]
  <2>1. /\ t \in Snapshot /\ u \in Snapshot
        /\ u.MaxVersionCounter >= t.MaxVersionCounter
        /\ \A k \in Key : u.Data[k] = t.Data[k] \/ (r.Key = k /\ u.Data[k] = Effect(r))
    BY <1>6
  <2>2. /\ t.MaxVersionCounter >= d.MaxVersionCounter
        /\ \A k \in Key : Explained(d, D, k, t.Data[k])
    BY <1>4 DEF Restores
  <2> HIDE DEF t, u
  <2>3. u.MaxVersionCounter >= d.MaxVersionCounter
    <3>1. t.MaxVersionCounter \in Nat /\ u.MaxVersionCounter \in Nat
      BY <1>5, <2>1
    <3> QED
      BY <1>5, <2>1, <2>2, <3>1
  <2>4. \A k \in Key : Explained(d, D, k, u.Data[k])
    BY <1>5, <2>1, <2>2 DEF Explained
  <2> QED
    BY <2>3, <2>4 DEF u
<1>8. ASSUME NEW s \in Snapshot, NEW k \in Key
      PROVE  \/ Replay(s, q)[L].Data[k] = s.Data[k]
             \/ Explained(d, D, k, Replay(s, q)[L].Data[k])
  <2> DEFINE t == Replay(s, p)[L - 1]
             u == Replay(s, q)[L]
  <2>1. u.Data[k] = t.Data[k] \/ (r.Key = k /\ u.Data[k] = Effect(r))
    BY <1>6
  <2>2. t.Data[k] = s.Data[k] \/ Explained(d, D, k, t.Data[k])
    BY <1>4 DEF Restores
  <2> HIDE DEF t, u
  <2>3. u.Data[k] = s.Data[k] \/ Explained(d, D, k, u.Data[k])
    BY <1>5, <2>1, <2>2 DEF Explained
  <2> QED
    BY <2>3 DEF u
<1> QED
  BY <1>2, <1>7, <1>8 DEF Restores

\* Of a log with another last frame the same remains without it.
LEMMA RemainsBefore ==
    ASSUME NEW p \in Seq(Frame), NEW q \in Seq(Frame), q # <<>>, Len(p) = Len(q),
           \A i \in 1 .. Len(q) - 1 : q[i] = p[i],
           NEW m \in 0 .. Len(q), MayRemain(q, Len(q) - 1, m)
    PROVE  /\ MayRemain(p, Len(p) - 1, Len(p) - 1) \/ m # Len(q)
           /\ m # Len(q) => /\ MayRemain(p, Len(p) - 1, m)
                            /\ \A s : Replay(s, q)[m] = Replay(s, p)[m]
<1> DEFINE L == Len(q)
<1>1. L \in Nat \ {0} /\ Len(p) = L
  BY EmptySeq
<1>2. /\ m \in 0 .. L /\ \A i \in 1 .. m : q[i].Form = "whole"
      /\ m >= L - 1 \/ (m = (L - 1) - 1 /\ q[L - 1].Form # "whole")
  BY DEF MayRemain
<1>3. \A i \in 1 .. L - 1 : q[i] = p[i]
  OBVIOUS
<1> HIDE DEF L
<1>4. CASE m = L
  <2>1. L - 1 \in 0 .. L /\ \A i \in 1 .. L - 1 : p[i].Form = "whole"
    BY <1>1, <1>2, <1>3, <1>4
  <2> QED
    BY <1>1, <1>4, <2>1 DEF MayRemain, L
<1>5. CASE m # L
  <2>1. m \in 0 .. L - 1
    BY <1>1, <1>2, <1>5
  <2>2. \A i \in 1 .. m : p[i] = q[i] /\ p[i].Form = "whole"
    BY <1>1, <1>2, <1>3, <2>1
  <2>3. m >= L - 1 \/ (m = (L - 1) - 1 /\ p[L - 1].Form # "whole")
    <3>1. CASE m = (L - 1) - 1 /\ q[L - 1].Form # "whole"
      <4>1. L - 1 \in 1 .. L - 1
        BY <1>1, <2>1, <3>1
      <4>2. p[L - 1] = q[L - 1]
        BY <1>3, <4>1
      <4> QED
        BY <3>1, <4>2
    <3> QED
      BY <1>2, <3>1
  <2>4. MayRemain(p, L - 1, m)
    BY <1>1, <1>2, <2>2, <2>3 DEF MayRemain
  <2>5. m \in 0 .. Len(q) /\ m <= Len(p) /\ \A i \in 1 .. m : q[i].Record = p[i].Record
    BY <1>1, <2>1, <2>2 DEF L
  <2>6. \A s : Replay(s, q)[m] = Replay(s, p)[m]
    BY <2>5, ReplayAgrees
  <2> QED
    BY <1>1, <1>5, <2>4, <2>6 DEF L
<1> QED
  BY <1>4, <1>5

LEMMA PayloadRepeats ==
    ASSUME NEW p \in Seq(Frame), NEW q \in Seq(Frame), q # <<>>, Len(p) = Len(q),
           \A i \in 1 .. Len(q) - 1 : q[i] = p[i],
           NEW c \in Snapshot, NEW D, q[Len(q)].Record \in D,
           Repeats(c, D, p, Len(p) - 1)
    PROVE  Repeats(c, D, q, Len(q) - 1)
<1> DEFINE L == Len(q)
           r == q[L].Record
<1> SUFFICES ASSUME NEW m \in 0 .. L, MayRemain(q, L - 1, m), NEW k \in Key
             PROVE  Explained(c, D, k, Replay(c, q)[m].Data[k])
  BY DEF Repeats
<1>1. /\ MayRemain(p, Len(p) - 1, Len(p) - 1) \/ m # L
      /\ m # L => MayRemain(p, Len(p) - 1, m) /\ Replay(c, q)[m] = Replay(c, p)[m]
  BY RemainsBefore
<1>2. CASE m # L
  BY <1>1, <1>2 DEF Repeats
<1>3. CASE m = L
  <2>1. /\ L - 1 \in 0 .. Len(p) /\ r \in Record
        /\ Replay(c, q)[L] = Apply(Replay(c, p)[L - 1], r)
    BY LastApplied
  <2> DEFINE t == Replay(c, p)[L - 1]
             u == Replay(c, q)[L]
  <2>2. t \in Snapshot
    BY <2>1, ReplayType
  <2>3. Explained(c, D, k, t.Data[k])
    BY <1>1, <1>3, <2>1 DEF Repeats
  <2>4. r \in D
    OBVIOUS
  <2> HIDE DEF t, L, r
  <2>5. u.Data[k] = t.Data[k] \/ (r.Key = k /\ u.Data[k] = Effect(r))
    BY <2>1, <2>2, ApplyEffect DEF t
  <2> HIDE DEF u
  <2>6. Explained(c, D, k, u.Data[k])
    BY <2>3, <2>4, <2>5 DEF Explained
  <2> QED
    BY <1>3, <2>6 DEF u
<1> QED
  BY <1>2, <1>3

LEMMA PayloadAgree ==
    ASSUME NEW p \in Seq(Frame), NEW q \in Seq(Frame), q # <<>>, Len(p) = Len(q),
           \A i \in 1 .. Len(q) - 1 : q[i] = p[i],
           NEW B \in SUBSET Snapshot, Agree(B, p, Len(p) - 1)
    PROVE  Agree(B, q, Len(q) - 1)
<1> DEFINE L == Len(q)
           r == q[L].Record
<1> SUFFICES ASSUME NEW m \in 0 .. L, MayRemain(q, L - 1, m),
                    NEW s \in B, NEW t \in B, NEW k \in Key
             PROVE  Replay(s, q)[m].Data[k] = Replay(t, q)[m].Data[k]
  BY DEF Agree
<1>1. /\ MayRemain(p, Len(p) - 1, Len(p) - 1) \/ m # L
      /\ m # L => /\ MayRemain(p, Len(p) - 1, m)
                  /\ Replay(s, q)[m] = Replay(s, p)[m]
                  /\ Replay(t, q)[m] = Replay(t, p)[m]
  BY RemainsBefore
<1>2. CASE m # L
  BY <1>1, <1>2 DEF Agree
<1>3. CASE m = L
  <2>1. /\ L - 1 \in 0 .. Len(p) /\ r \in Record
        /\ Replay(s, q)[L] = Apply(Replay(s, p)[L - 1], r)
        /\ Replay(t, q)[L] = Apply(Replay(t, p)[L - 1], r)
    BY LastApplied
  <2>2. Replay(s, p)[L - 1] \in Snapshot /\ Replay(t, p)[L - 1] \in Snapshot
    BY <2>1, ReplayType
  <2>3. Replay(s, p)[L - 1].Data[k] = Replay(t, p)[L - 1].Data[k]
    BY <1>1, <1>3, <2>1 DEF Agree
  <2> HIDE DEF L, r
  <2> DEFINE u == Replay(s, p)[L - 1]
             v == Replay(t, p)[L - 1]
  <2>4. Replay(s, q)[L].Data[k] = Replay(t, q)[L].Data[k]
    <3>1. u \in Snapshot /\ v \in Snapshot /\ u.Data[k] = v.Data[k]
      BY <2>2, <2>3
    <3>2. Replay(s, q)[L] = Apply(u, r) /\ Replay(t, q)[L] = Apply(v, r)
      BY <2>1
    <3> HIDE DEF u, v
    <3>3. Apply(u, r).Data[k] = Apply(v, r).Data[k]
      BY <2>1, <3>1, ApplyLocal
    <3> QED
      BY <3>2, <3>3
  <2> QED
    BY <1>3, <2>4
<1> QED
  BY <1>2, <1>3

\* The call of the record r succeeds on the state c: what is durable goes from d to e
\* and the records in doubt from D to E.
Acknowledges(r, c, d, D, e, E) ==
    /\ \A k \in Key \ {r.Key} : e.Data[k] = d.Data[k]
    /\ \A x \in D : x.Key # r.Key => x \in E
    /\ r.Op = "set" => /\ e.Data[r.Key] = r.Value
                       /\ e.MaxVersionCounter = Raise(d.MaxVersionCounter, r.Value)
    /\ r.Op # "set" => /\ e.Data[r.Key] = Nil
                       /\ e.MaxVersionCounter = d.MaxVersionCounter
                       /\ D \subseteq E
                       /\ c.Data[r.Key] # Nil
                       /\ CompareVersion(c.Data[r.Key].Version, r.Version) = 0

\* What the replay of a log of which this record is the last makes of one key.
KeyAcked(p, r, c, B, e, E, k) ==
    /\ \A s \in B : Explained(e, E, k, Replay(s, p)[Len(p)].Data[k])
    /\ \A s \in Snapshot : \/ Replay(s, p)[Len(p)].Data[k] = s.Data[k]
                           \/ Explained(e, E, k, Replay(s, p)[Len(p)].Data[k])
    /\ Explained(Apply(c, r), E, k, Replay(Apply(c, r), p)[Len(p)].Data[k])
    /\ Replay(Apply(c, r), p)[Len(p)].Data[k] = Replay(c, p)[Len(p)].Data[k]

LEMMA LastSteps ==
    ASSUME NEW p \in Seq(Frame), p # <<>>
    PROVE  /\ Len(p) \in Nat \ {0} /\ Len(p) - 1 \in 0 .. Len(p) /\ Len(p) \in 0 .. Len(p)
           /\ p[Len(p)].Record \in Record
           /\ \A s : Replay(s, p)[Len(p)] = Apply(Replay(s, p)[Len(p) - 1], p[Len(p)].Record)
           /\ \A s \in Snapshot : /\ Replay(s, p)[Len(p) - 1] \in Snapshot
                                  /\ Replay(s, p)[Len(p)] \in Snapshot
<1>1. /\ Len(p) \in Nat \ {0} /\ Len(p) - 1 \in 0 .. Len(p) /\ Len(p) \in 0 .. Len(p)
      /\ p[Len(p)].Record \in Record
      /\ \A s : Replay(s, p)[Len(p)] = Apply(Replay(s, p)[Len(p) - 1], p[Len(p)].Record)
  BY LastApplied
<1> QED
  BY <1>1, ReplayType

\* Another key than the record's.
LEMMA OtherKeyAcked ==
    ASSUME NEW p \in Seq(Frame), p # <<>>, NEW r \in Record,
           NEW c \in Snapshot, NEW B \in SUBSET Snapshot, NEW d, NEW D, NEW e, NEW E,
           Acknowledges(r, c, d, D, e, E),
           Restores(B, d, D \cup {r}, p, Len(p)),
           NEW k \in Key, k # r.Key,
           Explained(c, D \cup {r}, k, Replay(c, p)[Len(p)].Data[k])
    PROVE  KeyAcked(p, r, c, B, e, E, k)
<1> DEFINE y(s) == Replay(s, p)[Len(p)].Data[k]
           a == Apply(c, r)
<1>1. e.Data[k] = d.Data[k] /\ \A x \in D \cup {r} : x.Key = k => x \in E
  BY DEF Acknowledges
<1>2. a \in Snapshot /\ a.Data[k] = c.Data[k]
  BY ApplyKey
<1>3. \A v : /\ Explained(d, D \cup {r}, k, v) => Explained(e, E, k, v)
             /\ Explained(c, D \cup {r}, k, v) => Explained(a, E, k, v)
  <2> HIDE DEF a
  <2> QED
    BY <1>1, <1>2 DEF Explained
<1>4. y(a) = y(c)
  <2>1. Len(p) \in 0 .. Len(p)
    BY LastSteps
  <2> HIDE DEF a
  <2> QED
    BY <1>2, <2>1, ReplayLocal
<1>5. /\ \A s \in B : Explained(d, D \cup {r}, k, y(s))
      /\ \A s \in Snapshot : y(s) = s.Data[k] \/ Explained(d, D \cup {r}, k, y(s))
  BY DEF Restores
<1>6. Explained(c, D \cup {r}, k, y(c))
  OBVIOUS
<1>7. /\ \A s \in B : Explained(e, E, k, y(s))
      /\ \A s \in Snapshot : y(s) = s.Data[k] \/ Explained(e, E, k, y(s))
      /\ Explained(a, E, k, y(a))
      /\ y(a) = y(c)
  <2> HIDE DEF a, y
  <2> QED
    BY <1>3, <1>4, <1>5, <1>6
<1> QED
  BY <1>7 DEF KeyAcked

\* The key of a value set.
LEMMA SetKeyAcked ==
    ASSUME NEW p \in Seq(Frame), p # <<>>, NEW r \in Record, p[Len(p)].Record = r,
           NEW c \in Snapshot, NEW B \in SUBSET Snapshot, NEW d, NEW D, NEW e, NEW E,
           Acknowledges(r, c, d, D, e, E), r.Op = "set"
    PROVE  KeyAcked(p, r, c, B, e, E, r.Key)
<1> DEFINE y(s) == Replay(s, p)[Len(p)].Data[r.Key]
           a == Apply(c, r)
<1>1. \A s \in Snapshot : y(s) = r.Value
  <2> SUFFICES ASSUME NEW s \in Snapshot
               PROVE  y(s) = r.Value
    OBVIOUS
  <2> DEFINE t == Replay(s, p)[Len(p) - 1]
  <2>1. t \in Snapshot /\ Replay(s, p)[Len(p)] = Apply(t, r)
    BY LastSteps
  <2> HIDE DEF t
  <2> QED
    BY <2>1, ApplyKey
<1>2. a \in Snapshot /\ a.Data[r.Key] = r.Value
  BY ApplyKey
<1>3. e.Data[r.Key] = r.Value
  BY DEF Acknowledges
<1>4. /\ \A s \in Snapshot : Explained(e, E, r.Key, y(s))
      /\ Explained(a, E, r.Key, y(a))
      /\ y(a) = y(c)
  <2> HIDE DEF a, y
  <2> QED
    BY <1>1, <1>2, <1>3 DEF Explained
<1> QED
  BY <1>4 DEF KeyAcked

\* The key of a record deleted.
LEMMA DeletedKeyAcked ==
    ASSUME NEW p \in Seq(Frame), p # <<>>, NEW r \in Record, p[Len(p)].Record = r,
           NEW c \in Snapshot, NEW B \in SUBSET Snapshot, NEW d, NEW D, NEW e, NEW E,
           Acknowledges(r, c, d, D, e, E), r.Op # "set",
           Explained(c, D \cup {r}, r.Key, Replay(c, p)[Len(p) - 1].Data[r.Key]),
           \A s \in B : Replay(s, p)[Len(p) - 1].Data[r.Key]
                          = Replay(c, p)[Len(p) - 1].Data[r.Key]
    PROVE  KeyAcked(p, r, c, B, e, E, r.Key)
<1> DEFINE k == r.Key
           x(s) == Replay(s, p)[Len(p) - 1].Data[k]
           y(s) == Replay(s, p)[Len(p)].Data[k]
           a == Apply(c, r)
           Del(v) == IF v # Nil /\ CompareVersion(v.Version, r.Version) = 0 THEN Nil ELSE v
<1>0. k \in Key
  BY DEF Record
<1>1. \A s \in Snapshot : y(s) = Del(x(s))
  <2> SUFFICES ASSUME NEW s \in Snapshot
               PROVE  y(s) = Del(x(s))
    OBVIOUS
  <2> DEFINE t == Replay(s, p)[Len(p) - 1]
  <2>1. t \in Snapshot /\ Replay(s, p)[Len(p)] = Apply(t, r)
    BY LastSteps
  <2>2. x(s) = t.Data[k]
    OBVIOUS
  <2> HIDE DEF t
  <2>3. y(s) = Del(t.Data[k])
    BY <2>1, ApplyKey
  <2> QED
    BY <2>2, <2>3
<1>2. Del(c.Data[k]) = Nil /\ Del(Nil) = Nil /\ e.Data[k] = Nil /\ D \subseteq E
  BY DEF Acknowledges
<1>3. a \in Snapshot /\ a.Data[k] = Nil
  <2>1. c.Data[k] # Nil /\ CompareVersion(c.Data[k].Version, r.Version) = 0
    BY DEF Acknowledges
  <2> QED
    BY <2>1, ApplyKey
<1>4. \A v : Del(v) \in {Nil, v}
  OBVIOUS
<1>5. Effect(r) = Nil
  BY DEF Effect
<1>6. Explained(c, D \cup {r}, k, x(c)) /\ \A s \in B : x(s) = x(c)
  OBVIOUS
<1>7. \/ \A s \in Snapshot : x(s) = x(c)
      \/ \A s \in Snapshot : x(s) \in {Nil, s.Data[k]}
  <2>1. Len(p) - 1 \in 0 .. Len(p)
    BY LastSteps
  <2>2. CASE KeyFixed(p, Len(p) - 1, k)
    BY <2>2 DEF KeyFixed
  <2>3. CASE KeyRemoved(p, Len(p) - 1, k)
    BY <2>3 DEF KeyRemoved
  <2> QED
    BY <1>0, <2>1, <2>2, <2>3, ReplayKey
<1> HIDE DEF k, x, y, a, Del
<1>8. Del(x(c)) = Nil \/ \E z \in E : z.Key = k /\ Del(x(c)) = Effect(z)
  <2>1. CASE x(c) = c.Data[k]
    BY <1>2, <2>1
  <2>2. CASE \E z \in D \cup {r} : z.Key = k /\ x(c) = Effect(z)
    BY <1>2, <1>4, <1>5, <2>2
  <2> QED
    BY <1>6, <2>1, <2>2 DEF Explained
<1>9. \A s \in B : Explained(e, E, k, y(s))
  BY <1>1, <1>2, <1>6, <1>8 DEF Explained
<1>10. ASSUME NEW s \in Snapshot
       PROVE  y(s) = s.Data[k] \/ Explained(e, E, k, y(s))
  <2>1. CASE x(s) = x(c)
    BY <1>1, <1>2, <1>8, <2>1 DEF Explained
  <2>2. CASE x(s) \in {Nil, s.Data[k]}
    <3>1. y(s) \in {Nil, s.Data[k]}
      BY <1>1, <1>2, <1>4, <2>2
    <3> QED
      BY <1>2, <3>1 DEF Explained
  <2> QED
    BY <1>7, <2>1, <2>2
<1>11. y(a) = y(c) /\ Explained(a, E, k, y(a))
  <2>1. y(c) = Del(x(c)) /\ y(a) = Del(x(a))
    BY <1>1, <1>3
  <2>2. CASE x(a) = x(c)
    BY <1>3, <1>8, <2>1, <2>2 DEF Explained
  <2>3. CASE x(a) = Nil /\ x(c) \in {Nil, c.Data[k]}
    <3>1. y(a) = Nil /\ y(c) = Nil
      BY <1>2, <2>1, <2>3
    <3> QED
      BY <1>3, <3>1 DEF Explained
  <2> QED
    BY <1>3, <1>7, <2>2, <2>3
<1> QED
  BY <1>9, <1>10, <1>11 DEF KeyAcked, k, y, a

\* A log whose last call has succeeded restores, repeats and agrees as before.
LEMMA AckedRestores ==
    ASSUME NEW p \in Seq(Frame), p # <<>>, NEW r \in Record,
           p[Len(p)].Record = r, p[Len(p)].Form = "whole",
           NEW c \in Snapshot, NEW B \in SUBSET Snapshot,
           NEW d \in Snapshot, NEW D, NEW e \in Snapshot, NEW E,
           Acknowledges(r, c, d, D, e, E),
           AlwaysRestores(B, d, D \cup {r}, p),
           Repeats(c, D \cup {r}, p, Len(p) - 1),
           Agree(B \cup {c}, p, Len(p) - 1)
    PROVE  /\ AlwaysRestores(B, e, E, p)
           /\ Repeats(Apply(c, r), E, p, Len(p))
           /\ Agree(B \cup {Apply(c, r)}, p, Len(p))
<1> DEFINE L == Len(p)
           a == Apply(c, r)
<1>1. L \in Nat \ {0} /\ L - 1 \in 0 .. L /\ L \in 0 .. L
  BY LastSteps
<1>2. ASSUME NEW m \in 0 .. L, MayRemain(p, L, m)
      PROVE  /\ m = L
             /\ MayRemain(p, L, L) /\ MayRemain(p, L - 1, L) /\ MayRemain(p, L - 1, L - 1)
  <2> HIDE DEF L
  <2>1. p[L].Form = "whole"
    BY DEF L
  <2>2. m = L /\ \A i \in 1 .. L : p[i].Form = "whole"
    BY <1>1, <1>2, <2>1 DEF MayRemain
  <2> QED
    BY <1>1, <2>2 DEF MayRemain, L
<1>3. ASSUME MayRemain(p, L, L), NEW k \in Key
      PROVE  KeyAcked(p, r, c, B, e, E, k)
  <2>1. MayRemain(p, L - 1, L) /\ MayRemain(p, L - 1, L - 1)
    BY <1>1, <1>2, <1>3
  <2>2. Restores(B, d, D \cup {r}, p, L)
    BY <1>1, <1>3 DEF AlwaysRestores
  <2>3. /\ Explained(c, D \cup {r}, k, Replay(c, p)[L].Data[k])
        /\ Explained(c, D \cup {r}, k, Replay(c, p)[L - 1].Data[k])
    BY <1>1, <2>1 DEF Repeats
  <2>4. \A s \in B : Replay(s, p)[L - 1].Data[k] = Replay(c, p)[L - 1].Data[k]
    BY <1>1, <2>1 DEF Agree
  <2>5. CASE k # r.Key
    BY <2>2, <2>3, <2>5, OtherKeyAcked
  <2>6. CASE k = r.Key /\ r.Op = "set"
    BY <2>6, SetKeyAcked
  <2>7. CASE k = r.Key /\ r.Op # "set"
    BY <2>3, <2>4, <2>7, DeletedKeyAcked
  <2> QED
    BY <2>5, <2>6, <2>7
<1>4. ASSUME MayRemain(p, L, L), NEW s \in B
      PROVE  Replay(s, p)[L].MaxVersionCounter >= e.MaxVersionCounter
  <2> DEFINE t == Replay(s, p)[L - 1]
             u == Replay(s, p)[L]
  <2>1. t \in Snapshot /\ u \in Snapshot /\ u = Apply(t, r)
    BY LastSteps
  <2>2. u.MaxVersionCounter >= d.MaxVersionCounter
    BY <1>1, <1>4 DEF AlwaysRestores, Restores
  <2> HIDE DEF t, u
  <2>3. t.MaxVersionCounter \in Nat /\ u.MaxVersionCounter \in Nat /\ d.MaxVersionCounter \in Nat
    BY <2>1 DEF Snapshot
  <2>4. r.Op = "set" => u.MaxVersionCounter >= e.MaxVersionCounter
    <3> DEFINE n == r.Value.Version.Counter
               x == t.MaxVersionCounter
               y == d.MaxVersionCounter
    <3> SUFFICES ASSUME r.Op = "set"
                 PROVE  u.MaxVersionCounter >= e.MaxVersionCounter
      OBVIOUS
    <3>1. /\ u.MaxVersionCounter = IF n > x THEN n ELSE x
          /\ e.MaxVersionCounter = IF n > y THEN n ELSE y
      BY <2>1, ApplyKey DEF Acknowledges, Raise
    <3>2. n \in Nat
      BY DEF Record, Value, Version
    <3>3. x \in Nat /\ y \in Nat /\ u.MaxVersionCounter >= y
      BY <2>2, <2>3
    <3> HIDE DEF n, x, y
    <3> QED
      BY <3>1, <3>2, <3>3
  <2>5. r.Op # "set" => u.MaxVersionCounter >= e.MaxVersionCounter
    BY <2>2 DEF Acknowledges
  <2>6. u.MaxVersionCounter >= e.MaxVersionCounter
    BY <2>4, <2>5
  <2> QED
    BY <2>6 DEF u
<1>5. AlwaysRestores(B, e, E, p)
  <2> SUFFICES ASSUME NEW m \in 0 .. L, MayRemain(p, L, m)
               PROVE  Restores(B, e, E, p, m)
    BY DEF AlwaysRestores
  <2>1. m = L /\ MayRemain(p, L, L)
    BY <1>2
  <2>2. \A k \in Key : KeyAcked(p, r, c, B, e, E, k)
    BY <1>3, <2>1
  <2> QED
    BY <1>4, <2>1, <2>2 DEF Restores, KeyAcked
<1>6. Repeats(a, E, p, L)
  <2> SUFFICES ASSUME NEW m \in 0 .. L, MayRemain(p, L, m), NEW k \in Key
               PROVE  Explained(a, E, k, Replay(a, p)[m].Data[k])
    BY DEF Repeats
  <2>1. m = L /\ KeyAcked(p, r, c, B, e, E, k)
    BY <1>2, <1>3
  <2> QED
    BY <2>1 DEF KeyAcked
<1>7. Agree(B \cup {a}, p, L)
  <2> SUFFICES ASSUME NEW m \in 0 .. L, MayRemain(p, L, m), NEW k \in Key
               PROVE  \A s \in B \cup {a}, t \in B \cup {a} :
                         Replay(s, p)[m].Data[k] = Replay(t, p)[m].Data[k]
    BY DEF Agree
  <2>1. m = L /\ MayRemain(p, L - 1, L) /\ KeyAcked(p, r, c, B, e, E, k)
    BY <1>2, <1>3
  <2>2. \A s \in B : Replay(s, p)[L].Data[k] = Replay(c, p)[L].Data[k]
    BY <1>1, <2>1 DEF Agree
  <2>3. Replay(a, p)[L].Data[k] = Replay(c, p)[L].Data[k]
    BY <2>1 DEF KeyAcked
  <2> HIDE DEF a, L
  <2>4. \A s \in B \cup {a} : Replay(s, p)[L].Data[k] = Replay(c, p)[L].Data[k]
    BY <2>2, <2>3
  <2> QED
    BY <2>1, <2>4
<1> QED
  BY <1>5, <1>6, <1>7

-----------------------------------------------------------------------------
(* The steps *)

\* A frame that is cut, behind the log.
LEMMA AppendedCovers ==
    ASSUME TypeOK, NEW record \in Record, NEW form \in {"bare", "partial"}
    PROVE  /\ Appended(record, form).Frames \in Seq(Frame)
           /\ Len(Appended(record, form).Frames) = Len(file.Frames) + 1
           /\ Covers(file.Frames, Len(file.Frames), Appended(record, form).Frames,
                     Len(file.Frames))
           /\ Covers(file.Frames, Len(file.Frames), Appended(record, form).Frames,
                     Len(Appended(record, form).Frames))
<1> DEFINE p == file.Frames
           q == Appended(record, form).Frames
<1>1. p \in Seq(Frame) /\ file \in Log
  BY FileTyped
<1>2. /\ q \in Seq(Frame) /\ Len(q) = Len(p) + 1
      /\ \A i \in 1 .. Len(p) : q[i] = p[i]
      /\ q[Len(p) + 1] = [Record |-> record, Form |-> form]
  <2> DEFINE log == Appended(record, form)
  <2>0. form \in {"whole", "bare", "partial"}
    OBVIOUS
  <2>1. /\ log \in Log
        /\ Len(log.Frames) = Len(p) + 1
        /\ \A i \in 1 .. Len(p) : log.Frames[i] = p[i]
        /\ log.Frames[Len(p) + 1] = [Record |-> record, Form |-> form]
    BY <1>1, <2>0, AppendedOf
  <2>2. q = log.Frames
    OBVIOUS
  <2> HIDE DEF log, p
  <2>3. log.Frames \in Seq(Frame)
    BY <2>1, LogOf
  <2> QED
    BY <2>1, <2>2, <2>3
<1> HIDE DEF p, q
<1>3. q[Len(q)].Form # "whole"
  BY <1>2
<1> QED
  BY <1>1, <1>2, <1>3, CoversCut DEF p, q

LEMMA BeginAppendRestores ==
    ASSUME TypeInv, RestoreInv, NEW record \in Record, BeginAppend(record)
    PROVE  RestoreInv'
<1> DEFINE p == file.Frames
           log == Appended(record, "bare")
           part == Appended(record, "partial")
<1>1. TypeOK /\ p \in Seq(Frame) /\ file \in disk
  BY FileTyped DEF TypeInv, TypeOK
<1>2. /\ log.Frames \in Seq(Frame) /\ Len(log.Frames) = Len(p) + 1
      /\ Covers(p, Len(p), log.Frames, Len(p))
      /\ Covers(p, Len(p), log.Frames, Len(log.Frames))
  BY <1>1, AppendedCovers
<1>3. /\ part.Frames \in Seq(Frame)
      /\ Covers(p, Len(p), part.Frames, Len(part.Frames))
  BY <1>1, AppendedCovers
<1>4. file' = log /\ disk' = disk \cup {log, part}
  BY DEF BeginAppend
<1> HIDE DEF log, part
<1>5. op = Nil /\ op' # Nil /\ op' = record
  BY <1>1, NoRecordAssumption DEF BeginAppend, TypeOK
<1>6. /\ InDoubt \subseteq InDoubt' /\ Ended = Len(p) /\ Ended' = Len(p)
      /\ Current' = Current /\ Bases' = Bases
      /\ durable' = durable /\ diskSnapshot' = diskSnapshot
      /\ status' = status /\ data' = data /\ maxVersionCounter' = maxVersionCounter
  BY <1>1, <1>2, <1>4, <1>5 DEF BeginAppend, InDoubt, Ended, Current, Bases
<1>7. LogsRestore'
  <2>1. \A l \in disk : AlwaysRestores(diskSnapshot, durable, InDoubt, l.Frames)
    BY DEF RestoreInv, LogsRestore
  <2>2. \A l \in disk : l.Frames \in Seq(Frame)
    BY <1>1, FileTyped
  <2>3. \A l \in disk : AlwaysRestores(diskSnapshot, durable, InDoubt', l.Frames)
    BY <1>6, <2>1, <2>2, SameRestores
  <2>4. \A l \in {log, part} : AlwaysRestores(diskSnapshot, durable, InDoubt', l.Frames)
    BY <1>1, <1>2, <1>3, <1>6, <2>1, CoversRestores
  <2> QED
    BY <1>4, <1>6, <2>3, <2>4 DEF LogsRestore
<1>8. CurrentRestores'
  BY <1>6 DEF RestoreInv, CurrentRestores, Explained
<1>9. FileRepeats'
  <2>1. status = "up" => Repeats(Current, InDoubt, p, Len(p))
    BY <1>6 DEF RestoreInv, FileRepeats
  <2>2. status = "up" => Repeats(Current, InDoubt', log.Frames, Len(p))
    BY <1>1, <1>2, <1>6, <2>1, CoversRepeats
  <2> QED
    BY <1>4, <1>6, <2>2 DEF FileRepeats
<1>10. BasesAgree'
  <2>1. Agree(Bases, p, Len(p))
    BY <1>6 DEF RestoreInv, BasesAgree
  <2>2. Agree(Bases, log.Frames, Len(p))
    BY <1>1, <1>2, <2>1, CoversAgree
  <2> QED
    BY <1>4, <1>6, <2>2 DEF BasesAgree
<1> QED
  BY <1>7, <1>8, <1>9, <1>10 DEF RestoreInv

LEMMA WritePayloadRestores ==
    ASSUME TypeInv, RestoreInv, WritePayload
    PROVE  RestoreInv'
<1> DEFINE p == file.Frames
           L == Len(p)
           log == LastFrame("whole")
           q == log.Frames
           f == [file EXCEPT !.Frames = Front(@)]
           D == doubt \cup {op}
<1>1. /\ TypeOK /\ p \in Seq(Frame) /\ p # <<>> /\ file \in Log /\ pc = "payload"
      /\ op \in Record /\ op # Nil /\ status = "up" /\ f \in disk
  BY CallTyped, FileTyped DEF WritePayload, TypeInv
<1>2. /\ q \in Seq(Frame) /\ q # <<>> /\ Len(q) = L
      /\ \A i \in 1 .. L - 1 : q[i] = p[i]
      /\ q[L] = [Record |-> op, Form |-> "whole"]
  <2>1. log \in Log
    BY <1>1, LastFrameOf
  <2> QED
    BY <1>1, <2>1, LastFrameOf, LogOf
<1>3. /\ f.Frames \in Seq(Frame) /\ Len(f.Frames) = L - 1
      /\ \A i \in 1 .. L - 1 : f.Frames[i] = p[i]
  <2>1. f \in Log
    BY <1>1, FrontLogOf
  <2> QED
    BY <1>1, <2>1, FrontLogOf, LogOf
<1>4. file' = log /\ disk' = disk \cup {log} /\ op' = op
  BY DEF WritePayload, Write
<1>5. /\ InDoubt = D /\ InDoubt' = D /\ Ended = L - 1 /\ Ended' = L - 1
      /\ Current' = Current /\ Bases' = Bases
      /\ durable' = durable /\ diskSnapshot' = diskSnapshot
      /\ status' = status /\ data' = data /\ maxVersionCounter' = maxVersionCounter
  BY <1>1, <1>2, <1>4 DEF WritePayload, InDoubt, Ended, Current, Bases
<1>6. /\ Bases \subseteq Snapshot /\ diskSnapshot \subseteq Snapshot /\ Current \in Snapshot
      /\ durable \in Snapshot /\ Current \in Bases
  BY <1>1, BasesTyped, CurrentType DEF Bases
<1> HIDE DEF log, f
<1>7. LogsRestore'
  <2>1. \A l \in disk : AlwaysRestores(diskSnapshot, durable, D, l.Frames)
    BY <1>5 DEF RestoreInv, LogsRestore
  <2>2. AlwaysRestores(diskSnapshot, durable, D, f.Frames)
    BY <1>1, <2>1
  <2>3. AlwaysRestores(diskSnapshot, durable, D, q)
    <3> DEFINE g == f.Frames
    <3>1. /\ g \in Seq(Frame) /\ Len(g) = Len(q) - 1
          /\ \A i \in 1 .. Len(q) - 1 : q[i] = g[i]
          /\ q[Len(q)].Form = "whole" /\ q[Len(q)].Record \in D
      BY <1>2, <1>3
    <3> HIDE DEF g, q, D
    <3> QED
      BY <1>2, <1>6, <2>2, <3>1, PayloadRestores DEF g
  <2> QED
    BY <1>4, <1>5, <2>1, <2>3 DEF LogsRestore
<1>8. CurrentRestores'
  BY <1>5 DEF RestoreInv, CurrentRestores, Explained
<1>9. q[Len(q)].Record \in D
  BY <1>2
<1>10. FileRepeats'
  <2>1. Repeats(Current, D, p, Len(p) - 1)
    BY <1>1, <1>5 DEF RestoreInv, FileRepeats
  <2> HIDE DEF q, D
  <2>2. Repeats(Current, D, q, Len(q) - 1)
    BY <1>1, <1>2, <1>6, <1>9, <2>1, PayloadRepeats
  <2> QED
    BY <1>2, <1>4, <1>5, <2>2 DEF FileRepeats, q
<1>11. BasesAgree'
  <2>1. Agree(Bases, p, Len(p) - 1)
    BY <1>5 DEF RestoreInv, BasesAgree
  <2> HIDE DEF q, D
  <2>2. Agree(Bases, q, Len(q) - 1)
    BY <1>1, <1>2, <1>6, <2>1, PayloadAgree
  <2> QED
    BY <1>2, <1>4, <1>5, <2>2 DEF BasesAgree, q
<1> QED
  BY <1>7, <1>8, <1>10, <1>11 DEF RestoreInv

LEMMA FinishAppendRestores ==
    ASSUME TypeInv, RestoreInv, FinishAppend
    PROVE  RestoreInv'
<1> DEFINE p == file.Frames
           a == Apply(Current, op)
<1>1. /\ TypeOK /\ p \in Seq(Frame) /\ p # <<>> /\ file \in disk /\ status = "up"
      /\ op \in Record /\ op # Nil
      /\ p[Len(p)] = [Record |-> op, Form |-> "whole"]
      /\ op.Op # "set" => /\ data[op.Key] # Nil
                          /\ CompareVersion(data[op.Key].Version, op.Version) = 0
  BY CallTyped, FileTyped DEF FinishAppend, TypeInv, TypeOK
<1>2. /\ Current' = a
      /\ durable' \in Snapshot
      /\ op.Op = "set" =>
           /\ durable'.Data[op.Key] = op.Value
           /\ durable'.MaxVersionCounter = Raise(durable.MaxVersionCounter, op.Value)
      /\ op.Op # "set" =>
           /\ durable'.Data[op.Key] = Nil
           /\ durable'.MaxVersionCounter = durable.MaxVersionCounter
      /\ \A k \in Key : k # op.Key => durable'.Data[k] = durable.Data[k]
  BY FinishAppendType
<1>3. /\ file' = file /\ disk' = {file} /\ op' = Nil /\ status' = "up"
      /\ diskSnapshot' = diskSnapshot
  BY DEF FinishAppend, Sync
<1>4. /\ InDoubt = doubt \cup {op} /\ InDoubt' = doubt'
      /\ Ended = Len(p) - 1 /\ Ended' = Len(p)
      /\ Bases = diskSnapshot \cup {Current} /\ Bases' = diskSnapshot \cup {a}
  BY <1>1, <1>2, <1>3 DEF InDoubt, Ended, Bases
<1>5. /\ diskSnapshot \subseteq Snapshot /\ Current \in Snapshot /\ durable \in Snapshot
      /\ Current.Data = data /\ Current.MaxVersionCounter = maxVersionCounter
      /\ op.Key \in Key
  BY <1>1, BasesTyped, CurrentType DEF Record
<1>6. Acknowledges(op, Current, durable, doubt, durable', doubt')
  <2>1. \A x \in doubt : x.Key # op.Key => x \in doubt'
    BY DEF FinishAppend
  <2>2. op.Op # "set" => doubt \subseteq doubt'
    BY DEF FinishAppend
  <2> QED
    BY <1>1, <1>2, <1>5, <2>1, <2>2 DEF Acknowledges
<1>7. /\ AlwaysRestores(diskSnapshot, durable, doubt \cup {op}, p)
      /\ Repeats(Current, doubt \cup {op}, p, Len(p) - 1)
      /\ Agree(diskSnapshot \cup {Current}, p, Len(p) - 1)
  BY <1>1, <1>4 DEF RestoreInv, LogsRestore, FileRepeats, BasesAgree
<1>8. /\ AlwaysRestores(diskSnapshot, durable', doubt', p)
      /\ Repeats(a, doubt', p, Len(p))
      /\ Agree(diskSnapshot \cup {a}, p, Len(p))
  <2>1. p[Len(p)].Record = op /\ p[Len(p)].Form = "whole"
    BY <1>1
  <2> HIDE DEF p, a
  <2> QED
    BY <1>1, <1>2, <1>5, <1>6, <1>7, <2>1, AckedRestores DEF a
<1>9. LogsRestore' /\ FileRepeats' /\ BasesAgree'
  BY <1>2, <1>3, <1>4, <1>8 DEF LogsRestore, FileRepeats, BasesAgree
<1>10. CurrentRestores'
  <2>1. /\ maxVersionCounter >= durable.MaxVersionCounter
        /\ \A k \in Key : Explained(durable, doubt \cup {op}, k, data[k])
    BY <1>1, <1>4 DEF RestoreInv, CurrentRestores
  <2>2. maxVersionCounter' >= durable'.MaxVersionCounter
    <3>1. maxVersionCounter \in Nat /\ durable.MaxVersionCounter \in Nat
      BY <1>5 DEF Snapshot
    <3>2. CASE op.Op = "set"
      <4> DEFINE n == op.Value.Version.Counter
      <4>1. n \in Nat
        BY <1>1, <3>2 DEF Record, Value, Version
      <4>2. /\ maxVersionCounter' = IF n > maxVersionCounter THEN n ELSE maxVersionCounter
            /\ durable'.MaxVersionCounter =
                 IF n > durable.MaxVersionCounter THEN n ELSE durable.MaxVersionCounter
        BY <1>2, <3>2 DEF FinishAppend, Raise
      <4> HIDE DEF n
      <4> QED
        BY <2>1, <3>1, <4>1, <4>2
    <3>3. CASE op.Op # "set"
      <4>1. maxVersionCounter' = maxVersionCounter
        BY <3>3 DEF FinishAppend
      <4> QED
        BY <1>2, <2>1, <3>3, <4>1
    <3> QED
      BY <3>2, <3>3
  <2>3. ASSUME NEW k \in Key
        PROVE  Explained(durable', doubt', k, data'[k])
    <3>1. data \in [Key -> MaybeValue]
      BY <1>1 DEF TypeOK, Map
    <3>2. CASE k = op.Key
      <4>1. op.Op = "set" => data'[k] = op.Value
        BY <1>5, <3>1, <3>2 DEF FinishAppend
      <4>2. op.Op # "set" => data'[k] = Nil
        BY <1>5, <3>1, <3>2 DEF FinishAppend
      <4> QED
        BY <1>2, <3>2, <4>1, <4>2 DEF Explained
    <3>3. CASE k # op.Key
      <4>1. data'[k] = data[k]
        BY <1>5, <3>1, <3>3 DEF FinishAppend
      <4>2. durable'.Data[k] = durable.Data[k]
        BY <1>2, <3>3
      <4>3. \A x \in doubt \cup {op} : x.Key = k => x \in doubt'
        BY <1>6, <3>3 DEF Acknowledges
      <4> QED
        BY <2>1, <4>1, <4>2, <4>3 DEF Explained
    <3> QED
      BY <3>2, <3>3
  <2> QED
    BY <1>4, <2>2, <2>3 DEF CurrentRestores
<1> QED
  BY <1>9, <1>10 DEF RestoreInv

\* Every log that the step leaves is covered by one that was there before.
DiskCovered ==
    \A log \in disk' : \E old \in disk :
        /\ log.Frames \in Seq(Frame)
        /\ Covers(old.Frames, Len(old.Frames), log.Frames, Len(log.Frames))

LEMMA DiskRestores ==
    ASSUME TypeOK, LogsRestore, DiskCovered,
           diskSnapshot' \subseteq diskSnapshot, durable' = durable, InDoubt \subseteq InDoubt'
    PROVE  LogsRestore'
<1> SUFFICES ASSUME NEW log \in disk'
             PROVE  AlwaysRestores(diskSnapshot', durable, InDoubt', log.Frames)
  BY DEF LogsRestore
<1>1. PICK old \in disk :
         /\ log.Frames \in Seq(Frame)
         /\ Covers(old.Frames, Len(old.Frames), log.Frames, Len(log.Frames))
  BY DEF DiskCovered
<1>2. old.Frames \in Seq(Frame) /\ AlwaysRestores(diskSnapshot, durable, InDoubt, old.Frames)
  BY FileTyped DEF LogsRestore
<1> DEFINE p == old.Frames
           q == log.Frames
           D == InDoubt
           E == InDoubt'
           A == diskSnapshot'
           B == diskSnapshot
<1>3. /\ p \in Seq(Frame) /\ q \in Seq(Frame) /\ Covers(p, Len(p), q, Len(q))
      /\ A \in SUBSET B /\ D \subseteq E /\ AlwaysRestores(B, durable, D, p)
  BY <1>1, <1>2
<1> HIDE DEF p, q, D, E, A, B
<1>4. AlwaysRestores(A, durable, E, q)
  BY <1>3, CoversRestores
<1> QED
  BY <1>4 DEF q, E, A

LEMMA SameCovered ==
    ASSUME TypeOK, NEW log \in disk
    PROVE  /\ log.Frames \in Seq(Frame)
           /\ Covers(log.Frames, Len(log.Frames), log.Frames, Len(log.Frames))
BY FileTyped, CoversItself

\* A call that fails, or a process that crashes, may leave the last frame cut, and a
\* call that fails may take it away.
CutLast ==
    \/ UNCHANGED logs
    \/ pc = "payload" /\ Write([file EXCEPT !.Frames = Front(@)])
    \/ pc = "payload" /\ Write(LastFrame("partial"))

LEMMA CutCovers ==
    ASSUME TypeInv, pc \in {"payload", "sync"}, CutLast
    PROVE  /\ DiskCovered
           /\ file'.Frames \in Seq(Frame)
           /\ Covers(file.Frames, Len(file.Frames) - 1, file'.Frames, Len(file'.Frames))
<1> DEFINE p == file.Frames
           f == [file EXCEPT !.Frames = Front(@)]
           g == LastFrame("partial")
<1>1. /\ TypeOK /\ p \in Seq(Frame) /\ p # <<>> /\ Len(p) \in Nat \ {0} /\ file \in Log
      /\ op \in Record /\ file \in disk
      /\ pc = "payload" => f \in disk
  BY CallTyped, FileTyped, FrontOf DEF TypeInv, TypeOK
<1>2. /\ f.Frames \in Seq(Frame) /\ Len(f.Frames) = Len(p) - 1
      /\ \A i \in 1 .. Len(p) - 1 : f.Frames[i] = p[i]
  <2>1. /\ f \in Log /\ Len(f.Frames) = Len(p) - 1
        /\ \A i \in 1 .. Len(p) - 1 : f.Frames[i] = p[i]
    BY <1>1, FrontLogOf
  <2> HIDE DEF f, p
  <2>2. f.Frames \in Seq(Frame)
    BY <2>1, LogOf
  <2> QED
    BY <2>1, <2>2
<1>3. /\ g.Frames \in Seq(Frame) /\ Len(g.Frames) = Len(p)
      /\ \A i \in 1 .. Len(p) - 1 : g.Frames[i] = p[i]
      /\ g.Frames[Len(p)].Form # "whole"
  <2>1. /\ g \in Log /\ Len(g.Frames) = Len(p)
        /\ \A i \in 1 .. Len(p) - 1 : g.Frames[i] = p[i]
        /\ g.Frames[Len(p)] = [Record |-> op, Form |-> "partial"]
    BY <1>1, LastFrameOf
  <2> HIDE DEF g, p
  <2>2. g.Frames \in Seq(Frame)
    BY <2>1, LogOf
  <2> QED
    BY <2>1, <2>2
<1> HIDE DEF f, g
<1>4. /\ Covers(p, Len(p) - 1, p, Len(p))
      /\ Covers(p, Len(p) - 1, f.Frames, Len(f.Frames))
      /\ Covers(p, Len(p) - 1, g.Frames, Len(g.Frames))
  <2> DEFINE F == f.Frames
             G == g.Frames
  <2>1. /\ F \in Seq(Frame) /\ Len(F) = Len(p) - 1 /\ \A i \in 1 .. Len(p) - 1 : F[i] = p[i]
        /\ G \in Seq(Frame) /\ Len(G) = Len(p) /\ \A i \in 1 .. Len(p) - 1 : G[i] = p[i]
        /\ G[Len(p)].Form # "whole"
    BY <1>2, <1>3
  <2> HIDE DEF F, G, p
  <2>2. Covers(p, Len(p) - 1, p, Len(p))
    BY <1>1, CoversLast
  <2>3. Covers(p, Len(p) - 1, F, Len(F))
    BY <1>1, <2>1, CoversLast
  <2>4. Covers(p, Len(p) - 1, G, Len(G))
    BY <1>1, <2>1, CoversLast
  <2> QED
    BY <2>2, <2>3, <2>4 DEF F, G
<1>5. Covers(f.Frames, Len(f.Frames), g.Frames, Len(g.Frames))
  <2> DEFINE F == f.Frames
             G == g.Frames
  <2>1. /\ F \in Seq(Frame) /\ G \in Seq(Frame) /\ Len(G) = Len(F) + 1
        /\ \A i \in 1 .. Len(F) : G[i] = F[i]
        /\ G[Len(G)].Form # "whole"
    BY <1>1, <1>2, <1>3
  <2> HIDE DEF F, G
  <2>2. Covers(F, Len(F), G, Len(G))
    BY <2>1, CoversCut
  <2> QED
    BY <2>2 DEF F, G
<1>6. \/ file' = file /\ disk' = disk
      \/ pc = "payload" /\ file' = f /\ disk' = disk \cup {f}
      \/ pc = "payload" /\ file' = g /\ disk' = disk \cup {g}
  BY DEF CutLast, Write, f, g
<1>7. \A log \in disk : /\ log.Frames \in Seq(Frame)
                        /\ Covers(log.Frames, Len(log.Frames), log.Frames, Len(log.Frames))
  BY <1>1, SameCovered
<1> HIDE DEF p
<1>8. DiskCovered
  BY <1>1, <1>3, <1>5, <1>6, <1>7 DEF DiskCovered
<1>9. file'.Frames \in Seq(Frame) /\ Covers(p, Len(p) - 1, file'.Frames, Len(file'.Frames))
  BY <1>1, <1>2, <1>3, <1>4, <1>6 DEF p
<1> QED
  BY <1>8, <1>9 DEF p

LEMMA AppendErrorRestores ==
    ASSUME TypeInv, RestoreInv, AppendError
    PROVE  RestoreInv'
<1> DEFINE p == file.Frames
           q == file'.Frames
<1>1. /\ TypeOK /\ p \in Seq(Frame) /\ status = "up" /\ pc \in {"payload", "sync"}
      /\ op # Nil
  BY CallTyped, FileTyped DEF AppendError, TypeInv
<1>2. DiskCovered /\ q \in Seq(Frame) /\ Covers(p, Len(p) - 1, q, Len(q))
  <2>1. CutLast
    BY DEF AppendError, CutLast
  <2> QED
    BY <1>1, <2>1, CutCovers
<1>3. /\ InDoubt' = InDoubt /\ Ended = Len(p) - 1 /\ Ended' = Len(q)
      /\ Current' = Current /\ Bases' = Bases
      /\ durable' = durable /\ diskSnapshot' = diskSnapshot
      /\ status' = status /\ data' = data /\ maxVersionCounter' = maxVersionCounter
  BY <1>1 DEF AppendError, InDoubt, Ended, Current, Bases
<1>4. LogsRestore'
  BY <1>1, <1>2, <1>3, DiskRestores DEF RestoreInv
<1>5. CurrentRestores'
  BY <1>3 DEF RestoreInv, CurrentRestores
<1>6. FileRepeats'
  <2>1. Repeats(Current, InDoubt, p, Len(p) - 1)
    BY <1>1, <1>3 DEF RestoreInv, FileRepeats
  <2> HIDE DEF p, q
  <2>2. Repeats(Current, InDoubt, q, Len(q))
    BY <1>1, <1>2, <2>1, CoversRepeats
  <2> QED
    BY <1>3, <2>2 DEF FileRepeats, q
<1>7. BasesAgree'
  <2>1. Agree(Bases, p, Len(p) - 1)
    BY <1>3 DEF RestoreInv, BasesAgree
  <2> HIDE DEF p, q
  <2>2. Agree(Bases, q, Len(q))
    BY <1>1, <1>2, <2>1, CoversAgree
  <2> QED
    BY <1>3, <2>2 DEF BasesAgree, q
<1> QED
  BY <1>4, <1>5, <1>6, <1>7 DEF RestoreInv

\* The store down: nothing in memory is left to restore.
LEMMA DownRestores ==
    ASSUME TypeOK, LogsRestore, DiskCovered, status' # "up",
           diskSnapshot' \subseteq diskSnapshot, durable' = durable, InDoubt \subseteq InDoubt',
           Agree(diskSnapshot', file'.Frames, Ended')
    PROVE  RestoreInv'
<1>1. LogsRestore'
  BY DiskRestores
<1>2. CurrentRestores' /\ FileRepeats'
  BY DEF CurrentRestores, FileRepeats
<1>3. BasesAgree'
  <2>1. Bases' = diskSnapshot'
    BY DEF Bases
  <2> QED
    BY <2>1 DEF BasesAgree
<1> QED
  BY <1>1, <1>2, <1>3 DEF RestoreInv

LEMMA CrashDoubts ==
    ASSUME Crash
    PROVE  /\ InDoubt \subseteq InDoubt' /\ Ended' = Len(file'.Frames)
           /\ status' # "up" /\ durable' = durable
BY DEF Crash, InDoubt, Ended

LEMMA ProcessCrashRestores ==
    ASSUME TypeInv, RestoreInv, ProcessCrash
    PROVE  RestoreInv'
<1> DEFINE p == file.Frames
           q == file'.Frames
<1>1. /\ TypeOK /\ p \in Seq(Frame) /\ diskSnapshot' = diskSnapshot
      /\ InDoubt \subseteq InDoubt' /\ Ended' = Len(q)
      /\ status' # "up" /\ durable' = durable
  BY FileTyped, CrashDoubts DEF ProcessCrash, TypeInv
<1>2. DiskCovered /\ q \in Seq(Frame) /\ Covers(p, Ended, q, Len(q))
  <2>1. CASE op = Nil
    <3>1. UNCHANGED logs /\ Ended = Len(p)
      BY <1>1, <2>1 DEF ProcessCrash, TypeOK, Ended
    <3> QED
      BY <1>1, <3>1, SameCovered, CoversItself DEF DiskCovered
  <2>2. CASE op # Nil
    <3>1. pc \in {"payload", "sync"} /\ CutLast /\ Ended = Len(p) - 1
      BY <1>1, <2>2 DEF ProcessCrash, TypeOK, CutLast, Ended
    <3> QED
      BY <3>1, CutCovers
  <2> QED
    BY <2>1, <2>2
<1>3. Agree(diskSnapshot', q, Len(q))
  <2>1. Agree(Bases, p, Ended) /\ diskSnapshot \in SUBSET Bases
    BY DEF RestoreInv, BasesAgree, Bases
  <2> HIDE DEF p, q
  <2> QED
    BY <1>1, <1>2, <2>1, CoversAgree
<1> QED
  BY <1>1, <1>2, <1>3, DownRestores DEF RestoreInv

LEMMA MachineCrashRestores ==
    ASSUME TypeInv, RestoreInv, MachineCrash
    PROVE  RestoreInv'
<1>1. /\ TypeOK /\ Crash /\ disk' \subseteq disk /\ diskSnapshot' = {snapshot'}
      /\ snapshot' \in diskSnapshot
  BY DEF MachineCrash, TypeInv
<1>2. DiskCovered
  BY <1>1, SameCovered DEF DiskCovered
<1>3. Agree(diskSnapshot', file'.Frames, Ended')
  BY <1>1 DEF Agree
<1> QED
  BY <1>1, <1>2, <1>3, CrashDoubts, DownRestores DEF RestoreInv

\* While the store is down, all calls have ended.
LEMMA DownEnded ==
    ASSUME TypeInv, status # "up"
    PROVE  /\ TypeOK /\ op = Nil /\ Ended = Len(file.Frames) /\ InDoubt = doubt
           /\ Bases = diskSnapshot
           /\ file.Frames \in Seq(Frame) /\ file \in disk
BY FileTyped DEF TypeInv, TypeOK, CallHeld, Ended, InDoubt, Bases

LEMMA CrashInOpenRestores ==
    ASSUME TypeInv, RestoreInv, CrashInOpen
    PROVE  RestoreInv'
<1>1. /\ TypeOK /\ Ended = Len(file.Frames) /\ Bases = diskSnapshot
      /\ file \in Log /\ file \in disk
  BY DownEnded, FileTyped DEF CrashInOpen
<1>2. \A h \in {"torn", "ok"} : [file EXCEPT !.Header = h].Frames = file.Frames
  BY <1>1, LogOf
<1>3. /\ file'.Frames = file.Frames
      /\ \A log \in disk' : log \in disk \/ log.Frames = file.Frames
  BY <1>2 DEF CrashInOpen, Headed
<1>4. DiskCovered
  BY <1>1, <1>3, SameCovered DEF DiskCovered
<1>5. Agree(diskSnapshot', file'.Frames, Ended')
  BY <1>1, <1>3, CrashDoubts DEF RestoreInv, BasesAgree, CrashInOpen
<1> QED
  BY <1>1, <1>4, <1>5, CrashDoubts, DownRestores DEF RestoreInv, CrashInOpen

\* What a start makes out of a readable log may remain of it.
LEMMA ReadableRemains ==
    ASSUME TypeOK, Readable
    PROVE  MayRemain(file.Frames, Len(file.Frames), ValidFrames)
<1> DEFINE L == Len(file.Frames)
           n == ValidFrames
<1>1. /\ file \in Log /\ L \in Nat /\ n \in 0 .. L
      /\ \A i \in 1 .. n : file.Frames[i].Form = "whole"
      /\ file.Header = "ok" /\ n < L => file.Frames[n + 1].Form # "whole"
  BY FileTyped, ValidFramesOf
<1>2. L <= n + 1 /\ (file.Header = "ok" \/ L = 0)
  BY EmptyTyped DEF Readable
<1> HIDE DEF n, L
<1>3. n >= L \/ (n = L - 1 /\ file.Frames[L].Form # "whole")
  <2>1. CASE n < L
    <3>1. n = L - 1 /\ L = n + 1 /\ file.Header = "ok"
      BY <1>1, <1>2, <2>1
    <3> QED
      BY <1>1, <2>1, <3>1
  <2> QED
    BY <1>1, <2>1
<1> QED
  BY <1>1, <1>3 DEF MayRemain, n, L

\* Only one number of frames may remain when all calls have ended.
LEMMA RemainsOnce ==
    ASSUME NEW p \in Seq(Frame), NEW m, NEW n,
           MayRemain(p, Len(p), m), MayRemain(p, Len(p), n)
    PROVE  m = n
<1> DEFINE L == Len(p)
<1>1. L \in Nat /\ m \in 0 .. L /\ n \in 0 .. L
  BY DEF MayRemain
<1>2. /\ \A i \in 1 .. m : p[i].Form = "whole"
      /\ \A i \in 1 .. n : p[i].Form = "whole"
      /\ m >= L \/ (m = L - 1 /\ p[L].Form # "whole")
      /\ n >= L \/ (n = L - 1 /\ p[L].Form # "whole")
  BY DEF MayRemain
<1> HIDE DEF L
<1>3. CASE m = L
  <2>1. n = L - 1 => L \in 1 .. m
    BY <1>1, <1>3
  <2> QED
    BY <1>1, <1>2, <1>3, <2>1
<1>4. CASE n = L
  <2>1. m = L - 1 => L \in 1 .. n
    BY <1>1, <1>4
  <2> QED
    BY <1>1, <1>2, <1>4, <2>1
<1> QED
  BY <1>1, <1>2, <1>3, <1>4

LEMMA TruncatedCovers ==
    ASSUME TypeOK, Readable
    PROVE  /\ Truncated.Frames \in Seq(Frame)
           /\ Covers(file.Frames, Len(file.Frames), Truncated.Frames, Len(Truncated.Frames))
<1> DEFINE p == file.Frames
           q == Truncated.Frames
<1>1. /\ p \in Seq(Frame) /\ q \in Seq(Frame)
      /\ MayRemain(p, Len(p), Len(q))
      /\ \A i \in 1 .. Len(q) : q[i] = p[i]
  <2>1. Truncated \in Log /\ Len(q) = ValidFrames /\ \A i \in 1 .. ValidFrames : q[i] = p[i]
    BY TruncatedOf
  <2>2. q \in Seq(Frame)
    BY <2>1, LogOf
  <2>3. p \in Seq(Frame) /\ MayRemain(p, Len(p), ValidFrames)
    BY FileTyped, ReadableRemains
  <2> HIDE DEF p, q
  <2> QED
    BY <2>1, <2>2, <2>3
<1> HIDE DEF p, q
<1>2. Covers(p, Len(p), q, Len(q))
  BY <1>1, CoversWhole
<1> QED
  BY <1>1, <1>2 DEF p, q

LEMMA CrashInRepairRestores ==
    ASSUME TypeInv, RestoreInv, CrashInRepair, Readable
    PROVE  RestoreInv'
<1>1. /\ TypeOK /\ Ended = Len(file.Frames) /\ Bases = diskSnapshot
      /\ file \in disk /\ file.Frames \in Seq(Frame)
      /\ file' = Truncated /\ disk' = disk \cup {Truncated} /\ diskSnapshot' = diskSnapshot
  BY DownEnded DEF CrashInRepair, Write
<1>2. /\ Truncated.Frames \in Seq(Frame)
      /\ Covers(file.Frames, Len(file.Frames), Truncated.Frames, Len(Truncated.Frames))
  BY <1>1, TruncatedCovers
<1>3. DiskCovered
  BY <1>1, <1>2, SameCovered DEF DiskCovered
<1>4. Agree(diskSnapshot', file'.Frames, Ended')
  <2>1. Agree(diskSnapshot, file.Frames, Len(file.Frames))
    BY <1>1 DEF RestoreInv, BasesAgree
  <2>2. Agree(diskSnapshot, Truncated.Frames, Len(Truncated.Frames))
    BY <1>1, <1>2, <2>1, CoversAgree
  <2>3. Ended' = Len(file'.Frames)
    BY CrashDoubts DEF CrashInRepair
  <2> QED
    BY <1>1, <2>2, <2>3
<1> QED
  BY <1>1, <1>3, <1>4, CrashDoubts, DownRestores DEF RestoreInv, CrashInRepair

\* A start restores what is durable.
LEMMA StartRestores ==
    ASSUME TypeInv, LogsRestore, Readable, status # "up"
    PROVE  /\ Replayed \in Snapshot
           /\ Replayed.MaxVersionCounter >= durable.MaxVersionCounter
           /\ \A k \in Key : Explained(durable, doubt, k, Replayed.Data[k])
<1>1. /\ TypeOK /\ InDoubt = doubt /\ file \in disk /\ snapshot \in diskSnapshot
      /\ ValidFrames \in 0 .. Len(file.Frames)
  BY DownEnded, FileTyped, ValidFramesOf DEF TypeOK
<1>2. Restores(diskSnapshot, durable, doubt, file.Frames, ValidFrames)
  BY <1>1, ReadableRemains DEF LogsRestore, AlwaysRestores
<1> QED
  BY <1>1, <1>2, ReplayedType DEF Restores, Replayed

LEMMA OpenRestores ==
    ASSUME TypeInv, RestoreInv, Readable, NEW log \in Log, Open(log),
           log = Truncated \/ log.Frames = file.Frames
    PROVE  RestoreInv'
<1> DEFINE p == file.Frames
           q == log.Frames
           n == ValidFrames
           c == Replayed
<1>1. /\ TypeOK /\ op = Nil /\ Ended = Len(p) /\ InDoubt = doubt /\ Bases = diskSnapshot
      /\ p \in Seq(Frame) /\ file \in disk /\ n \in 0 .. Len(p)
      /\ snapshot \in diskSnapshot /\ snapshot \in Snapshot
      /\ diskSnapshot \subseteq Snapshot
  BY DownEnded, FileTyped, ValidFramesOf, BasesTyped DEF Open
<1>2. /\ c \in Snapshot
      /\ c.MaxVersionCounter >= durable.MaxVersionCounter
      /\ \A k \in Key : Explained(durable, doubt, k, c.Data[k])
  BY StartRestores DEF Open, RestoreInv
<1>3. /\ file' = log /\ disk' = (IF log = file THEN disk ELSE {log}) /\ status' = "up"
      /\ diskSnapshot' = diskSnapshot /\ durable' = durable
      /\ data' = c.Data /\ maxVersionCounter' = c.MaxVersionCounter
      /\ InDoubt' = doubt /\ Ended' = Len(q)
  BY <1>1 DEF Open, InDoubt, Ended
<1>4. Current' = c
  BY <1>2, <1>3 DEF Current, Snapshot
<1>5. q \in Seq(Frame) /\ Covers(p, Len(p), q, Len(q))
  BY <1>1, LogOf, TruncatedCovers, CoversItself
<1>6. DiskCovered
  BY <1>1, <1>3, <1>5, SameCovered DEF DiskCovered
<1>7. LogsRestore'
  BY <1>1, <1>3, <1>6, DiskRestores DEF RestoreInv
<1>8. CurrentRestores'
  BY <1>2, <1>3 DEF CurrentRestores
<1>9. \A k \in Key : Replay(c, p)[n].Data[k] = c.Data[k]
  BY <1>1, ReplayTwice DEF Replayed
<1>10. ASSUME NEW m \in 0 .. Len(q), MayRemain(q, Len(q), m)
       PROVE  m = n /\ MayRemain(p, Len(p), n) /\ \A s : Replay(s, q)[m] = Replay(s, p)[n]
  <2> HIDE DEF p, q, n
  <2>1. MayRemain(p, Len(p), m) /\ \A s : Replay(s, q)[m] = Replay(s, p)[m]
    BY <1>1, <1>5, <1>10, CoversReplay
  <2>2. MayRemain(p, Len(p), n)
    BY <1>1, ReadableRemains DEF p, n
  <2>3. m = n
    BY <1>1, <2>1, <2>2, RemainsOnce
  <2> QED
    BY <2>1, <2>2, <2>3
<1>11. FileRepeats'
  <2>1. Repeats(c, doubt, q, Len(q))
    BY <1>9, <1>10 DEF Repeats, Explained
  <2> QED
    BY <1>3, <1>4, <2>1 DEF FileRepeats
<1>12. BasesAgree'
  <2>1. Agree(diskSnapshot, p, Len(p))
    BY <1>1 DEF RestoreInv, BasesAgree
  <2>2. ASSUME MayRemain(p, Len(p), n), NEW s \in diskSnapshot \cup {c}, NEW k \in Key
        PROVE  Replay(s, p)[n].Data[k] = c.Data[k]
    <3>1. CASE s = c
      BY <1>9, <3>1
    <3>2. CASE s \in diskSnapshot
      <4>1. Replay(s, p)[n].Data[k] = Replay(snapshot, p)[n].Data[k]
        BY <1>1, <2>1, <2>2, <3>2 DEF Agree
      <4> QED
        BY <4>1 DEF Replayed
    <3> QED
      BY <3>1, <3>2
  <2> HIDE DEF c
  <2>3. Agree(diskSnapshot \cup {c}, q, Len(q))
    BY <1>10, <2>2 DEF Agree
  <2>4. Bases' = diskSnapshot \cup {c}
    BY <1>3, <1>4 DEF Bases
  <2> QED
    BY <1>3, <2>3, <2>4 DEF BasesAgree
<1> QED
  BY <1>7, <1>8, <1>11, <1>12 DEF RestoreInv

\* A step between calls that leaves the map and the frames of the log as they are.
LEMMA IdleRestores ==
    ASSUME TypeInv, RestoreInv, DiskCovered,
           op = Nil, op' = Nil, file'.Frames = file.Frames, diskSnapshot' \subseteq diskSnapshot,
           UNCHANGED <<status, memory, durable, doubt>>
    PROVE  RestoreInv'
<1> DEFINE p == file.Frames
<1>1. /\ TypeOK /\ p \in Seq(Frame)
      /\ InDoubt = doubt /\ InDoubt' = doubt /\ Ended = Len(p) /\ Ended' = Len(p)
      /\ Current' = Current /\ Bases' \subseteq Bases
      /\ status' = status /\ data' = data /\ maxVersionCounter' = maxVersionCounter
  BY FileTyped DEF TypeInv, InDoubt, Ended, Current, Bases
<1>2. LogsRestore'
  BY <1>1, DiskRestores DEF RestoreInv
<1>3. CurrentRestores'
  BY <1>1 DEF RestoreInv, CurrentRestores
<1>4. FileRepeats'
  BY <1>1 DEF RestoreInv, FileRepeats
<1>5. BasesAgree'
  <2>1. Agree(Bases, p, Len(p))
    BY <1>1 DEF RestoreInv, BasesAgree
  <2>2. Agree(Bases', p, Len(p))
    <3> DEFINE A == Bases'
               B == Bases
    <3>1. A \in SUBSET B /\ Agree(B, p, Len(p))
      BY <1>1, <2>1
    <3> HIDE DEF A, B, p
    <3>2. Agree(A, p, Len(p))
      BY <1>1, <3>1, CoversAgree, CoversItself
    <3> QED
      BY <3>2 DEF A
  <2> QED
    BY <1>1, <2>2 DEF BasesAgree
<1> QED
  BY <1>2, <1>3, <1>4, <1>5 DEF RestoreInv

LEMMA IdleStepRestores ==
    ASSUME TypeInv, SnapshotHeld, RestoreInv,
           SaveSnapshot \/ SyncDir \/ WriteHeader \/ SnapshotError
    PROVE  RestoreInv'
<1>1. TypeOK /\ file \in Log /\ file \in disk /\ snapshot \in diskSnapshot
  BY FileTyped DEF TypeInv, TypeOK
<1>2. \A h \in {"empty", "torn", "ok"} : [file EXCEPT !.Header = h].Frames = file.Frames
  BY <1>1, LogOf
<1>3. \A log \in disk : log \in disk /\ log.Frames \in Seq(Frame)
        /\ Covers(log.Frames, Len(log.Frames), log.Frames, Len(log.Frames))
  BY <1>1, SameCovered
<1>4. CASE SaveSnapshot /\ op = Nil
  <2>1. DiskCovered
    BY <1>3, <1>4 DEF SaveSnapshot, DiskCovered
  <2> QED
    BY <1>4, <2>1, IdleRestores DEF SaveSnapshot
<1>5. CASE SaveSnapshot /\ op # Nil
  BY <1>5 DEF SaveSnapshot, RestoreInv, LogsRestore, CurrentRestores, FileRepeats,
              BasesAgree, InDoubt, Ended, Current, Bases
<1>6. CASE SyncDir
  <2>1. DiskCovered
    BY <1>3, <1>6 DEF SyncDir, DiskCovered
  <2>2. op = Nil
    BY <1>1, <1>6 DEF SyncDir, TypeOK
  <2> QED
    BY <1>1, <1>6, <2>1, <2>2, IdleRestores DEF SyncDir
<1>7. CASE WriteHeader
  <2>1. /\ file'.Frames = file.Frames
        /\ \A log \in disk' : log \in disk \/ log.Frames = file.Frames
    BY <1>2, <1>7 DEF WriteHeader, Headed
  <2>2. DiskCovered
    BY <1>1, <1>3, <2>1 DEF DiskCovered
  <2>3. op = Nil
    BY <1>1, <1>7 DEF WriteHeader, TypeOK
  <2> QED
    BY <1>7, <2>1, <2>2, <2>3, IdleRestores DEF WriteHeader
<1>8. CASE SnapshotError
  <2>1. /\ file'.Frames = file.Frames
        /\ \A log \in disk' : log \in disk \/ log.Frames = file.Frames
    BY <1>2, <1>8 DEF SnapshotError, Write
  <2>2. DiskCovered
    BY <1>1, <1>3, <2>1 DEF DiskCovered
  <2>3. op = Nil
    BY <1>1, <1>8 DEF SnapshotError, TypeOK
  <2> QED
    BY <1>8, <2>1, <2>2, <2>3, IdleRestores DEF SnapshotError
<1> QED
  BY <1>4, <1>5, <1>6, <1>7, <1>8

LEMMA RenameSnapshotRestores ==
    ASSUME TypeInv, RestoreInv, RenameSnapshot
    PROVE  RestoreInv'
<1>1. /\ TypeOK /\ op = Nil /\ status = "up" /\ Current \in Snapshot /\ durable \in Snapshot
      /\ Current.Data = data /\ Current.MaxVersionCounter = maxVersionCounter
  BY CurrentType DEF TypeInv, TypeOK, RenameSnapshot
<1>2. /\ diskSnapshot' = diskSnapshot \cup {Current}
      /\ InDoubt' = InDoubt /\ Ended' = Ended /\ Current' = Current /\ Bases' = Bases
      /\ UNCHANGED <<status, memory, logs, durable>>
  BY <1>1 DEF RenameSnapshot, InDoubt, Ended, Current, Bases
<1>3. /\ maxVersionCounter >= durable.MaxVersionCounter
      /\ \A k \in Key : Explained(durable, InDoubt, k, data[k])
  BY <1>1 DEF RestoreInv, CurrentRestores
<1>4. LogsRestore'
  <2>1. \A log \in disk : /\ log.Frames \in Seq(Frame)
                          /\ AlwaysRestores(diskSnapshot, durable, InDoubt, log.Frames)
    BY <1>1, FileTyped DEF RestoreInv, LogsRestore
  <2>2. \A log \in disk :
           AlwaysRestores(diskSnapshot \cup {Current}, durable, InDoubt, log.Frames)
    BY <1>1, <1>3, <2>1, CurrentAdded
  <2> QED
    BY <1>2, <2>2 DEF LogsRestore
<1>5. CurrentRestores' /\ FileRepeats' /\ BasesAgree'
  BY <1>2 DEF RestoreInv, CurrentRestores, FileRepeats, BasesAgree
<1> QED
  BY <1>4, <1>5 DEF RestoreInv

LEMMA TruncateLogRestores ==
    ASSUME TypeInv, SnapshotHeld, RestoreInv, TruncateLog
    PROVE  RestoreInv'
<1> DEFINE q == EmptyLog.Frames
<1>1. /\ TypeOK /\ op = Nil /\ status = "up" /\ Current \in Snapshot
      /\ Current.Data = data /\ Current.MaxVersionCounter = maxVersionCounter
      /\ diskSnapshot = {Current} /\ q \in Seq(Frame) /\ q = <<>>
  BY CurrentType, EmptyTyped, LogOf DEF TypeInv, TypeOK, SnapshotHeld, TruncateLog
<1>2. /\ file' = EmptyLog /\ disk' = disk \cup {EmptyLog} /\ diskSnapshot' = {Current}
      /\ InDoubt' = InDoubt /\ Current' = Current /\ Bases' = {Current}
      /\ UNCHANGED <<status, memory, durable>>
  BY <1>1 DEF TruncateLog, Write, InDoubt, Current, Bases
<1>3. /\ maxVersionCounter >= durable.MaxVersionCounter
      /\ \A k \in Key : Explained(durable, InDoubt, k, data[k])
  BY <1>1 DEF RestoreInv, CurrentRestores
<1>4. LogsRestore'
  <2>1. AlwaysRestores({Current}, durable, InDoubt, q)
    BY <1>1, <1>3, EmptyRestores
  <2>2. \A log \in disk : AlwaysRestores({Current}, durable, InDoubt, log.Frames)
    BY <1>1 DEF RestoreInv, LogsRestore
  <2> QED
    BY <1>2, <2>1, <2>2 DEF LogsRestore
<1>5. CurrentRestores'
  BY <1>2 DEF RestoreInv, CurrentRestores
<1>6. FileRepeats' /\ BasesAgree'
  <2>1. \A D, n : Repeats(Current, D, q, n) /\ Agree({Current}, q, n)
    BY <1>1, EmptyRepeats
  <2> QED
    BY <1>2, <2>1 DEF FileRepeats, BasesAgree
<1> QED
  BY <1>4, <1>5, <1>6 DEF RestoreInv

\* A snapshot that is completed restores all, also after a damaged log.
LEMMA FinishSnapshotRestores ==
    ASSUME TypeInv, SnapshotHeld, FinishSnapshot
    PROVE  RestoreInv'
<1> DEFINE q == file.Frames
<1>1. /\ TypeOK /\ op = Nil /\ status = "up" /\ Current \in Snapshot
      /\ Current.Data = data /\ Current.MaxVersionCounter = maxVersionCounter
      /\ maxVersionCounter \in Nat
      /\ diskSnapshot = {Current} /\ q \in Seq(Frame) /\ q = <<>>
  BY CurrentType, FileTyped DEF TypeInv, TypeOK, SnapshotHeld, FinishSnapshot
<1>2. /\ file' = file /\ disk' = {file} /\ diskSnapshot' = {Current}
      /\ durable' = Current /\ Current' = Current /\ Bases' = {Current}
      /\ UNCHANGED <<status, memory>>
  BY <1>1 DEF FinishSnapshot, Sync, Current, Bases
<1>3. LogsRestore'
  <2>1. /\ Current.MaxVersionCounter >= Current.MaxVersionCounter
        /\ \A k \in Key : Explained(Current, InDoubt', k, Current.Data[k])
    BY <1>1 DEF Explained
  <2> DEFINE D == InDoubt'
  <2> HIDE DEF D, q
  <2>2. AlwaysRestores({Current}, Current, D, q)
    BY <1>1, <2>1, EmptyRestores DEF D
  <2> QED
    BY <1>2, <2>2 DEF LogsRestore, D, q
<1>4. CurrentRestores'
  BY <1>1, <1>2 DEF CurrentRestores, Explained
<1>5. FileRepeats' /\ BasesAgree'
  <2>1. \A D, n : Repeats(Current, D, q, n) /\ Agree({Current}, q, n)
    BY <1>1, EmptyRepeats
  <2> QED
    BY <1>2, <2>1 DEF FileRepeats, BasesAgree
<1> QED
  BY <1>3, <1>4, <1>5 DEF RestoreInv

-----------------------------------------------------------------------------
(* The invariant *)

LEMMA StoreInit == Init => StoreInv
<1> SUFFICES ASSUME Init
             PROVE  StoreInv
  OBVIOUS
<1>1. TypeInv
  BY TypeInit
<1> DEFINE q == EmptyLog.Frames
<1>2. /\ file = EmptyLog /\ disk = {EmptyLog} /\ durable = NoSnapshot
      /\ diskSnapshot = {NoSnapshot} /\ status = "down" /\ pc = "idle"
      /\ NoSnapshot \in Snapshot /\ NoSnapshot.MaxVersionCounter = 0
      /\ q \in Seq(Frame) /\ q = <<>>
  BY EmptyTyped, LogOf DEF Init, NoSnapshot
<1>3. LogsRestore
  <2>1. /\ NoSnapshot.MaxVersionCounter >= NoSnapshot.MaxVersionCounter
        /\ \A k \in Key : Explained(NoSnapshot, InDoubt, k, NoSnapshot.Data[k])
    BY <1>2 DEF Explained
  <2>2. AlwaysRestores({NoSnapshot}, NoSnapshot, InDoubt, q)
    BY <1>2, <2>1, EmptyRestores
  <2> QED
    BY <1>2, <2>2 DEF LogsRestore
<1>4. CurrentRestores /\ FileRepeats /\ SnapshotHeld
  BY <1>2 DEF CurrentRestores, FileRepeats, SnapshotHeld
<1>5. BasesAgree
  <2>1. \A n : Agree({NoSnapshot}, q, n)
    BY <1>2, EmptyRepeats
  <2> QED
    BY <1>2, <2>1 DEF BasesAgree, Bases
<1> QED
  BY <1>1, <1>3, <1>4, <1>5 DEF StoreInv, RestoreInv

\* A snapshot holds what the map holds, from its rename to the end of the truncation.
LEMMA SnapshotNext ==
    ASSUME TypeInv, SnapshotHeld, [Next]_vars
    PROVE  SnapshotHeld'
<1>1. ASSUME NEW k \in Key, NEW v \in Offered, Set(k, v) \/ DeleteIfMatch(k, v)
      PROVE  SnapshotHeld'
  BY <1>1, SetBegins DEF SnapshotHeld, BeginAppend
<1>2. CASE WritePayload \/ FinishAppend \/ AppendError \/ FinishSnapshot \/ SnapshotError
  BY <1>2 DEF SnapshotHeld, WritePayload, FinishAppend, AppendError, FinishSnapshot,
              SnapshotError
<1>3. CASE SaveSnapshot \/ RenameSnapshot \/ SyncDir
  BY <1>3 DEF SnapshotHeld, SaveSnapshot, RenameSnapshot, SyncDir, Current
<1>4. CASE TruncateLog
  BY <1>4, EmptyTyped DEF SnapshotHeld, TruncateLog, Write, Current
<1>5. CASE WriteHeader
  <2>1. file \in Log
    BY FileTyped DEF TypeInv
  <2>2. file'.Frames = file.Frames
    BY <1>5, <2>1 DEF WriteHeader, Log
  <2> QED
    BY <1>5, <2>2 DEF SnapshotHeld, WriteHeader, Current
<1>6. CASE ProcessCrash \/ MachineCrash \/ CrashInOpen \/ CrashInRepair
  BY <1>6 DEF SnapshotHeld, ProcessCrash, MachineCrash, CrashInOpen, CrashInRepair, Crash
<1>7. CASE Recover \/ RecoverTruncated \/ Refuse
  BY <1>7 DEF SnapshotHeld, Recover, RecoverTruncated, Open, Refuse
<1>8. CASE UNCHANGED vars
  BY <1>8 DEF vars, SnapshotHeld, Current
<1> QED
  BY <1>1, <1>2, <1>3, <1>4, <1>5, <1>6, <1>7, <1>8 DEF Next

LEMMA RestoreNext ==
    ASSUME StoreInv, [Next]_vars, ~damaged'
    PROVE  RestoreInv'
<1>1. TypeInv /\ TypeOK /\ SnapshotHeld
  BY DEF StoreInv, TypeInv
<1>2. CASE FinishSnapshot
  BY <1>1, <1>2, FinishSnapshotRestores
<1>3. RestoreInv \/ FinishSnapshot
  <2>1. CASE damaged
    <3>1. ASSUME NEW k \in Key, NEW v \in Offered
          PROVE  ~Set(k, v) /\ ~DeleteIfMatch(k, v)
      BY <2>1 DEF Set, DeleteIfMatch, BeginAppend
    <3>2. ~Recover /\ ~RecoverTruncated
      BY <1>1, <2>1, StartOpens
    <3> QED
      BY <2>1, <3>1, <3>2
         DEF Next, vars, WritePayload, FinishAppend, AppendError, SaveSnapshot,
             RenameSnapshot, SyncDir, TruncateLog, WriteHeader, SnapshotError,
             ProcessCrash, MachineCrash, CrashInOpen, CrashInRepair, Refuse
  <2> QED
    BY <2>1 DEF StoreInv
<1>4. ASSUME RestoreInv, NEW k \in Key, NEW v \in Offered, Set(k, v) \/ DeleteIfMatch(k, v)
      PROVE  RestoreInv'
  BY <1>1, <1>4, SetBegins, BeginAppendRestores
<1>5. CASE RestoreInv /\ WritePayload
  BY <1>1, <1>5, WritePayloadRestores
<1>6. CASE RestoreInv /\ FinishAppend
  BY <1>1, <1>6, FinishAppendRestores
<1>7. CASE RestoreInv /\ AppendError
  BY <1>1, <1>7, AppendErrorRestores
<1>8. CASE RestoreInv /\ (SaveSnapshot \/ SyncDir \/ WriteHeader \/ SnapshotError)
  BY <1>1, <1>8, IdleStepRestores
<1>9. CASE RestoreInv /\ RenameSnapshot
  BY <1>1, <1>9, RenameSnapshotRestores
<1>10. CASE RestoreInv /\ TruncateLog
  BY <1>1, <1>10, TruncateLogRestores
<1>11. CASE RestoreInv /\ ProcessCrash
  BY <1>1, <1>11, ProcessCrashRestores
<1>12. CASE RestoreInv /\ MachineCrash
  BY <1>1, <1>12, MachineCrashRestores
<1>13. CASE RestoreInv /\ CrashInOpen
  BY <1>1, <1>13, CrashInOpenRestores
<1>14. CASE RestoreInv /\ CrashInRepair
  <2>1. Readable
    BY <1>14 DEF CrashInRepair
  <2> QED
    BY <1>1, <1>14, <2>1, CrashInRepairRestores
<1>15. CASE RestoreInv /\ (Recover \/ RecoverTruncated)
  <2>1. PICK log \in Log : /\ Open(log)
                           /\ Readable \/ damaged'
                           /\ log = Truncated \/ log.Frames = file.Frames
    BY <1>1, <1>15, StartOpens
  <2> QED
    BY <1>1, <1>15, <2>1, OpenRestores
<1>16. CASE RestoreInv /\ (Refuse \/ UNCHANGED vars)
  <2>1. CASE Refuse
    BY <1>16, <2>1 DEF Refuse, RestoreInv, LogsRestore, CurrentRestores, FileRepeats,
                       BasesAgree, InDoubt, Ended, Bases
  <2>2. CASE UNCHANGED vars
    BY <1>16, <2>2 DEF vars, RestoreInv, LogsRestore, CurrentRestores, FileRepeats,
                       BasesAgree, InDoubt, Ended, Bases, Current
  <2> QED
    BY <1>16, <2>1, <2>2
<1> QED
  BY <1>2, <1>3, <1>4, <1>5, <1>6, <1>7, <1>8, <1>9, <1>10, <1>11, <1>12, <1>13, <1>14,
     <1>15, <1>16 DEF Next

LEMMA StoreNext == StoreInv /\ [Next]_vars => StoreInv'
<1> SUFFICES ASSUME StoreInv, [Next]_vars
             PROVE  StoreInv'
  OBVIOUS
<1>1. TypeInv' /\ SnapshotHeld'
  BY TypeNext, SnapshotNext DEF StoreInv
<1>2. ~damaged' => RestoreInv'
  BY RestoreNext
<1> QED
  BY <1>1, <1>2 DEF StoreInv

\* Only the two starts take a store that is down up.
LEMMA OnlyStarts ==
    ASSUME StoreInv, [Next]_vars, Readable, ~damaged, status = "down", status' = "up"
    PROVE  /\ data' = Replayed.Data /\ maxVersionCounter' = Replayed.MaxVersionCounter
           /\ maxVersionCounter' >= durable.MaxVersionCounter
           /\ \A k \in Key : Explained(durable, doubt, k, data'[k])
<1>1. TypeInv /\ TypeOK /\ LogsRestore
  BY DEF StoreInv, TypeInv, RestoreInv
<1>2. ASSUME NEW k \in Key, NEW v \in Offered
      PROVE  ~Set(k, v) /\ ~DeleteIfMatch(k, v)
  BY DEF Set, DeleteIfMatch, BeginAppend
<1>3. Recover \/ RecoverTruncated
  BY <1>2 DEF Next, vars, WritePayload, FinishAppend, AppendError, SaveSnapshot,
             RenameSnapshot, SyncDir, TruncateLog, WriteHeader, FinishSnapshot, SnapshotError,
             ProcessCrash, MachineCrash, CrashInOpen, CrashInRepair, Refuse, Crash
<1>4. data' = Replayed.Data /\ maxVersionCounter' = Replayed.MaxVersionCounter
  BY <1>3 DEF Recover, RecoverTruncated, Open
<1> QED
  BY <1>1, <1>4, StartRestores

\* OpenMemory (memory.go:39-60, wal.go:105-157): however often the process or the
\* machine crashed before, at any step of an append, a snapshot, a truncation or a
\* start, a start on a log that is whole up to its last frame restores of each key
\* what the last call that appended and was acknowledged left, or a record since then.
THEOREM RecoveryIsExact == Spec => RecoveryExact
<1>1. ASSUME StoreInv, [Next]_vars, Readable /\ ~damaged
      PROVE  StateKept
  <2> SUFFICES ASSUME status = "down", status' = "up", NEW k \in Key
               PROVE  \/ data'[k] = durable.Data[k]
                      \/ \E r \in doubt :
                            r.Key = k /\ data'[k] = IF r.Op = "set" THEN r.Value ELSE Nil
    BY DEF StateKept
  <2> QED
    BY <1>1, OnlyStarts DEF Explained, Effect
<1>2. StoreInv /\ [Next]_vars => [Readable /\ ~damaged => StateKept]_vars
  BY <1>1
<1> QED
  BY StoreInit, StoreNext, <1>2, PTL DEF Spec, RecoveryExact

\* OpenMemory (memory.go:39-60): no such start goes back behind the largest counter
\* that was acknowledged, so that nextVersion (version.go:60-110) does not use it again.
THEOREM CounterSurvives == Spec => MaxVersionKept
<1>1. StoreInv /\ [Next]_vars =>
        [Readable /\ ~damaged /\ status = "down" /\ status' = "up" =>
            maxVersionCounter' >= durable.MaxVersionCounter]_vars
  BY OnlyStarts
<1> QED
  BY StoreInit, StoreNext, <1>1, PTL DEF Spec, MaxVersionKept

=============================================================================
