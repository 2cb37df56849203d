----------------------------- MODULE RaftProofs -----------------------------
(***************************************************************************)
(* Proofs about Raft, for any finite set of nodes, any commands and terms, *)
(* and logs of any length.                                                 *)
(***************************************************************************)
EXTENDS Raft, FiniteSetTheorems, TLAPS

-----------------------------------------------------------------------------
(* Types *)

\* The term of the last entry, the dummy one included, is a term.
LEMMA LastLogTermType ==
    ASSUME TypeOK, NEW n \in Node
    PROVE  LastLogIndex(n) \in Nat /\ LastLogTerm(n) \in Nat
<1>1. log[n] \in Seq(LogEntry)
  BY DEF TypeOK
<1>2. CASE log[n] = <<>>
  BY <1>1, <1>2 DEF LastLogIndex, LastLogTerm
<1>3. CASE log[n] # <<>>
  <2>1. Len(log[n]) \in 1 .. Len(log[n])
    BY <1>1, <1>3
  <2>2. log[n][Len(log[n])] \in LogEntry
    BY <1>1, <2>1
  <2> QED
    BY <1>1, <1>3, <2>2 DEF LastLogIndex, LastLogTerm, LogEntry
<1> QED
  BY <1>2, <1>3

\* The applier is where its variables say: a counted entry is committed and in
\* the log, an entry it has read is the one behind those counted, and the state
\* machine has received exactly the entries sent.
ApplierAt(n) ==
    /\ commitIndex[n] <= Len(log[n])
    /\ lastApplied[n] <= commitIndex[n]
    /\ msg[n] = Nil => Len(applied[n]) = lastApplied[n]
    /\ msg[n] # Nil =>
          /\ msg[n].Index = lastApplied[n] + 1
          /\ msg[n].Index <= commitIndex[n]
          /\ msg[n].Entry = log[n][msg[n].Index]
          /\ Len(applied[n]) = IF msg[n].Stage = "sent" THEN msg[n].Index ELSE lastApplied[n]
    /\ \A i \in 1 .. Len(applied[n]) : applied[n][i] = log[n][i]

LogInv == TypeOK /\ \A n \in Node : ApplierAt(n)

\* Everything is empty at first.
LEMMA LogInit == Init => LogInv
BY NodeAssumption, BoundAssumption
   DEF Init, LogInv, TypeOK, ApplierAt, ApplyMsg, LogEntry, RequestVoteRequest, Vote

\* Elections and votes keep the types, and leave the logs alone.
LEMMA VoteStepType ==
    ASSUME TypeOK, NEW n \in Node,
           StartElection(n) \/ \E req \in requests : RequestVote(n, req)
    PROVE  TypeOK' /\ UNCHANGED <<logVars, restarts>>
<1>1. CASE StartElection(n)
  <2>1. [Term |-> currentTerm[n] + 1, CandidateID |-> n,
         LastLogIndex |-> LastLogIndex(n), LastLogTerm |-> LastLogTerm(n)]
           \in RequestVoteRequest
    <3>1. LastLogIndex(n) \in Nat /\ LastLogTerm(n) \in Nat
      BY LastLogTermType
    <3>2. currentTerm[n] + 1 \in Nat
      BY DEF TypeOK
    <3> QED
      BY <3>1, <3>2 DEF RequestVoteRequest
  <2>2. [Term |-> currentTerm[n] + 1, Voter |-> n, Candidate |-> n] \in Vote
    BY DEF TypeOK, Vote
  <2>3. requests' \subseteq RequestVoteRequest /\ granted' \subseteq Vote
    BY <1>1, <2>1, <2>2 DEF StartElection, Grant, TypeOK
  <2>4. /\ role' \in [Node -> {"Follower", "Candidate"}]
        /\ currentTerm' \in [Node -> Nat]
        /\ votedFor' \in [Node -> Node \cup {Nil}]
    BY <1>1 DEF StartElection, TypeOK
  <2>5. UNCHANGED <<logVars, restarts>>
    BY <1>1 DEF StartElection
  <2> QED
    BY <2>3, <2>4, <2>5 DEF TypeOK, logVars
<1>2. ASSUME NEW req \in requests, RequestVote(n, req)
      PROVE  TypeOK' /\ UNCHANGED <<logVars, restarts>>
  <2>1. req.Term \in Nat /\ req.CandidateID \in Node
    BY DEF TypeOK, RequestVoteRequest
  <2>2. [Term |-> req.Term, Voter |-> n, Candidate |-> req.CandidateID] \in Vote
    BY <2>1 DEF Vote
  <2>3. VoteIn(n, req.Term) \in Node \cup {Nil}
    BY DEF VoteIn, TypeOK
  <2>4. UNCHANGED <<logVars, requests, restarts>>
    BY <1>2 DEF RequestVote
  <2>5. role' \in [Node -> {"Follower", "Candidate"}] /\ currentTerm' \in [Node -> Nat]
    BY <1>2, <2>1 DEF RequestVote, AdoptTerm, TypeOK
  <2>6. votedFor' \in [Node -> Node \cup {Nil}] /\ granted' \subseteq Vote
    <3>1. CASE MayVote(n, req)
      BY <1>2, <2>1, <2>2, <3>1 DEF RequestVote, Grant, TypeOK
    <3>2. CASE ~MayVote(n, req)
      BY <1>2, <2>3, <3>2 DEF RequestVote, TypeOK
    <3> QED
      BY <3>1, <3>2
  <2> QED
    BY <2>4, <2>5, <2>6 DEF TypeOK, logVars
<1> QED
  BY <1>1, <1>2

\* Every step keeps the applier in its place: truncateFrom cannot reach below
\* the commit index, and the index that applyCommitted holds while it is
\* unlocked stays below it.
LEMMA LogStep == LogInv /\ [Next]_vars => LogInv'
<1> SUFFICES ASSUME LogInv, [Next]_vars PROVE LogInv'
  OBVIOUS
<1> USE DEF LogInv
<1>0. CASE UNCHANGED vars
  BY <1>0 DEF vars, voteVars, logVars, TypeOK, ApplierAt
<1>1. ASSUME NEW n \in Node,
             StartElection(n) \/ \E req \in requests : RequestVote(n, req)
      PROVE  LogInv'
  BY <1>1, VoteStepType DEF logVars, ApplierAt
<1>2. ASSUME NEW n \in Node, NEW term \in EntryTerm, NEW command \in Command,
             AppendEntry(n, term, command)
      PROVE  LogInv'
  <2>1. [Term |-> term, Command |-> command] \in LogEntry
    BY TermAssumption DEF LogEntry
  <2>2. TypeOK'
    BY <1>2, <2>1 DEF AppendEntry, TypeOK, voteVars
  <2>3. ASSUME NEW m \in Node PROVE ApplierAt(m)'
    <3>1. CASE m = n
      <4>1. /\ log'[n] = Append(log[n], [Term |-> term, Command |-> command])
            /\ log[n] \in Seq(LogEntry)
            /\ UNCHANGED <<commitIndex, lastApplied, msg, applied>>
        BY <1>2 DEF AppendEntry, TypeOK
      <4>2. /\ Len(log'[n]) = Len(log[n]) + 1
            /\ \A i \in 1 .. Len(log[n]) : log'[n][i] = log[n][i]
        BY <2>1, <4>1
      <4>3. /\ commitIndex[n] \in Nat /\ lastApplied[n] \in Nat
            /\ Len(applied[n]) \in Nat /\ Len(log[n]) \in Nat
        BY DEF TypeOK
      <4>4. ApplierAt(n)
        OBVIOUS
      <4> QED
        <5>1. Len(applied[n]) <= Len(log[n])
          BY <4>3, <4>4 DEF ApplierAt, TypeOK
        <5>2. msg[n] # Nil => msg[n].Index \in 1 .. Len(log[n])
          BY <4>3, <4>4 DEF ApplierAt, TypeOK, ApplyMsg
        <5>3. \A i \in 1 .. Len(applied[n]) : applied[n][i] = log'[n][i]
          BY <4>2, <4>3, <4>4, <5>1 DEF ApplierAt
        <5>4. msg[n] # Nil => msg[n].Entry = log'[n][msg[n].Index]
          BY <4>2, <4>4, <5>2 DEF ApplierAt
        <5>5. commitIndex[n] <= Len(log'[n])
          BY <4>2, <4>3, <4>4 DEF ApplierAt
        <5> QED
          BY <3>1, <4>1, <4>4, <5>3, <5>4, <5>5 DEF ApplierAt
    <3>2. CASE m # n
      BY <1>2, <3>2 DEF AppendEntry, TypeOK, ApplierAt
    <3> QED
      BY <3>1, <3>2
  <2> QED
    BY <2>2, <2>3
<1>3. ASSUME NEW n \in Node, NEW index \in 1 .. MaxLog, TruncateFrom(n, index)
      PROVE  LogInv'
  <2>0. index \in Nat
    BY BoundAssumption
  <2>1. /\ log[n] \in Seq(LogEntry)
        /\ index - 1 \in 0 .. Len(log[n])
    BY <1>3, <2>0 DEF TruncateFrom, TypeOK
  <2>2. /\ SubSeq(log[n], 1, index - 1) \in Seq(LogEntry)
        /\ Len(SubSeq(log[n], 1, index - 1)) = index - 1
        /\ \A i \in 1 .. index - 1 : SubSeq(log[n], 1, index - 1)[i] = log[n][i]
    BY <2>0, <2>1
  <2>3. log' = [log EXCEPT ![n] = SubSeq(log[n], 1, index - 1)]
    BY <1>3 DEF TruncateFrom
  <2>4. TypeOK'
    BY <1>3, <2>2, <2>3 DEF TruncateFrom, TypeOK, voteVars
  <2>5. ASSUME NEW m \in Node PROVE ApplierAt(m)'
    <3>1. CASE m = n
      <4>1. /\ log'[n] = SubSeq(log[n], 1, index - 1)
            /\ UNCHANGED <<commitIndex, lastApplied, msg, applied>>
            /\ index > commitIndex[n]
        BY <1>3, <2>3 DEF TruncateFrom, TypeOK
      <4>2. /\ commitIndex[n] \in Nat /\ lastApplied[n] \in Nat
            /\ Len(applied[n]) \in Nat /\ Len(log[n]) \in Nat
        BY DEF TypeOK
      <4>3. Len(applied[n]) <= commitIndex[n]
        BY <4>2 DEF ApplierAt
      <4>4. msg[n] # Nil => msg[n].Index \in 1 .. commitIndex[n]
        BY <4>2 DEF ApplierAt, TypeOK, ApplyMsg
      <4>5. ApplierAt(n)
        OBVIOUS
      <4> QED
        <5>1. commitIndex[n] <= Len(log'[n])
          BY <2>0, <2>2, <4>1, <4>2
        <5>2. \A i \in 1 .. commitIndex[n] : log'[n][i] = log[n][i]
          BY <2>0, <2>2, <4>1, <4>2
        <5>3. \A i \in 1 .. Len(applied[n]) : applied[n][i] = log'[n][i]
          BY <4>2, <4>3, <4>5, <5>2 DEF ApplierAt
        <5>4. msg[n] # Nil => msg[n].Entry = log'[n][msg[n].Index]
          BY <4>4, <4>5, <5>2 DEF ApplierAt
        <5> QED
          BY <3>1, <4>1, <4>5, <5>1, <5>3, <5>4 DEF ApplierAt
    <3>2. CASE m # n
      BY <1>3, <2>3, <3>2 DEF TruncateFrom, TypeOK, ApplierAt
    <3> QED
      BY <3>1, <3>2
  <2> QED
    BY <2>4, <2>5
<1>4. ASSUME NEW n \in Node, NEW index \in 1 .. MaxLog, AdvanceCommit(n, index)
      PROVE  LogInv'
  <2>1. index \in Nat
    BY BoundAssumption
  <2>2. TypeOK'
    <3>1. commitIndex' \in [Node -> Nat]
      BY <1>4, <2>1 DEF AdvanceCommit, TypeOK
    <3> QED
      BY <1>4, <3>1 DEF AdvanceCommit, TypeOK, voteVars
  <2>3. ASSUME NEW m \in Node PROVE ApplierAt(m)'
    <3>1. CASE m = n
      <4>1. /\ commitIndex'[n] = index
            /\ index > commitIndex[n] /\ index <= Len(log[n])
            /\ UNCHANGED <<log, lastApplied, msg, applied>>
        BY <1>4 DEF AdvanceCommit, TypeOK
      <4>2. commitIndex[n] \in Nat /\ lastApplied[n] \in Nat
        BY DEF TypeOK
      <4>3. msg[n] # Nil => msg[n].Index \in Nat
        BY DEF TypeOK, ApplyMsg
      <4>4. ApplierAt(n)
        OBVIOUS
      <4> QED
        BY <2>1, <3>1, <4>1, <4>2, <4>3, <4>4 DEF ApplierAt
    <3>2. CASE m # n
      BY <1>4, <3>2 DEF AdvanceCommit, TypeOK, ApplierAt
    <3> QED
      BY <3>1, <3>2
  <2> QED
    BY <2>2, <2>3
<1>5. ASSUME NEW n \in Node, ApplyCommitted(n) \/ ApplyDone(n)
      PROVE  LogInv'
  <2>1. /\ applying' \in [Node -> BOOLEAN]
        /\ UNCHANGED <<voteVars, log, commitIndex, lastApplied, msg, applied, requests,
                       granted, restarts>>
    BY <1>5, Zenon DEF ApplyCommitted, ApplyDone, TypeOK
  <2> QED
    BY <2>1 DEF TypeOK, ApplierAt, voteVars
<1>6. ASSUME NEW n \in Node, ReadCommitted(n)
      PROVE  LogInv'
  <2> DEFINE m == [Index |-> lastApplied[n] + 1,
                   Entry |-> log[n][lastApplied[n] + 1],
                   Stage |-> "read"]
  <2>1. lastApplied[n] + 1 \in 1 .. Len(log[n]) /\ lastApplied[n] \in Nat
    BY <1>6 DEF ReadCommitted, ApplierAt, TypeOK
  <2>2. m \in ApplyMsg
    BY <2>1 DEF TypeOK, ApplyMsg
  <2>3. msg' = [msg EXCEPT ![n] = m]
    BY <1>6 DEF ReadCommitted
  <2> HIDE DEF m
  <2>4. TypeOK'
    BY <1>6, <2>2, <2>3 DEF ReadCommitted, TypeOK, voteVars
  <2>5. /\ m.Index = lastApplied[n] + 1 /\ m.Entry = log[n][m.Index] /\ m.Stage = "read"
        /\ lastApplied[n] + 1 <= commitIndex[n]
    BY <1>6, <2>1 DEF m, ReadCommitted, TypeOK
  <2>6. m # Nil
    BY <2>2, NilAssumption
  <2>7. ASSUME NEW k \in Node PROVE ApplierAt(k)'
    <3>1. CASE k = n
      <4>1. /\ msg'[n] = m /\ msg[n] = Nil
            /\ UNCHANGED <<log, commitIndex, lastApplied, applied>>
        BY <1>6, <2>3 DEF ReadCommitted, TypeOK
      <4>2. ApplierAt(n)
        OBVIOUS
      <4> QED
        BY <2>5, <2>6, <3>1, <4>1, <4>2 DEF ApplierAt
    <3>2. CASE k # n
      BY <1>6, <2>3, <3>2, SMTT(30) DEF ReadCommitted, TypeOK, ApplierAt
    <3> QED
      BY <3>1, <3>2
  <2> QED
    BY <2>4, <2>7
<1>7. ASSUME NEW n \in Node, SendApply(n)
      PROVE  LogInv'
  <2>1. msg[n] \in ApplyMsg /\ msg[n] # Nil /\ msg[n].Stage = "read"
    BY <1>7 DEF SendApply, TypeOK
  <2>2. PICK sent \in ApplyMsg :
           /\ sent.Index = msg[n].Index /\ sent.Entry = msg[n].Entry /\ sent.Stage = "sent"
           /\ msg' = [msg EXCEPT ![n] = sent]
    <3> DEFINE sent == [Index |-> msg[n].Index, Entry |-> msg[n].Entry, Stage |-> "sent"]
    <3>1. sent \in ApplyMsg
      BY <2>1 DEF ApplyMsg
    <3>2. [msg[n] EXCEPT !.Stage = "sent"] = sent
      BY <2>1 DEF ApplyMsg
    <3>3. msg' = [msg EXCEPT ![n] = [msg[n] EXCEPT !.Stage = "sent"]]
      BY <1>7 DEF SendApply
    <3>4. msg' = [msg EXCEPT ![n] = sent]
      BY <3>2, <3>3
    <3>5. sent.Index = msg[n].Index /\ sent.Entry = msg[n].Entry /\ sent.Stage = "sent"
      OBVIOUS
    <3> HIDE DEF sent
    <3> QED
      BY <3>1, <3>4, <3>5
  <2>3. /\ applied' = [applied EXCEPT ![n] = Append(applied[n], msg[n].Entry)]
        /\ msg[n].Entry \in LogEntry
        /\ applied[n] \in Seq(LogEntry)
    BY <1>7, <2>1 DEF SendApply, TypeOK, ApplyMsg
  <2>4. TypeOK'
    <3>1. msg' \in [Node -> ApplyMsg \cup {Nil}]
      BY <2>2 DEF TypeOK
    <3>2. applied' \in [Node -> Seq(LogEntry)]
      BY <2>3 DEF TypeOK
    <3> QED
      BY <1>7, <3>1, <3>2 DEF SendApply, TypeOK, voteVars
  <2>5. /\ applied'[n] = Append(applied[n], msg[n].Entry)
        /\ Len(applied'[n]) = Len(applied[n]) + 1
        /\ \A i \in 1 .. Len(applied[n]) : applied'[n][i] = applied[n][i]
        /\ applied'[n][Len(applied[n]) + 1] = msg[n].Entry
    BY <2>3 DEF TypeOK
  <2>6. sent # Nil
    BY <2>2, NilAssumption
  <2>7. ASSUME NEW k \in Node PROVE ApplierAt(k)'
    <3>1. CASE k = n
      <4>1. /\ msg'[n] = sent
            /\ UNCHANGED <<log, commitIndex, lastApplied>>
        BY <1>7, <2>2 DEF SendApply, TypeOK
      <4>2. /\ lastApplied[n] \in Nat /\ Len(applied[n]) = lastApplied[n]
            /\ msg[n].Index = lastApplied[n] + 1
            /\ msg[n].Entry = log[n][msg[n].Index]
        BY <2>1 DEF ApplierAt, TypeOK
      <4>3. \A i \in 1 .. Len(applied'[n]) : applied'[n][i] = log[n][i]
        BY <2>5, <4>2 DEF ApplierAt
      <4>4. ApplierAt(n)
        OBVIOUS
      <4> QED
        <5>1. Len(applied'[n]) = sent.Index
          BY <2>2, <2>5, <4>2
        <5> QED
          BY <2>1, <2>2, <2>6, <3>1, <4>1, <4>3, <4>4, <5>1 DEF ApplierAt
    <3>2. CASE k # n
      BY <1>7, <2>2, <2>3, <3>2 DEF SendApply, TypeOK, ApplierAt
    <3> QED
      BY <3>1, <3>2
  <2> QED
    BY <2>4, <2>7
<1>8. ASSUME NEW n \in Node, CountApplied(n)
      PROVE  LogInv'
  <2>1. msg[n] \in ApplyMsg
    BY <1>8 DEF CountApplied, TypeOK
  <2>2. TypeOK'
    BY <1>8, <2>1 DEF CountApplied, TypeOK, ApplyMsg, voteVars
  <2>3. ASSUME NEW k \in Node PROVE ApplierAt(k)'
    <3>1. CASE k = n
      <4>1. /\ msg'[n] = Nil /\ msg[n] # Nil /\ msg[n].Stage = "sent"
            /\ lastApplied'[n] = msg[n].Index
            /\ UNCHANGED <<log, commitIndex, applied>>
        BY <1>8 DEF CountApplied, TypeOK
      <4>2. ApplierAt(n)
        OBVIOUS
      <4> QED
        BY <3>1, <4>1, <4>2 DEF ApplierAt
    <3>2. CASE k # n
      BY <1>8, <3>2 DEF CountApplied, TypeOK, ApplierAt
    <3> QED
      BY <3>1, <3>2
  <2> QED
    BY <2>2, <2>3
<1>9. ASSUME NEW n \in Node, Restart(n)
      PROVE  LogInv'
  <2>1. TypeOK'
    BY <1>9, BoundAssumption, SMTT(30) DEF Restart, TypeOK
  <2> QED
    BY <1>9, <2>1 DEF Restart, TypeOK, ApplierAt
<1> QED
  BY <1>0, <1>1, <1>2, <1>3, <1>4, <1>5, <1>6, <1>7, <1>8, <1>9 DEF Next, ApplyStep

\* The types of the Raft node's fields hold for ever.
THEOREM RaftTypeCorrect == Spec => []TypeOK
<1>1. LogInv => TypeOK
  BY DEF LogInv
<1> QED
  BY <1>1, LogInit, LogStep, PTL DEF Spec

\* applyCommitted against truncateFrom, advanceCommit and restarts: the state
\* machine always has a prefix of the log, all of it committed.
THEOREM AppliedPrefix == Spec => []AppliedFromLog
<1>1. LogInv => AppliedFromLog
  BY DEF LogInv, ApplierAt, AppliedFromLog, TypeOK
<1> QED
  BY <1>1, LogInit, LogStep, PTL DEF Spec

-----------------------------------------------------------------------------
(* The promise to the state machine *)

\* Sequences that agree on their first k elements have the same prefix of that length.
LEMMA SamePrefix ==
    ASSUME NEW S, NEW s \in Seq(S), NEW t \in Seq(S), NEW k \in Nat,
           k <= Len(s), k <= Len(t), \A i \in 1 .. k : s[i] = t[i]
    PROVE  SubSeq(s, 1, k) = SubSeq(t, 1, k)
<1>1. /\ SubSeq(s, 1, k) \in Seq(S) /\ Len(SubSeq(s, 1, k)) = k
      /\ SubSeq(t, 1, k) \in Seq(S) /\ Len(SubSeq(t, 1, k)) = k
  OBVIOUS
<1>2. \A i \in 1 .. k : SubSeq(s, 1, k)[i] = SubSeq(t, 1, k)[i]
  OBVIOUS
<1> QED
  BY <1>1, <1>2

LEMMA CommittedInLog ==
    ASSUME LogInv, NEW n \in Node
    PROVE  /\ log[n] \in Seq(LogEntry) /\ commitIndex[n] \in Nat
           /\ commitIndex[n] <= Len(log[n])
           /\ \A i \in 1 .. commitIndex[n] : i \in 1 .. Len(log[n])
<1>1. log[n] \in Seq(LogEntry) /\ commitIndex[n] \in Nat /\ commitIndex[n] <= Len(log[n])
  BY DEF LogInv, TypeOK, ApplierAt
<1> QED
  BY <1>1

\* The commit index counts the committed entries.
LEMMA CommittedEntries ==
    ASSUME LogInv, NEW n \in Node
    PROVE  /\ Committed[n] = SubSeq(log[n], 1, commitIndex[n])
           /\ Committed[n] \in Seq(LogEntry) /\ Len(Committed[n]) = commitIndex[n]
           /\ \A i \in 1 .. commitIndex[n] : Committed[n][i] = log[n][i]
<1>1. log[n] \in Seq(LogEntry) /\ commitIndex[n] \in 0 .. Len(log[n])
  BY DEF LogInv, TypeOK, ApplierAt
<1>2. Committed[n] = SubSeq(log[n], 1, commitIndex[n])
  BY DEF Committed
<1> QED
  BY <1>1, <1>2

\* A step that leaves the commit indexes and the committed entries alone.
LEMMA CommittedSame ==
    ASSUME LogInv, LogInv', UNCHANGED commitIndex,
           \A n \in Node : \A i \in 1 .. commitIndex[n] : log'[n][i] = log[n][i]
    PROVE  UNCHANGED Committed
<1>1. ASSUME NEW n \in Node
      PROVE  SubSeq(log'[n], 1, commitIndex[n]) = SubSeq(log[n], 1, commitIndex[n])
  <2>1. /\ log[n] \in Seq(LogEntry) /\ log'[n] \in Seq(LogEntry)
        /\ commitIndex[n] \in Nat
        /\ commitIndex[n] <= Len(log[n]) /\ commitIndex[n] <= Len(log'[n])
    BY DEF LogInv, TypeOK, ApplierAt
  <2> QED
    BY <2>1, SamePrefix
<1> QED
  BY <1>1 DEF Committed

\* Every step of a node is one of the promised log, or none.
LEMMA PromiseStep ==
    ASSUME LogInv, LogInv', [Next]_vars
    PROVE  [Promise!Next]_<<Committed, applied>>
<1>1. ASSUME UNCHANGED <<log, commitIndex, applied>>
      PROVE  UNCHANGED <<Committed, applied>>
  BY <1>1 DEF Committed
<1>2. CASE UNCHANGED vars
  BY <1>1, <1>2 DEF vars, logVars
<1>3. ASSUME NEW n \in Node,
             StartElection(n) \/ \E req \in requests : RequestVote(n, req)
      PROVE  UNCHANGED <<Committed, applied>>
  BY <1>1, <1>3 DEF StartElection, RequestVote, logVars
<1>4. ASSUME NEW n \in Node, NEW term \in EntryTerm, NEW command \in Command,
             AppendEntry(n, term, command)
      PROVE  UNCHANGED <<Committed, applied>>
  <2> DEFINE e == [Term |-> term, Command |-> command]
  <2>1. ASSUME NEW m \in Node, NEW i \in 1 .. commitIndex[m]
        PROVE  log'[m][i] = log[m][i]
    <3>1. log[m] \in Seq(LogEntry) /\ i \in 1 .. Len(log[m])
      BY CommittedInLog
    <3>3. e \in LogEntry
      BY TermAssumption DEF LogEntry
    <3>2. log'[m] = IF m = n THEN Append(log[m], e) ELSE log[m]
      BY <1>4 DEF AppendEntry, LogInv, TypeOK
    <3> HIDE DEF e
    <3> QED
      BY <3>1, <3>2, <3>3
  <2> QED
    BY <1>4, <2>1, CommittedSame DEF AppendEntry
<1>5. ASSUME NEW n \in Node, NEW index \in 1 .. MaxLog, TruncateFrom(n, index)
      PROVE  UNCHANGED <<Committed, applied>>
  <2>1. ASSUME NEW m \in Node, NEW i \in 1 .. commitIndex[m]
        PROVE  log'[m][i] = log[m][i]
    <3>1. /\ log[m] \in Seq(LogEntry) /\ i \in 1 .. Len(log[m]) /\ index \in Nat
          /\ commitIndex[m] \in Nat
      BY CommittedInLog, BoundAssumption
    <3>2. log'[m] = IF m = n THEN SubSeq(log[m], 1, index - 1) ELSE log[m]
      BY <1>5 DEF TruncateFrom, LogInv, TypeOK
    <3>3. m = n => index > commitIndex[m] /\ index <= Len(log[m])
      BY <1>5 DEF TruncateFrom
    <3>4. m = n => i \in 1 .. index - 1 /\ index - 1 <= Len(log[m])
      BY <3>1, <3>3
    <3> QED
      BY <3>1, <3>2, <3>4
  <2> QED
    BY <1>5, <2>1, CommittedSame DEF TruncateFrom
<1>6. ASSUME NEW n \in Node, NEW index \in 1 .. MaxLog, AdvanceCommit(n, index)
      PROVE  Promise!Commit(n)
  <2> DEFINE k == commitIndex[n] + 1
  <2>1. /\ commitIndex'[n] = index /\ index > commitIndex[n] /\ index \in Nat
        /\ commitIndex[n] \in Nat /\ UNCHANGED <<log, applied>>
    BY <1>6, BoundAssumption DEF AdvanceCommit, LogInv, TypeOK
  <2>2. /\ Committed'[n] \in Seq(LogEntry) /\ Len(Committed'[n]) = index
        /\ \A i \in 1 .. index : Committed'[n][i] = log[n][i]
    <3>1. /\ log[n] \in Seq(LogEntry) /\ index \in 0 .. Len(log[n])
      BY <1>6, <2>1 DEF AdvanceCommit, LogInv, TypeOK
    <3>2. Committed'[n] = SubSeq(log[n], 1, index)
      BY <2>1 DEF Committed
    <3> QED
      BY <3>1, <3>2
  <2>3. SubSeq(Committed'[n], 1, k - 1) = Committed[n]
    <3>1. log[n] \in Seq(LogEntry) /\ commitIndex[n] <= Len(log[n])
      BY DEF LogInv, TypeOK, ApplierAt
    <3>2. \A i \in 1 .. commitIndex[n] : Committed'[n][i] = log[n][i]
      BY <2>1, <2>2
    <3>3. SubSeq(Committed'[n], 1, commitIndex[n]) = SubSeq(log[n], 1, commitIndex[n])
      BY <2>1, <2>2, <3>1, <3>2, SamePrefix
    <3> QED
      BY <2>1, <3>3, CommittedEntries
  <2>4. k \in 1 .. Len(Committed'[n])
    BY <2>1, <2>2
  <2>5. \A m \in Node \ {n} : Committed'[m] = Committed[m]
    BY <1>6, <2>1 DEF AdvanceCommit, Committed, LogInv, TypeOK
  <2> QED
    BY <2>1, <2>2, <2>3, <2>4, <2>5 DEF Promise!Commit
<1>7. ASSUME NEW n \in Node,
             ApplyCommitted(n) \/ ReadCommitted(n) \/ CountApplied(n) \/ ApplyDone(n)
      PROVE  UNCHANGED <<Committed, applied>>
  BY <1>1, <1>7 DEF ApplyCommitted, ReadCommitted, CountApplied, ApplyDone
<1>8. ASSUME NEW n \in Node, SendApply(n)
      PROVE  Promise!Deliver(n)
  <2>1. msg[n] \in ApplyMsg /\ msg[n] # Nil /\ msg[n].Stage = "read"
    BY <1>8 DEF SendApply, LogInv, TypeOK
  <2>2. /\ msg[n].Index = Len(applied[n]) + 1 /\ msg[n].Entry = log[n][msg[n].Index]
        /\ msg[n].Index <= commitIndex[n] /\ Len(applied[n]) \in Nat
        /\ commitIndex[n] \in Nat
    BY <2>1, SMTT(30) DEF LogInv, TypeOK, ApplierAt
  <2>3. msg[n].Entry = Committed[n][Len(applied[n]) + 1]
    BY <2>2, CommittedEntries
  <2>4. Len(applied[n]) + 1 <= Len(Committed[n])
    BY <2>2, CommittedEntries
  <2>5. UNCHANGED Committed
    BY <1>8 DEF SendApply, Committed
  <2>6. applied' = [applied EXCEPT ![n] = Append(applied[n], Committed[n][Len(applied[n]) + 1])]
    BY <1>8, <2>3 DEF SendApply
  <2> QED
    BY <2>4, <2>5, <2>6 DEF Promise!Deliver
<1>9. ASSUME NEW n \in Node, Restart(n)
      PROVE  Promise!Forget(n)
  <2>1. SubSeq(<<>>, 1, 0) = <<>>
    OBVIOUS
  <2>2. \A m \in Node : /\ log'[m] = IF m = n THEN <<>> ELSE log[m]
                        /\ commitIndex'[m] = IF m = n THEN 0 ELSE commitIndex[m]
    BY <1>9 DEF Restart, LogInv, TypeOK
  <2>3. Committed' = [Committed EXCEPT ![n] = <<>>]
    BY <2>1, <2>2 DEF Committed
  <2> QED
    BY <1>9, <2>3 DEF Restart, Promise!Forget
<1> QED
  BY <1>2, <1>3, <1>4, <1>5, <1>6, <1>7, <1>8, <1>9 DEF Next, ApplyStep, Promise!Next

LEMMA PromiseInit == Init => Promise!Init
BY DEF Init, Promise!Init, Committed

\* The log and the applier of a node implement CommittedLog, for logs of any length and
\* any number of restarts: committed entries never change and are delivered in order.
THEOREM RaftKeepsPromise == Spec => KeepsPromise
<1>1. Spec => []LogInv
  BY LogInit, LogStep, PTL DEF Spec
<1> QED
  BY <1>1, PromiseInit, PromiseStep, PTL DEF Spec, KeepsPromise, Promise!Spec

-----------------------------------------------------------------------------
(* Votes *)

\* A vote was given in a term that its voter has reached, and in the voter's
\* current term it is the one that votedFor records.  Nothing but votedFor keeps
\* a node from voting again, so this is what OneVotePerTerm rests on; a restart
\* forgets it.
VotesRecorded ==
    \A g \in granted :
        /\ g.Term <= currentTerm[g.Voter]
        /\ g.Term = currentTerm[g.Voter] => votedFor[g.Voter] = g.Candidate

VoteInv == TypeOK /\ (restarts = 0 => VotesRecorded /\ OneVotePerTerm)

\* One vote added by node n in term t, which n then is in and has recorded.
LEMMA GrantStep ==
    ASSUME TypeOK, TypeOK', VotesRecorded, OneVotePerTerm,
           NEW n \in Node, NEW c \in Node, NEW t \in Nat,
           t >= currentTerm[n],
           t = currentTerm[n] => votedFor[n] \in {Nil, c},
           currentTerm' = [currentTerm EXCEPT ![n] = t],
           votedFor' = [votedFor EXCEPT ![n] = c],
           Grant(t, n, c)
    PROVE  VotesRecorded' /\ OneVotePerTerm'
<1> DEFINE vote == [Term |-> t, Voter |-> n, Candidate |-> c]
<1>1. granted' = granted \cup {vote}
  BY DEF Grant
<1>2. \A g \in granted : g \in Vote
  BY DEF TypeOK
<1>3. vote.Term = t /\ vote.Voter = n /\ vote.Candidate = c
  OBVIOUS
<1>4. currentTerm'[n] = t /\ votedFor'[n] = c
  BY DEF TypeOK
<1>5. \A m \in Node : m # n => currentTerm'[m] = currentTerm[m] /\ votedFor'[m] = votedFor[m]
  BY DEF TypeOK
<1>6. ASSUME NEW g \in granted, g.Voter = n, g.Term >= t
      PROVE  g.Term = t /\ g.Candidate = c
  <2>1. g.Term \in Nat /\ g.Candidate \in Node /\ currentTerm[n] \in Nat
    BY <1>2 DEF Vote, TypeOK
  <2>2. g.Term <= currentTerm[n]
    BY <1>6 DEF VotesRecorded
  <2>3. g.Term = t /\ t = currentTerm[n]
    BY <1>6, <2>1, <2>2
  <2>4. votedFor[n] = g.Candidate
    BY <1>6, <2>3 DEF VotesRecorded
  <2> QED
    BY <2>1, <2>3, <2>4, NodeAssumption
<1> HIDE DEF vote
<1>7. VotesRecorded'
  <2> SUFFICES ASSUME NEW g \in granted'
               PROVE  /\ g.Term <= currentTerm'[g.Voter]
                      /\ g.Term = currentTerm'[g.Voter] => votedFor'[g.Voter] = g.Candidate
    BY DEF VotesRecorded
  <2>1. CASE g = vote
    BY <1>3, <1>4, <2>1
  <2>2. CASE g \in granted /\ g.Voter # n
    BY <1>2, <1>5, <2>2 DEF VotesRecorded, Vote
  <2>3. CASE g \in granted /\ g.Voter = n
    BY <1>2, <1>4, <1>6, <2>3 DEF Vote
  <2> QED
    BY <1>1, <2>1, <2>2, <2>3
<1>8. OneVotePerTerm'
  <2> SUFFICES ASSUME NEW a \in granted', NEW b \in granted',
                      a.Term = b.Term, a.Voter = b.Voter
               PROVE  a.Candidate = b.Candidate
    BY DEF OneVotePerTerm
  <2>1. CASE a \in granted /\ b \in granted
    BY <2>1 DEF OneVotePerTerm
  <2>2. CASE a = vote /\ b \in granted
    BY <1>3, <1>6, <2>2
  <2>3. CASE a \in granted /\ b = vote
    BY <1>3, <1>6, <2>3
  <2> QED
    BY <1>1, <2>1, <2>2, <2>3
<1> QED
  BY <1>7, <1>8

\* No vote has been given at first.
LEMMA VoteInit == Init => VoteInv
BY LogInit DEF Init, LogInv, VoteInv, VotesRecorded, OneVotePerTerm

\* Only StartElection and RequestVote touch terms and votes, and both vote for a
\* candidate only in a newer term or where votedFor allows it.
LEMMA VoteStep == VoteInv /\ TypeOK' /\ [Next]_vars => VoteInv'
<1> SUFFICES ASSUME VoteInv, TypeOK', [Next]_vars, restarts' = 0
             PROVE  VotesRecorded' /\ OneVotePerTerm'
  BY DEF VoteInv
<1>0. TypeOK
  BY DEF VoteInv
<1>1. CASE UNCHANGED <<voteVars, granted, restarts>>
  BY <1>1 DEF VoteInv, VotesRecorded, OneVotePerTerm, voteVars
<1>2. ASSUME NEW n \in Node, StartElection(n)
      PROVE  VotesRecorded' /\ OneVotePerTerm'
  <2>1. VotesRecorded /\ OneVotePerTerm
    BY <1>2 DEF StartElection, VoteInv
  <2>2. currentTerm[n] \in Nat
    BY <1>0 DEF TypeOK
  <2>3. /\ currentTerm' = [currentTerm EXCEPT ![n] = currentTerm[n] + 1]
        /\ votedFor' = [votedFor EXCEPT ![n] = n]
        /\ Grant(currentTerm[n] + 1, n, n)
    BY <1>2 DEF StartElection
  <2>4. /\ currentTerm[n] + 1 \in Nat
        /\ currentTerm[n] + 1 >= currentTerm[n]
        /\ currentTerm[n] + 1 # currentTerm[n]
    BY <2>2
  <2> QED
    BY <1>0, <2>1, <2>3, <2>4, GrantStep
<1>3. ASSUME NEW n \in Node, NEW req \in requests, RequestVote(n, req)
      PROVE  VotesRecorded' /\ OneVotePerTerm'
  <2>1. VotesRecorded /\ OneVotePerTerm
    BY <1>3 DEF RequestVote, VoteInv
  <2>2. /\ req.Term \in Nat /\ req.CandidateID \in Node /\ currentTerm[n] \in Nat
        /\ req.Term >= currentTerm[n]
    BY <1>0, <1>3 DEF RequestVote, TypeOK, RequestVoteRequest
  <2>3. currentTerm' = [currentTerm EXCEPT ![n] = req.Term]
    BY <1>3 DEF RequestVote, AdoptTerm
  <2>4. CASE MayVote(n, req)
    <3>1. /\ votedFor' = [votedFor EXCEPT ![n] = req.CandidateID]
          /\ Grant(req.Term, n, req.CandidateID)
      BY <1>3, <2>4 DEF RequestVote
    <3>2. req.Term = currentTerm[n] => votedFor[n] \in {Nil, req.CandidateID}
      BY <2>2, <2>4 DEF MayVote, VoteIn
    <3> QED
      BY <1>0, <2>1, <2>2, <2>3, <3>1, <3>2, GrantStep
  <2>5. CASE ~MayVote(n, req)
    <3>1. granted' = granted /\ votedFor' = [votedFor EXCEPT ![n] = VoteIn(n, req.Term)]
      BY <1>3, <2>5 DEF RequestVote
    <3>2. OneVotePerTerm'
      BY <2>1, <3>1 DEF OneVotePerTerm
    <3>3. ASSUME NEW g \in granted
          PROVE  /\ g.Term <= currentTerm'[g.Voter]
                 /\ g.Term = currentTerm'[g.Voter] => votedFor'[g.Voter] = g.Candidate
      <4>1. /\ g.Term \in Nat /\ g.Voter \in Node
            /\ g.Term <= currentTerm[g.Voter]
            /\ g.Term = currentTerm[g.Voter] => votedFor[g.Voter] = g.Candidate
        BY <1>0, <2>1 DEF VotesRecorded, TypeOK, Vote
      <4>2. CASE g.Voter = n
        <5>1. currentTerm'[n] = req.Term /\ votedFor'[n] = VoteIn(n, req.Term)
          BY <1>0, <2>3, <3>1 DEF TypeOK
        <5> QED
          BY <2>2, <4>1, <4>2, <5>1 DEF VoteIn
      <4>3. CASE g.Voter # n
        BY <1>0, <2>3, <3>1, <4>1, <4>3 DEF TypeOK
      <4> QED
        BY <4>2, <4>3
    <3> QED
      BY <3>1, <3>2, <3>3 DEF VotesRecorded
  <2> QED
    BY <2>4, <2>5
<1>4. ASSUME NEW n \in Node, Restart(n)
      PROVE  FALSE
  BY <1>0, <1>4, BoundAssumption DEF Restart, TypeOK
<1>5. CASE UNCHANGED vars
  BY <1>1, <1>5 DEF vars
<1>6. ASSUME NEW n \in Node,
             \/ \E term \in EntryTerm, command \in Command : AppendEntry(n, term, command)
             \/ \E index \in 1 .. MaxLog : TruncateFrom(n, index) \/ AdvanceCommit(n, index)
             \/ ApplyCommitted(n)
             \/ ApplyStep(n)
      PROVE  UNCHANGED <<voteVars, granted, restarts>>
  BY <1>6 DEF AppendEntry, TruncateFrom, AdvanceCommit, ApplyCommitted, ApplyStep,
              ReadCommitted, SendApply, CountApplied, ApplyDone
<1> QED
  BY <1>1, <1>2, <1>3, <1>4, <1>5, <1>6 DEF Next

\* Two majorities of the nodes have a node in common.
LEMMA MajoritiesMeet ==
    ASSUME NEW A \in SUBSET Node, 2 * Cardinality(A) > Cardinality(Node),
           NEW B \in SUBSET Node, 2 * Cardinality(B) > Cardinality(Node)
    PROVE  A \cap B # {}
<1>1. IsFiniteSet(Node)
  BY NodeAssumption
<1>2. IsFiniteSet(A) /\ IsFiniteSet(B)
  BY <1>1, FS_Subset
<1>3. Cardinality(A \cup B) <= Cardinality(Node)
  <2>1. A \cup B \subseteq Node
    OBVIOUS
  <2> QED
    BY <1>1, <2>1, FS_Subset
<1>4. Cardinality(A \cup B) = Cardinality(A) + Cardinality(B) - Cardinality(A \cap B)
  BY <1>2, FS_Union
<1>5. /\ Cardinality(A) \in Nat /\ Cardinality(B) \in Nat
      /\ Cardinality(Node) \in Nat /\ Cardinality(A \cup B) \in Nat
  BY <1>1, <1>2, FS_CardinalityType, FS_Union
<1>6. A \cap B = {} => Cardinality(A \cap B) = 0
  BY FS_EmptySet
<1> QED
  BY <1>3, <1>4, <1>5, <1>6

\* With one vote per node and term, two majorities of a term agree on the
\* candidate.
LEMMA MajorityDecides == TypeOK /\ OneVotePerTerm => ElectionSafety
<1> SUFFICES ASSUME TypeOK, OneVotePerTerm, NEW a \in granted, NEW b \in granted,
                    a.Term = b.Term,
                    Elected(a.Candidate, a.Term), Elected(b.Candidate, a.Term)
             PROVE  a.Candidate = b.Candidate
  BY DEF ElectionSafety
<1> DEFINE Voters(c) ==
             {n \in Node : [Term |-> a.Term, Voter |-> n, Candidate |-> c] \in granted}
<1>1. PICK n \in Node : n \in Voters(a.Candidate) /\ n \in Voters(b.Candidate)
  <2>1. /\ 2 * Cardinality(Voters(a.Candidate)) > Cardinality(Node)
        /\ 2 * Cardinality(Voters(b.Candidate)) > Cardinality(Node)
    BY DEF Elected
  <2>2. Voters(a.Candidate) \in SUBSET Node /\ Voters(b.Candidate) \in SUBSET Node
    OBVIOUS
  <2> HIDE DEF Voters
  <2>3. Voters(a.Candidate) \cap Voters(b.Candidate) # {}
    BY <2>1, <2>2, MajoritiesMeet
  <2> QED
    BY <2>2, <2>3
<1>2. /\ [Term |-> a.Term, Voter |-> n, Candidate |-> a.Candidate] \in granted
      /\ [Term |-> a.Term, Voter |-> n, Candidate |-> b.Candidate] \in granted
  BY <1>1
<1> QED
  BY <1>2 DEF OneVotePerTerm

\* The type invariant and the vote invariant together.
LEMMA VotesKept == Spec => [](TypeOK /\ VoteInv)
<1>1. Init => LogInv /\ VoteInv
  BY LogInit, VoteInit
<1>2. LogInv /\ VoteInv /\ [Next]_vars => (LogInv /\ VoteInv)'
  <2>1. LogInv' => TypeOK'
    BY DEF LogInv
  <2> QED
    BY <2>1, LogStep, VoteStep
<1>3. LogInv /\ VoteInv => TypeOK /\ VoteInv
  BY DEF LogInv
<1> QED
  BY <1>1, <1>2, <1>3, PTL DEF Spec

\* RequestVote and startElection: as long as no node restarts, no node votes for
\* two candidates in one term.
THEOREM VotesOnce == Spec => [](restarts = 0 => OneVotePerTerm)
<1>1. TypeOK /\ VoteInv => (restarts = 0 => OneVotePerTerm)
  BY DEF VoteInv
<1> QED
  BY <1>1, VotesKept, PTL

\* As long as no node restarts, no two candidates have a majority in one term.
THEOREM ElectionsSafe == Spec => [](restarts = 0 => ElectionSafety)
<1>1. TypeOK /\ VoteInv => (restarts = 0 => ElectionSafety)
  BY MajorityDecides DEF VoteInv
<1> QED
  BY <1>1, VotesKept, PTL

=============================================================================
