-------------------------------- MODULE Raft --------------------------------
(***************************************************************************)
(* The Raft core as far as it is written: voting (internal/raft/vote.go),  *)
(* starting an election (election.go) and the local log with its commit    *)
(* index and applier (raft.go).  Vote requests travel over gRPC            *)
(* (internal/raftgrpc): they are delayed, lost, or sent again.             *)
(*                                                                         *)
(* Counting votes, leaders and log replication do not exist yet.  The log  *)
(* operations have no callers outside the tests, so they are called here   *)
(* at any time with any argument.  Nothing is persisted: a restart begins  *)
(* from New.                                                               *)
(***************************************************************************)
EXTENDS Integers, Sequences, FiniteSets

CONSTANTS
    Node,       \* the nodes
    Command,    \* commands of log entries
    EntryTerm,  \* the terms that entries are appended with
    Nil,        \* the empty votedFor, and the absence of a message to apply
    MaxTerm,    \* bound: terms
    MaxLog,     \* bound: log entries of a node
    MaxCommit,  \* bound: committed entries of a node
    MaxRestarts \* bound: restarts

ASSUME NodeAssumption == IsFiniteSet(Node) /\ Nil \notin Node

ASSUME TermAssumption == EntryTerm \subseteq Nat

ASSUME BoundAssumption == {MaxTerm, MaxLog, MaxCommit, MaxRestarts} \subseteq Nat

VARIABLES
    role,        \* Follower or Candidate; nothing makes a leader yet
    currentTerm,
    votedFor,
    log,         \* without the dummy entry: log[i] is the entry of index i
    commitIndex,
    lastApplied,
    applying,    \* a call of applyCommitted is running
    msg,         \* the ApplyMsg that it has read and not counted
    applied,     \* what the state machine has received
    requests,    \* vote requests that may reach any node
    granted,     \* history: the votes given
    restarts     \* restarts so far

voteVars == <<role, currentTerm, votedFor>>
logVars == <<log, commitIndex, lastApplied, applying, msg, applied>>
vars == <<voteVars, logVars, requests, granted, restarts>>

LogEntry == [Term : Nat, Command : Command]

ApplyMsg == [Index : Nat \ {0}, Entry : LogEntry, Stage : {"read", "sent"}]

RequestVoteRequest ==
    [Term : Nat, CandidateID : Node, LastLogIndex : Nat, LastLogTerm : Nat]

ASSUME NilAssumption == Nil \notin ApplyMsg

Vote == [Term : Nat, Voter : Node, Candidate : Node]

TypeOK ==
    /\ role \in [Node -> {"Follower", "Candidate"}]
    /\ currentTerm \in [Node -> Nat]
    /\ votedFor \in [Node -> Node \cup {Nil}]
    /\ log \in [Node -> Seq(LogEntry)]
    /\ commitIndex \in [Node -> Nat]
    /\ lastApplied \in [Node -> Nat]
    /\ applying \in [Node -> BOOLEAN]
    /\ msg \in [Node -> ApplyMsg \cup {Nil}]
    /\ applied \in [Node -> Seq(LogEntry)]
    /\ requests \subseteq RequestVoteRequest
    /\ granted \subseteq Vote
    /\ restarts \in 0 .. MaxRestarts

Init ==
    /\ role = [n \in Node |-> "Follower"]
    /\ currentTerm = [n \in Node |-> 0]
    /\ votedFor = [n \in Node |-> Nil]
    /\ log = [n \in Node |-> <<>>]
    /\ commitIndex = [n \in Node |-> 0]
    /\ lastApplied = [n \in Node |-> 0]
    /\ applying = [n \in Node |-> FALSE]
    /\ msg = [n \in Node |-> Nil]
    /\ applied = [n \in Node |-> <<>>]
    /\ requests = {}
    /\ granted = {}
    /\ restarts = 0

\* Faulty LastLogIndex: the dummy entry is forgotten.
LastLogIndexShort(n) == Len(log[n]) - 1

LastLogIndex(n) == Len(log[n])

LastLogTerm(n) == IF log[n] = <<>> THEN 0 ELSE log[n][Len(log[n])].Term

-----------------------------------------------------------------------------
(* Elections *)

Grant(t, n, c) == granted' = granted \cup {[Term |-> t, Voter |-> n, Candidate |-> c]}

\* becomeCandidateLocked and requestVoteRequestLocked.
StartElection(n) ==
    /\ currentTerm[n] < MaxTerm
    /\ currentTerm' = [currentTerm EXCEPT ![n] = @ + 1]
    /\ role' = [role EXCEPT ![n] = "Candidate"]
    /\ votedFor' = [votedFor EXCEPT ![n] = n]
    /\ requests' = requests \cup {[Term |-> currentTerm[n] + 1,
                                   CandidateID |-> n,
                                   LastLogIndex |-> LastLogIndex(n),
                                   LastLogTerm |-> LastLogTerm(n)]}
    /\ Grant(currentTerm[n] + 1, n, n)
    /\ UNCHANGED <<logVars, restarts>>

candidateLogUpToDate(candidateIndex, candidateTerm, localIndex, localTerm) ==
    IF candidateTerm # localTerm
    THEN candidateTerm > localTerm
    ELSE candidateIndex >= localIndex

\* becomeFollowerLocked, as RequestVote calls it: a newer term clears the vote.
AdoptTerm(n, term) ==
    /\ currentTerm' = [currentTerm EXCEPT ![n] = term]
    /\ role' = IF term > currentTerm[n] THEN [role EXCEPT ![n] = "Follower"] ELSE role

\* Faulty VoteIn: a request of the same term clears the vote too.
VoteInForgotten(n, term) == IF term >= currentTerm[n] THEN Nil ELSE votedFor[n]

\* The vote that node n has given in the term of the request.
VoteIn(n, term) == IF term > currentTerm[n] THEN Nil ELSE votedFor[n]

\* Faulty MayVote: votedFor is not looked at.
MayVoteAgain(n, req) ==
    candidateLogUpToDate(req.LastLogIndex, req.LastLogTerm, LastLogIndex(n), LastLogTerm(n))

\* Whether node n may vote for the request, once it has adopted its term.
MayVote(n, req) ==
    /\ VoteIn(n, req.Term) \in {Nil, req.CandidateID}
    /\ candidateLogUpToDate(req.LastLogIndex, req.LastLogTerm, LastLogIndex(n), LastLogTerm(n))

\* RequestVote of a request that is not stale; a stale one changes nothing.  The
\* request stays: it may be sent again.
RequestVote(n, req) ==
    /\ req.Term >= currentTerm[n]
    /\ AdoptTerm(n, req.Term)
    /\ IF MayVote(n, req)
       THEN /\ votedFor' = [votedFor EXCEPT ![n] = req.CandidateID]
            /\ Grant(req.Term, n, req.CandidateID)
       ELSE /\ votedFor' = [votedFor EXCEPT ![n] = VoteIn(n, req.Term)]
            /\ UNCHANGED granted
    /\ UNCHANGED <<logVars, requests, restarts>>

-----------------------------------------------------------------------------
(* The log *)

AppendEntry(n, term, command) ==
    /\ Len(log[n]) < MaxLog
    /\ log' = [log EXCEPT ![n] = Append(@, [Term |-> term, Command |-> command])]
    /\ UNCHANGED <<voteVars, commitIndex, lastApplied, applying, msg, applied, requests,
                   granted, restarts>>

\* Faulty TruncateFrom: committed entries are not refused.
TruncateCommitted(n, index) ==
    /\ index <= Len(log[n])
    /\ log' = [log EXCEPT ![n] = SubSeq(@, 1, index - 1)]
    /\ UNCHANGED <<voteVars, commitIndex, lastApplied, applying, msg, applied, requests,
                   granted, restarts>>

\* truncateFrom refuses the dummy entry, committed entries and what is not there.
TruncateFrom(n, index) ==
    /\ index > commitIndex[n]
    /\ index <= Len(log[n])
    /\ log' = [log EXCEPT ![n] = SubSeq(@, 1, index - 1)]
    /\ UNCHANGED <<voteVars, commitIndex, lastApplied, applying, msg, applied, requests,
                   granted, restarts>>

AdvanceCommit(n, index) ==
    /\ index <= MaxCommit
    /\ index <= Len(log[n])
    /\ index > commitIndex[n]
    /\ commitIndex' = [commitIndex EXCEPT ![n] = index]
    /\ UNCHANGED <<voteVars, log, lastApplied, applying, msg, applied, requests, granted,
                   restarts>>

\* applyCommitted is called, by one applier at a time as its comment assumes.  A
\* call that finds nothing to apply returns at once.
ApplyCommitted(n) ==
    /\ ~applying[n]
    /\ lastApplied[n] < commitIndex[n]
    /\ applying' = [applying EXCEPT ![n] = TRUE]
    /\ UNCHANGED <<voteVars, log, commitIndex, lastApplied, msg, applied, requests, granted,
                   restarts>>

\* One round of its loop: it reads the next entry and unlocks,
ReadCommitted(n) ==
    /\ applying[n]
    /\ msg[n] = Nil
    /\ lastApplied[n] < commitIndex[n]
    /\ msg' = [msg EXCEPT ![n] = [Index |-> lastApplied[n] + 1,
                                  Entry |-> log[n][lastApplied[n] + 1],
                                  Stage |-> "read"]]
    /\ UNCHANGED <<voteVars, log, commitIndex, lastApplied, applying, applied, requests,
                   granted, restarts>>

\* sends it to the state machine,
SendApply(n) ==
    /\ msg[n] # Nil
    /\ msg[n].Stage = "read"
    /\ applied' = [applied EXCEPT ![n] = Append(@, msg[n].Entry)]
    /\ msg' = [msg EXCEPT ![n].Stage = "sent"]
    /\ UNCHANGED <<voteVars, log, commitIndex, lastApplied, applying, requests, granted,
                   restarts>>

\* Faulty CountApplied: the commit index is taken for the index applied.
CountCommitted(n) ==
    /\ msg[n] # Nil
    /\ msg[n].Stage = "sent"
    /\ lastApplied' = [lastApplied EXCEPT ![n] = commitIndex[n]]
    /\ msg' = [msg EXCEPT ![n] = Nil]
    /\ UNCHANGED <<voteVars, log, commitIndex, applying, applied, requests, granted, restarts>>

\* and locks again to count it.
CountApplied(n) ==
    /\ msg[n] # Nil
    /\ msg[n].Stage = "sent"
    /\ lastApplied' = [lastApplied EXCEPT ![n] = msg[n].Index]
    /\ msg' = [msg EXCEPT ![n] = Nil]
    /\ UNCHANGED <<voteVars, log, commitIndex, applying, applied, requests, granted, restarts>>

\* It returns when nothing committed is left.
ApplyDone(n) ==
    /\ applying[n]
    /\ msg[n] = Nil
    /\ lastApplied[n] >= commitIndex[n]
    /\ applying' = [applying EXCEPT ![n] = FALSE]
    /\ UNCHANGED <<voteVars, log, commitIndex, lastApplied, msg, applied, requests, granted,
                   restarts>>

-----------------------------------------------------------------------------

\* New: a restarted process knows nothing, and neither does its state machine.
Restart(n) ==
    /\ restarts < MaxRestarts
    /\ restarts' = restarts + 1
    /\ role' = [role EXCEPT ![n] = "Follower"]
    /\ currentTerm' = [currentTerm EXCEPT ![n] = 0]
    /\ votedFor' = [votedFor EXCEPT ![n] = Nil]
    /\ log' = [log EXCEPT ![n] = <<>>]
    /\ commitIndex' = [commitIndex EXCEPT ![n] = 0]
    /\ lastApplied' = [lastApplied EXCEPT ![n] = 0]
    /\ applying' = [applying EXCEPT ![n] = FALSE]
    /\ msg' = [msg EXCEPT ![n] = Nil]
    /\ applied' = [applied EXCEPT ![n] = <<>>]
    /\ UNCHANGED <<requests, granted>>

\* One step of the goroutine that runs applyCommitted.
ApplyStep(n) == ReadCommitted(n) \/ SendApply(n) \/ CountApplied(n) \/ ApplyDone(n)

Next ==
    \E n \in Node :
        \/ StartElection(n)
        \/ \E req \in requests : RequestVote(n, req)
        \/ \E term \in EntryTerm, command \in Command : AppendEntry(n, term, command)
        \/ \E index \in 1 .. MaxLog : TruncateFrom(n, index) \/ AdvanceCommit(n, index)
        \/ ApplyCommitted(n)
        \/ ApplyStep(n)
        \/ Restart(n)

Spec == Init /\ [][Next]_vars

\* A call of applyCommitted runs on as long as the state machine takes what it is
\* sent.  Nothing makes anyone call it.
Fairness == \A n \in Node : WF_vars(ApplyStep(n))

FairSpec == Spec /\ Fairness

-----------------------------------------------------------------------------
(* Properties *)

\* RequestVote and startElection ("in one term only one candidate gets the
\* vote"): a node never votes for two candidates in the same term, whatever
\* requests arrive late or again and whichever elections it starts meanwhile.
OneVotePerTerm ==
    \A a, b \in granted :
        a.Term = b.Term /\ a.Voter = b.Voter => a.Candidate = b.Candidate

\* Candidate c has the votes of a majority in term t.
Elected(c, t) ==
    2 * Cardinality({n \in Node : [Term |-> t, Voter |-> n, Candidate |-> c] \in granted})
        > Cardinality(Node)

\* What the votes are for: no two candidates have a majority in the same term.
ElectionSafety ==
    \A a, b \in granted :
        a.Term = b.Term /\ Elected(a.Candidate, a.Term) /\ Elected(b.Candidate, a.Term)
        => a.Candidate = b.Candidate

\* applyCommitted, which unlocks between reading an entry and counting it, against
\* truncateFrom and advanceCommit: the state machine has received the first
\* entries of the log, each once and in order, and none of them ever leaves the log.
AppliedFromLog ==
    \A n \in Node :
        /\ Len(applied[n]) <= commitIndex[n]
        /\ commitIndex[n] <= Len(log[n])
        /\ \A i \in 1 .. Len(applied[n]) : applied[n][i] = log[n][i]

\* applyCommitted: a running call delivers every entry that is committed, those
\* committed while it unlocks included, unless the node restarts.
CommittedApplied ==
    \A n \in Node, i \in 1 .. MaxCommit :
        applying[n] /\ commitIndex[n] >= i ~> Len(applied[n]) >= i \/ commitIndex[n] = 0

\* A node's committed entries, as the state machine behind it may rely on them.
Committed == [n \in Node |-> SubSeq(log[n], 1, commitIndex[n])]

Promise == INSTANCE CommittedLog WITH
    Entry <- LogEntry, committed <- Committed, delivered <- applied

\* appendEntry, truncateFrom, advanceCommit and applyCommitted together are a log whose
\* committed entries never change, delivered one by one, each at the moment when it is
\* the next: the node implements CommittedLog, and only a restart forgets.
KeepsPromise == Promise!Spec

=============================================================================
