----------------------------- MODULE CommittedLog -----------------------------
(***************************************************************************)
(* What the log of a Raft node promises to the state machine behind it:    *)
(* entries are committed at the end and stay, and are delivered one by     *)
(* one, in order, until the node restarts.  How the log gets its entries,  *)
(* what is not committed and when the node unlocks do not appear.          *)
(***************************************************************************)
EXTENDS Integers, Sequences

CONSTANTS
    Node, \* the nodes
    Entry \* log entries

VARIABLES
    committed, \* committed[n]: the entries that node n has committed
    delivered  \* delivered[n]: those that its state machine has received

Init ==
    /\ committed = [n \in Node |-> <<>>]
    /\ delivered = [n \in Node |-> <<>>]

\* Node n commits more entries behind those that it has committed.
Commit(n) ==
    /\ \E k \in 1 .. Len(committed'[n]) : SubSeq(committed'[n], 1, k - 1) = committed[n]
    /\ committed'[n] \in Seq(Entry)
    /\ \A m \in Node \ {n} : committed'[m] = committed[m]
    /\ UNCHANGED delivered

\* Its state machine receives the next one.
Deliver(n) ==
    LET next == Len(delivered[n]) + 1
    IN  /\ next <= Len(committed[n])
        /\ delivered' = [delivered EXCEPT ![n] = Append(@, committed[n][next])]
        /\ UNCHANGED committed

\* Log and state machine begin anew.
Forget(n) ==
    /\ committed' = [committed EXCEPT ![n] = <<>>]
    /\ delivered' = [delivered EXCEPT ![n] = <<>>]

Next == \E n \in Node : Commit(n) \/ Deliver(n) \/ Forget(n)

Spec == Init /\ [][Next]_<<committed, delivered>>

=============================================================================
