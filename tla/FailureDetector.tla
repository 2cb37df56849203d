--------------------------- MODULE FailureDetector ---------------------------
(***************************************************************************)
(* The failure detector of every node (internal/node/membership.go), the   *)
(* background tasks that feed it (probe.go, gossip.go) and the handlers    *)
(* that receive pings, gossip and membership changes (handler.go).         *)
(*                                                                         *)
(* A task or a handler takes one step between two points where another one *)
(* can run: probeOnce picks a target, pings, asks helpers and marks the    *)
(* result; handleGossip reads the ring, then merges; handleMembershipSync  *)
(* changes the ring, then the detector, member by member, and several of   *)
(* its calls can run at a node: it takes no lock.  Nothing of this is      *)
(* persisted.  Times are left out, except that the clock is the first   *)
(* incarnation of a process.                                               *)
(***************************************************************************)
EXTENDS Integers, FiniteSets, FiniteSetsExt

CONSTANTS
    Node,        \* node addresses
    Seeds,       \* Seeds[n]: the members that node n is started with
    Config,      \* Config[n]: the member sets that membership syncs carry to node n
    Sync,        \* calls of handleMembershipSync, several of which may run at a node
    Start,       \* Start[n]: the clock of node n when it is first started
    Clock,       \* Clock[n]: readings of its clock when it is started again
    Nil,         \* an untracked member, an idle task
    MaxProbes,   \* bound: probes of all nodes
    MaxErrors,   \* bound: pings and gossip that fail although the target is up
    MaxCrashes,  \* bound: crashes
    MaxSyncs     \* bound: membership syncs

ASSUME SeedAssumption ==
    Seeds \in [Node -> SUBSET Node] /\ Config \in [Node -> SUBSET SUBSET Node]

ASSUME ClockAssumption ==
    Start \in [Node -> Nat \ {0}] /\ Clock \in [Node -> SUBSET (Nat \ {0})]

ASSUME BoundAssumption == {MaxProbes, MaxErrors, MaxCrashes, MaxSyncs} \subseteq Nat

VARIABLES
    up,          \* the process runs
    ring,        \* ring.Members()
    members,     \* members[n][m]: what node n holds about m, or Nil
    probe,       \* the running probeOnce
    sending,     \* the gossip that the running gossipOnce waits for
    late,        \* gossip whose sender has given up and that may still arrive
    sync,        \* the running calls of handleMembershipSync
    crossed,     \* history: whom syncs have removed and added at the same time
    used         \* how much of each bound is used

netVars == <<sending, late>>
syncVars == <<sync, crossed>>
vars == <<up, ring, members, probe, netVars, syncVars, used>>

\* As String writes them and parseNodeStatus reads them back.
nodeStatus == {"alive", "suspect", "dead"}

memberState ==
    [Status : nodeStatus, FailureCount : Nat, Incarnation : Nat, Version : Nat]

gossipMember == [Status : nodeStatus, Incarnation : Nat, Version : Nat]

Gossip == [to : Node, filtered : BOOLEAN, about : [Node -> gossipMember \cup {Nil}]]

Probe == [target : Node, stage : {"direct", "indirect", "reached", "failed"}]

\* What the loops of a handleMembershipSync at node have left, and the member whose ring
\* entry it has changed, not yet the detector.
SyncCall ==
    [node : Node, config : SUBSET Node, removing : SUBSET Node, adding : SUBSET Node,
     pending : Node \cup {Nil}]

ASSUME NilAssumption ==
    Nil \notin Node \cup memberState \cup gossipMember \cup Gossip \cup Probe \cup SyncCall

TypeOK ==
    /\ up \in [Node -> BOOLEAN]
    /\ ring \in [Node -> SUBSET Node]
    /\ members \in [Node -> [Node -> memberState \cup {Nil}]]
    /\ probe \in [Node -> Probe \cup {Nil}]
    /\ sending \in [Node -> Gossip \cup {Nil}]
    /\ late \subseteq Gossip
    /\ sync \in [Sync -> SyncCall \cup {Nil}]
    /\ crossed \in [Node -> SUBSET Node]
    /\ used \in [{"probes", "errors", "crashes", "syncs"} -> Nat]

Use(kind, bound) ==
    /\ used[kind] < bound
    /\ used' = [used EXCEPT ![kind] = @ + 1]

\* A member that has just been tracked, and the zero value that Go returns for a
\* member that is not in the map.
Fresh == [Status |-> "alive", FailureCount |-> 0, Incarnation |-> 0, Version |-> 0]

Lookup(n, m) == IF members[n][m] = Nil THEN Fresh ELSE members[n][m]

\* newFailureDetector at node n when the clock reads t.
newFailureDetector(n, t) ==
    [m \in Node |-> IF m = n THEN [Fresh EXCEPT !.Incarnation = t, !.Version = 1]
                    ELSE IF m \in Seeds[n] THEN Fresh
                    ELSE Nil]

Init ==
    /\ up = [n \in Node |-> TRUE]
    /\ ring = Seeds
    /\ members = [n \in Node |-> newFailureDetector(n, Start[n])]
    /\ probe = [n \in Node |-> Nil]
    /\ sending = [n \in Node |-> Nil]
    /\ late = {}
    /\ sync = [s \in Sync |-> Nil]
    /\ crossed = [n \in Node |-> {}]
    /\ used = [kind \in {"probes", "errors", "crashes", "syncs"} |-> 0]

List(n) == {m \in Node : members[n][m] # Nil}

\* Whom randomMembers chooses from.
Others(n) == List(n) \ {n}

SetMember(n, m, s) == members' = [members EXCEPT ![n][m] = s]

-----------------------------------------------------------------------------
(* Probes *)

\* Faulty MarkSuccess: a success takes back one failure.
MarkSuccessPartly(s) ==
    [Status |-> "alive", FailureCount |-> s.FailureCount - 1,
     Incarnation |-> s.Incarnation, Version |-> s.Version + 1]

MarkSuccess(s) ==
    [Status |-> "alive", FailureCount |-> 0,
     Incarnation |-> s.Incarnation, Version |-> s.Version + 1]

\* Faulty MarkFailure: the version is not raised.
MarkFailureSilently(s) ==
    [Status |-> IF s.FailureCount + 1 >= 3 THEN "dead" ELSE "suspect",
     FailureCount |-> s.FailureCount + 1,
     Incarnation |-> s.Incarnation, Version |-> s.Version]

MarkFailure(s) ==
    [Status |-> IF s.FailureCount + 1 >= 3 THEN "dead" ELSE "suspect",
     FailureCount |-> s.FailureCount + 1,
     Incarnation |-> s.Incarnation, Version |-> s.Version + 1]

\* randomProbeTarget.
ProbeStart(n, m) ==
    /\ up[n]
    /\ probe[n] = Nil
    /\ m \in Others(n)
    /\ Use("probes", MaxProbes)
    /\ probe' = [probe EXCEPT ![n] = [target |-> m, stage |-> "direct"]]
    /\ UNCHANGED <<up, ring, members, netVars, syncVars>>

ProbeAt(n, stage) == probe[n] # Nil /\ probe[n].stage = stage

\* A call of n to node m that must fail, or fails by a lost message or a timeout.
CallFails(m) == IF up[m] THEN Use("errors", MaxErrors) ELSE UNCHANGED used

\* pingNode.
DirectPing(n) ==
    /\ ProbeAt(n, "direct")
    /\ \/ /\ up[probe[n].target]
          /\ probe' = [probe EXCEPT ![n].stage = "reached"]
          /\ UNCHANGED used
       \/ /\ CallFails(probe[n].target)
          /\ probe' = [probe EXCEPT ![n].stage = "indirect"]
    /\ UNCHANGED <<up, ring, members, netVars, syncVars>>

\* handlePingRequest of helper h.
HelperReaches(h, m) == up[h] /\ up[m]

\* indirectProbe: up to two random helpers ping the target, one success is enough.
\* Helpers are asked at the same time, and no answer of theirs outlasts this step.
IndirectProbe(n) ==
    /\ ProbeAt(n, "indirect")
    /\ LET target == probe[n].target
           candidates == Others(n) \ {target}
       IN  \E helpers \in SUBSET candidates :
              /\ Cardinality(helpers) = Min({2, Cardinality(candidates)})
              /\ \/ /\ \E h \in helpers : HelperReaches(h, target)
                    /\ probe' = [probe EXCEPT ![n].stage = "reached"]
                    /\ UNCHANGED used
                 \/ /\ IF \E h \in helpers : HelperReaches(h, target)
                       THEN Use("errors", MaxErrors)
                       ELSE UNCHANGED used
                    /\ probe' = [probe EXCEPT ![n].stage = "failed"]
    /\ UNCHANGED <<up, ring, members, netVars, syncVars>>

\* probeOnce marks its target, which is put into the map if it is not there any more.
ProbeEnd(n) ==
    /\ \/ /\ ProbeAt(n, "reached")
          /\ SetMember(n, probe[n].target, MarkSuccess(Lookup(n, probe[n].target)))
       \/ /\ ProbeAt(n, "failed")
          /\ SetMember(n, probe[n].target, MarkFailure(Lookup(n, probe[n].target)))
    /\ probe' = [probe EXCEPT ![n] = Nil]
    /\ UNCHANGED <<up, ring, netVars, syncVars, used>>

-----------------------------------------------------------------------------
(* Gossip *)

newerMemberState(remote, local) ==
    \/ remote.Incarnation > local.Incarnation
    \/ remote.Incarnation = local.Incarnation /\ remote.Version > local.Version

GossipSnapshot(n) ==
    [m \in Node |->
        IF members[n][m] = Nil THEN Nil
        ELSE [Status |-> members[n][m].Status,
              Incarnation |-> members[n][m].Incarnation,
              Version |-> members[n][m].Version]]

\* Faulty refuteSelf: the incarnation of the suspicion is taken over, not raised.
refuteSelfInPlace(remote) ==
    [Status |-> "alive", FailureCount |-> 0,
     Incarnation |-> remote.Incarnation, Version |-> remote.Version]

\* Nothing of an incarnation below its own reaches it: Merge has compared them.
refuteSelf(remote) ==
    [Status |-> "alive", FailureCount |-> 0,
     Incarnation |-> remote.Incarnation + 1, Version |-> 1]

\* What Merge leaves at node n about itself,
MergeSelf(n, remote) ==
    IF remote.Status # "alive" /\ newerMemberState(remote, Lookup(n, n))
    THEN refuteSelf(remote)
    ELSE members[n][n]

\* Faulty MergeOther: whatever arrives is taken over.
MergeOtherAlways(n, m, remote) ==
    [Status |-> remote.Status, FailureCount |-> Lookup(n, m).FailureCount,
     Incarnation |-> remote.Incarnation, Version |-> remote.Version]

\* and about another member m.
MergeOther(n, m, remote) ==
    IF members[n][m] = Nil \/ newerMemberState(remote, Lookup(n, m))
    THEN [Status |-> remote.Status, FailureCount |-> Lookup(n, m).FailureCount,
          Incarnation |-> remote.Incarnation, Version |-> remote.Version]
    ELSE members[n][m]

Merge(n, about) ==
    members' = [members EXCEPT ![n] =
        [m \in Node |-> IF about[m] = Nil THEN members[n][m]
                        ELSE IF m = n THEN MergeSelf(n, about[m])
                        ELSE MergeOther(n, m, about[m])]]

\* gossipOnce sends to random members, one after the other: sendGossip takes the
\* snapshot and sends it.  A round is two such steps with different targets.
SendGossip(n, m) ==
    /\ up[n]
    /\ sending[n] = Nil
    /\ m \in Others(n)
    /\ sending' = [sending EXCEPT ![n] =
                     [to |-> m, filtered |-> FALSE, about |-> GossipSnapshot(n)]]
    /\ UNCHANGED <<up, ring, members, probe, late, syncVars, used>>

\* handleGossip drops what is not about a member of its ring,
Filtered(g) ==
    [g EXCEPT !.filtered = TRUE,
              !.about = [m \in Node |-> IF m \in ring[g.to] THEN g.about[m] ELSE Nil]]

\* and merges the rest.  The sender waits for the answer.
HandleGossip(n) ==
    /\ sending[n] # Nil
    /\ up[sending[n].to]
    /\ IF sending[n].filtered
       THEN /\ Merge(sending[n].to, sending[n].about)
            /\ sending' = [sending EXCEPT ![n] = Nil]
       ELSE /\ sending' = [sending EXCEPT ![n] = Filtered(sending[n])]
            /\ UNCHANGED members
    /\ UNCHANGED <<up, ring, probe, late, syncVars, used>>

\* The sender gets an error or gives up after two seconds; the gossip may have been
\* lost or may still be on its way.
GossipError(n) ==
    /\ sending[n] # Nil
    /\ CallFails(sending[n].to)
    /\ late' = IF up[sending[n].to] THEN late \cup {sending[n]} ELSE late
    /\ sending' = [sending EXCEPT ![n] = Nil]
    /\ UNCHANGED <<up, ring, members, probe, syncVars>>

\* handleGossip of a gossip that nobody waits for.
LateGossip(g) ==
    /\ IF g.filtered
       THEN /\ Merge(g.to, g.about)
            /\ late' = late \ {g}
       ELSE /\ late' = (late \ {g}) \cup {Filtered(g)}
            /\ UNCHANGED members
    /\ UNCHANGED <<up, ring, probe, sending, syncVars, used>>

-----------------------------------------------------------------------------
(* Membership changes *)

\* The syncs that run at node n.
SyncsAt(n) == {s \in Sync : sync[s] # Nil /\ sync[s].node = n}

\* Sync s has not yet removed member m, in the ring and in the detector,
Removes(s, m) ==
    m \in sync[s].removing \/ (sync[s].pending = m /\ m \notin sync[s].config)

\* or not yet added it.
Adds(s, m) ==
    m \in sync[s].adding \/ (sync[s].pending = m /\ m \in sync[s].config)

\* Whom a sync that starts at node n adds while another one removes it, or the other way.
Crosses(n, config) ==
    {m \in Node : IF m \in config THEN \E t \in SyncsAt(n) : Removes(t, m)
                  ELSE m \in ring[n] /\ \E t \in SyncsAt(n) : Adds(t, m)}

\* handleMembershipSync accepts a configuration that is newer than its own, whether
\* or not another one is being applied, and reads the ring.
SyncStart(s, n, config) ==
    /\ up[n]
    /\ sync[s] = Nil
    /\ Use("syncs", MaxSyncs)
    /\ sync' = [sync EXCEPT ![s] =
                  [node |-> n, config |-> config, removing |-> ring[n] \ config,
                   adding |-> config, pending |-> Nil]]
    /\ crossed' = [crossed EXCEPT ![n] = @ \cup Crosses(n, config)]
    /\ UNCHANGED <<up, ring, members, probe, netVars>>

Between(s) == sync[s] # Nil /\ sync[s].pending = Nil

\* First it removes the members that are not in the configuration, each from the
\* ring and then from the detector,
SyncRemove(s, m) ==
    /\ Between(s)
    /\ m \in sync[s].removing
    /\ ring' = [ring EXCEPT ![sync[s].node] = @ \ {m}]
    /\ sync' = [sync EXCEPT ![s] = [sync[s] EXCEPT !.removing = @ \ {m}, !.pending = m]]
    /\ UNCHANGED <<up, members, probe, netVars, crossed, used>>

Removed(s) == sync[s] # Nil /\ sync[s].pending \notin sync[s].config \cup {Nil}

UntrackMember(s) ==
    /\ Removed(s)
    /\ SetMember(sync[s].node, sync[s].pending, Nil)
    /\ sync' = [sync EXCEPT ![s].pending = Nil]
    /\ UNCHANGED <<up, ring, probe, netVars, crossed, used>>

\* then it adds those of the configuration.  For members that are there already Add
\* and TrackMember change nothing.
SyncAdd(s, m) ==
    /\ Between(s)
    /\ sync[s].removing = {}
    /\ m \in sync[s].adding
    /\ ring' = [ring EXCEPT ![sync[s].node] = @ \cup {m}]
    /\ sync' = [sync EXCEPT ![s] = [sync[s] EXCEPT !.adding = @ \ {m}, !.pending = m]]
    /\ UNCHANGED <<up, members, probe, netVars, crossed, used>>

Added(s) == sync[s] # Nil /\ sync[s].pending \in sync[s].config \ {Nil}

\* The member is tracked, and stays so unless a running sync removes it.
Uncross(n, m) ==
    crossed' = IF \E t \in SyncsAt(n) : Removes(t, m) THEN crossed
               ELSE [crossed EXCEPT ![n] = @ \ {m}]

\* Faulty TrackMember: the detector is not told.
TrackNothing(s) ==
    /\ Added(s)
    /\ sync' = [sync EXCEPT ![s].pending = Nil]
    /\ Uncross(sync[s].node, sync[s].pending)
    /\ UNCHANGED <<up, ring, members, probe, netVars, used>>

TrackMember(s) ==
    /\ Added(s)
    /\ LET n == sync[s].node
           m == sync[s].pending
       IN  SetMember(n, m, Lookup(n, m)) /\ Uncross(n, m)
    /\ sync' = [sync EXCEPT ![s].pending = Nil]
    /\ UNCHANGED <<up, ring, probe, netVars, used>>

SyncEnd(s) ==
    /\ Between(s)
    /\ sync[s].removing = {} /\ sync[s].adding = {}
    /\ sync' = [sync EXCEPT ![s] = Nil]
    /\ UNCHANGED <<up, ring, members, probe, netVars, crossed, used>>

-----------------------------------------------------------------------------
(* Crashes *)

\* Node n is handling the gossip that node s waits for.
HandledBy(s, n) == sending[s] # Nil /\ sending[s].to = n /\ sending[s].filtered

\* The process ends: its tasks and handlers are gone, its gossip may still arrive.
\* A gossip that it was handling fails; one that has not reached it may find it
\* restarted.
Crash(n) ==
    /\ up[n]
    /\ Use("crashes", MaxCrashes)
    /\ up' = [up EXCEPT ![n] = FALSE]
    /\ probe' = [probe EXCEPT ![n] = Nil]
    /\ sending' = [s \in Node |->
                    IF s = n \/ HandledBy(s, n) THEN Nil ELSE sending[s]]
    /\ late' = {g \in late \cup ({sending[n]} \ {Nil}) : g.to # n /\ up[g.to]}
    /\ sync' = [s \in Sync |-> IF s \in SyncsAt(n) THEN Nil ELSE sync[s]]
    /\ crossed' = [crossed EXCEPT ![n] = {}]
    /\ UNCHANGED <<ring, members>>

\* New, at a time t of the node's clock, which may have been set back.
Restart(n, t) ==
    /\ ~up[n]
    /\ up' = [up EXCEPT ![n] = TRUE]
    /\ ring' = [ring EXCEPT ![n] = Seeds[n]]
    /\ members' = [members EXCEPT ![n] = newFailureDetector(n, t)]
    /\ UNCHANGED <<probe, netVars, syncVars, used>>

-----------------------------------------------------------------------------

ProbeStep(n) == DirectPing(n) \/ IndirectProbe(n) \/ ProbeEnd(n)

GossipStep(n) == HandleGossip(n) \/ GossipError(n)

SyncStep(s) ==
    \/ \E m \in Node : SyncRemove(s, m) \/ SyncAdd(s, m)
    \/ UntrackMember(s) \/ TrackMember(s) \/ SyncEnd(s)

Next ==
    \/ \E n \in Node :
          \/ \E m \in Node : ProbeStart(n, m)
          \/ ProbeStep(n)
          \/ \E m \in Node : SendGossip(n, m)
          \/ GossipStep(n)
          \/ \E s \in Sync, config \in Config[n] : SyncStart(s, n, config)
          \/ Crash(n)
          \/ \E t \in Clock[n] : Restart(n, t)
    \/ \E s \in Sync : SyncStep(s)
    \/ \E g \in late : LateGossip(g)

Spec == Init /\ [][Next]_vars

\* The gossip task ticks for ever and chooses at random, so every member is sent
\* to again and again; its calls return or time out.  A sync that was accepted runs to
\* its end.  Probes, late gossip and restarts need not happen.
Fairness ==
    /\ \A n \in Node :
          /\ \A m \in Node \ {n} : SF_vars(SendGossip(n, m))
          /\ WF_vars(GossipStep(n))
    /\ \A s \in Sync : WF_vars(SyncStep(s))

FairSpec == Spec /\ Fairness

-----------------------------------------------------------------------------
(* Properties *)

\* The order of states about one member.
Supersedes(s, t) ==
    \/ s.Incarnation > t.Incarnation
    \/ s.Incarnation = t.Incarnation /\ s.Version > t.Version

\* Everything that is said about member m: by the other nodes and by gossip.
SaidAbout(m) ==
    {members[n][m] : n \in Node \ {m}}
        \cup {g.about[m] : g \in late \cup ({sending[n] : n \in Node} \ {Nil})}

\* MarkFailure, Merge and refuteSelf: no suspicion of a member ever ties with what
\* the member says of itself.  It is either out of date, so that the member's own
\* gossip overrides it, or newer, so that the member refutes it.  A tie would be
\* settled by neither, and a node that is up would be suspected for ever.
SuspicionAnswerable ==
    \A m \in Node : \A s \in SaidAbout(m) \ {Nil} :
        s.Status # "alive" =>
            Supersedes(s, Lookup(m, m)) \/ Supersedes(Lookup(m, m), s)

\* A node's view of a member only gets newer, whatever order probes end and gossip
\* arrives in, as long as the process runs and the member stays tracked.  This
\* includes the node's view of itself.
ViewMonotonic ==
    [][\A n, m \in Node :
          \/ members'[n][m] = members[n][m]
          \/ Nil \in {members[n][m], members'[n][m]}
          \/ ~up[n]
          \/ Supersedes(members'[n][m], members[n][m])]_vars

\* handleMembershipSync, with any number of its calls at a node and probes and gossip
\* between their steps: every member of the ring is tracked, and so probed and gossiped
\* to, or is being added at the moment.  It is not so for a member that one call removes
\* while another one adds it: Remove, Add and TrackMember, which finds it tracked, then
\* UntrackMember leave it in the ring and unknown to the detector.  What is promised of
\* such a member is that the next call that adds it, with no removal of it running,
\* tracks it, and that it stays tracked.
RingTracked ==
    \A n \in Node : \A m \in ring[n] \ crossed[n] :
        up[n] => members[n][m] # Nil \/ \E s \in SyncsAt(n) : sync[s].pending = m

\* Nodes n and m are up and each has both in its ring.
Connected(n, m) == up[n] /\ up[m] /\ {n, m} \subseteq ring[n] \cap ring[m]

\* What incarnations are for (ARCHITECTURE.md: a node that hears a state other than
\* alive about itself raises its incarnation and declares itself alive again): once
\* probes no longer fail, gossip alone makes every node see every connected node as
\* alive, for good, whatever was suspected before and whatever clock a restarted
\* node began with.
LiveSeenAlive ==
    <>[](\A n, m \in Node :
            Connected(n, m) => members[n][m] # Nil /\ members[n][m].Status = "alive")

\* UntrackMember ("stops tracking the removed member"): a node tracks only members
\* of its ring when no sync is running.
NoGhosts ==
    \A n \in Node : \A m \in Node :
        up[n] /\ SyncsAt(n) = {} /\ members[n][m] # Nil => m \in ring[n]

=============================================================================
