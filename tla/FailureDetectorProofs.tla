------------------------ MODULE FailureDetectorProofs ------------------------
(***************************************************************************)
(* Proofs about FailureDetector, for any nodes, seeds and configurations,  *)
(* any clocks, and any number of probes, failures, crashes and syncs.      *)
(***************************************************************************)
EXTENDS FailureDetector, TLAPS

-----------------------------------------------------------------------------
(* States about a member *)

\* A known incarnation has a version, and a suspicion has a version above the one
\* that the member gave itself.
KeyOK(s) ==
    /\ s.Incarnation # 0 => s.Version >= 1
    /\ s.Status # "alive" => s.Version >= 1
    /\ s.Status # "alive" /\ s.Incarnation # 0 => s.Version >= 2

\* A node gives itself version 1, or 0 after it was tracked again.
OwnOK(s) ==
    /\ s.Status = "alive"
    /\ s.Incarnation = 0 => s.Version = 0
    /\ s.Incarnation # 0 => s.Version = 1

AboutOK(about) == \A m \in Node : about[m] # Nil => KeyOK(about[m])

MembersOK ==
    \A n, m \in Node :
        members[n][m] # Nil => KeyOK(members[n][m]) /\ (n = m => OwnOK(members[n][m]))

GossipOK ==
    /\ \A g \in late : AboutOK(g.about)
    /\ \A n \in Node : sending[n] # Nil => AboutOK(sending[n].about)

\* A node does not probe itself.
ProbesOK == \A n \in Node : probe[n] # Nil => probe[n].target # n

DetectorInv == TypeOK /\ MembersOK /\ GossipOK /\ ProbesOK

\* What ViewMonotonic says of one step.
ViewsGrow ==
    \A n, m \in Node :
        \/ members'[n][m] = members[n][m]
        \/ Nil \in {members[n][m], members'[n][m]}
        \/ ~up[n]
        \/ Supersedes(members'[n][m], members[n][m])

\* Nil is none of the values it stands beside.
LEMMA NilApart ==
    /\ Nil \notin Node /\ Nil \notin SyncCall /\ Nil \notin memberState
    /\ Nil \notin gossipMember /\ Nil \notin Gossip /\ Nil \notin Probe
BY NilAssumption

\* The zero value is a state with a valid key.
LEMMA FreshOK == Fresh \in memberState /\ KeyOK(Fresh) /\ OwnOK(Fresh)
BY DEF Fresh, memberState, nodeStatus, KeyOK, OwnOK

\* Both marks raise the version, so that the new state supersedes the old one, and
\* a suspicion gets a version above 1 when the incarnation is known.
LEMMA MarkOK ==
    ASSUME NEW s \in memberState, KeyOK(s)
    PROVE  /\ MarkSuccess(s) \in memberState /\ KeyOK(MarkSuccess(s))
           /\ Supersedes(MarkSuccess(s), s)
           /\ MarkFailure(s) \in memberState /\ KeyOK(MarkFailure(s))
           /\ Supersedes(MarkFailure(s), s)
<1> DEFINE f == MarkFailure(s)
           g == MarkSuccess(s)
<1>1. /\ g \in memberState /\ g.Status = "alive"
      /\ g.Incarnation = s.Incarnation /\ g.Version = s.Version + 1
  BY DEF MarkSuccess, memberState, nodeStatus
<1>2. /\ f \in memberState /\ f.Incarnation = s.Incarnation /\ f.Version = s.Version + 1
  BY DEF MarkFailure, memberState, nodeStatus
<1>3. s.Incarnation \in Nat /\ s.Version \in Nat
  BY DEF memberState
<1> QED
  BY <1>1, <1>2, <1>3 DEF KeyOK, Supersedes

\* A lookup always gives a state with a valid key.
LEMMA LookupOK ==
    ASSUME TypeOK, MembersOK, NEW n \in Node, NEW m \in Node
    PROVE  /\ Lookup(n, m) \in memberState /\ KeyOK(Lookup(n, m))
           /\ n = m => OwnOK(Lookup(n, m))
           /\ members[n][m] # Nil => Lookup(n, m) = members[n][m]
BY FreshOK DEF Lookup, TypeOK, MembersOK

\* What Merge leaves about one member is well formed and not older than before.
LEMMA MergeOneOK ==
    ASSUME TypeOK, MembersOK, NEW n \in Node, NEW m \in Node,
           NEW r \in gossipMember, KeyOK(r)
    PROVE  /\ MergeOther(n, m, r) \in memberState /\ KeyOK(MergeOther(n, m, r))
           /\ \/ members[n][m] = Nil
              \/ MergeOther(n, m, r) = members[n][m]
              \/ Supersedes(MergeOther(n, m, r), members[n][m])
           /\ MergeSelf(n, r) = members[n][n]
              \/ /\ MergeSelf(n, r) \in memberState /\ KeyOK(MergeSelf(n, r))
                 /\ OwnOK(MergeSelf(n, r))
                 /\ members[n][n] = Nil \/ Supersedes(MergeSelf(n, r), members[n][n])
<1>1. Lookup(n, m) \in memberState /\ Lookup(n, n) \in memberState
  BY LookupOK
<1>2. members[n][m] # Nil => Lookup(n, m) = members[n][m] /\ KeyOK(members[n][m])
  BY DEF Lookup, MembersOK
<1>3. members[n][n] # Nil => Lookup(n, n) = members[n][n]
  BY DEF Lookup
<1>4. members[n][m] = Nil \/ members[n][m] \in memberState
  BY DEF TypeOK
<1>5. /\ MergeOther(n, m, r) \in memberState /\ KeyOK(MergeOther(n, m, r))
      /\ \/ members[n][m] = Nil
         \/ MergeOther(n, m, r) = members[n][m]
         \/ Supersedes(MergeOther(n, m, r), members[n][m])
  <2>1. CASE members[n][m] = Nil \/ newerMemberState(r, Lookup(n, m))
    <3> DEFINE x == [Status |-> r.Status, FailureCount |-> Lookup(n, m).FailureCount,
                     Incarnation |-> r.Incarnation, Version |-> r.Version]
    <3>1. MergeOther(n, m, r) = x
      BY <2>1 DEF MergeOther
    <3>2. /\ x \in memberState /\ x.Status = r.Status
          /\ x.Incarnation = r.Incarnation /\ x.Version = r.Version
      BY <1>1 DEF memberState, gossipMember
    <3>3. KeyOK(x)
      BY <3>2 DEF KeyOK
    <3>4. members[n][m] # Nil => Supersedes(x, members[n][m])
      BY <1>2, <2>1, <3>2 DEF Supersedes, newerMemberState
    <3> QED
      BY <3>1, <3>2, <3>3, <3>4
  <2>2. CASE ~(members[n][m] = Nil \/ newerMemberState(r, Lookup(n, m)))
    BY <1>2, <1>4, <2>2 DEF MergeOther
  <2> QED
    BY <2>1, <2>2
<1>6. \/ MergeSelf(n, r) = members[n][n]
      \/ /\ MergeSelf(n, r) \in memberState /\ KeyOK(MergeSelf(n, r))
         /\ OwnOK(MergeSelf(n, r))
         /\ members[n][n] = Nil \/ Supersedes(MergeSelf(n, r), members[n][n])
  <2>1. CASE r.Status # "alive" /\ newerMemberState(r, Lookup(n, n))
    <3> DEFINE y == refuteSelf(r)
    <3>1. MergeSelf(n, r) = y
      BY <2>1 DEF MergeSelf
    <3>2. /\ y \in memberState /\ y.Status = "alive"
          /\ y.Incarnation = r.Incarnation + 1 /\ y.Version = 1
      BY <1>1 DEF refuteSelf, memberState, gossipMember, nodeStatus
    <3>3. r.Incarnation \in Nat
      BY DEF gossipMember
    <3>4. KeyOK(y) /\ OwnOK(y)
      BY <3>2, <3>3 DEF KeyOK, OwnOK
    <3>5. y.Incarnation > Lookup(n, n).Incarnation
      BY <1>1, <2>1, <3>2, <3>3 DEF newerMemberState, memberState
    <3>6. members[n][n] # Nil => Supersedes(y, members[n][n])
      BY <1>3, <3>5 DEF Supersedes
    <3> QED
      BY <3>1, <3>2, <3>4, <3>6
  <2>2. CASE ~(r.Status # "alive" /\ newerMemberState(r, Lookup(n, n)))
    BY <2>2 DEF MergeSelf
  <2> QED
    BY <2>1, <2>2
<1> QED
  BY <1>5, <1>6

-----------------------------------------------------------------------------
(* Steps *)

\* A step that changes one member's state to a newer one, or to what a lookup
\* gives, keeps the views and lets them grow.
LEMMA SetMemberOK ==
    ASSUME TypeOK, MembersOK, NEW n \in Node, NEW m \in Node, NEW s \in memberState,
           KeyOK(s), n = m => OwnOK(s), SetMember(n, m, s),
           s = Lookup(n, m) \/ Supersedes(s, Lookup(n, m))
    PROVE  members' \in [Node -> [Node -> memberState \cup {Nil}]] /\ MembersOK' /\ ViewsGrow
<1>1. members \in [Node -> [Node -> memberState \cup {Nil}]]
  BY DEF TypeOK
<1>2. members' \in [Node -> [Node -> memberState \cup {Nil}]]
  BY <1>1 DEF SetMember
<1>3. \A k, l \in Node : members'[k][l] = IF k = n /\ l = m THEN s ELSE members[k][l]
  BY <1>1 DEF SetMember
<1>4. MembersOK'
  BY <1>3 DEF MembersOK
<1>5. ViewsGrow
  BY <1>3 DEF ViewsGrow, Lookup
<1> QED
  BY <1>2, <1>4, <1>5

\* Merging gossip with valid keys does too.
LEMMA MergeOK ==
    ASSUME TypeOK, MembersOK, NEW n \in Node,
           NEW about \in [Node -> gossipMember \cup {Nil}], AboutOK(about), Merge(n, about)
    PROVE  members' \in [Node -> [Node -> memberState \cup {Nil}]] /\ MembersOK' /\ ViewsGrow
<1> DEFINE new(m) == IF about[m] = Nil THEN members[n][m]
                     ELSE IF m = n THEN MergeSelf(n, about[m])
                     ELSE MergeOther(n, m, about[m])
<1>1. members \in [Node -> [Node -> memberState \cup {Nil}]]
  BY DEF TypeOK
<1>2. members' = [members EXCEPT ![n] = [m \in Node |-> new(m)]]
  BY DEF Merge
<1>3. ASSUME NEW m \in Node
      PROVE  /\ new(m) \in memberState \cup {Nil}
             /\ new(m) # Nil => KeyOK(new(m)) /\ (n = m => OwnOK(new(m)))
             /\ \/ new(m) = members[n][m] \/ members[n][m] = Nil
                \/ Supersedes(new(m), members[n][m])
  <2>1. CASE about[m] = Nil
    BY <1>1, <2>1 DEF MembersOK
  <2>2. CASE about[m] # Nil
    <3>1. about[m] \in gossipMember /\ KeyOK(about[m])
      BY <2>2 DEF AboutOK
    <3>2. CASE m = n
      <4>1. new(m) = MergeSelf(n, about[m])
        BY <2>2, <3>2
      <4> QED
        BY <1>1, <3>1, <3>2, <4>1, MergeOneOK DEF MembersOK
    <3>3. CASE m # n
      <4>1. new(m) = MergeOther(n, m, about[m])
        BY <2>2, <3>3
      <4> QED
        BY <3>1, <3>3, <4>1, MergeOneOK
    <3> QED
      BY <3>2, <3>3
  <2> QED
    BY <2>1, <2>2
<1> HIDE DEF new
<1>4. members' \in [Node -> [Node -> memberState \cup {Nil}]]
  BY <1>1, <1>2, <1>3
<1>5. \A k, l \in Node : members'[k][l] = IF k = n THEN new(l) ELSE members[k][l]
  BY <1>1, <1>2
<1>6. MembersOK'
  BY <1>3, <1>5 DEF MembersOK
<1>7. ViewsGrow
  BY <1>3, <1>5 DEF ViewsGrow
<1> QED
  BY <1>4, <1>6, <1>7

\* A step that leaves the members alone keeps them.
LEMMA SameMembers ==
    ASSUME MembersOK, UNCHANGED members
    PROVE  MembersOK' /\ ViewsGrow
BY DEF MembersOK, ViewsGrow

\* Spending part of a bound keeps the type of what is spent.
LEMMA UseType ==
    ASSUME TypeOK
    PROVE  /\ \A bound : Use("probes", bound) \/ Use("errors", bound) \/ Use("crashes", bound)
                            \/ Use("syncs", bound)
                => used' \in [{"probes", "errors", "crashes", "syncs"} -> Nat]
           /\ UNCHANGED used => used' \in [{"probes", "errors", "crashes", "syncs"} -> Nat]
BY DEF Use, TypeOK

\* A snapshot has the keys of the members it is taken from.
LEMMA SnapshotOK ==
    ASSUME TypeOK, MembersOK, NEW n \in Node
    PROVE  /\ GossipSnapshot(n) \in [Node -> gossipMember \cup {Nil}]
           /\ AboutOK(GossipSnapshot(n))
<1>1. ASSUME NEW m \in Node, members[n][m] # Nil
      PROVE  /\ members[n][m] \in memberState /\ KeyOK(members[n][m])
             /\ GossipSnapshot(n)[m] = [Status |-> members[n][m].Status,
                                        Incarnation |-> members[n][m].Incarnation,
                                        Version |-> members[n][m].Version]
  BY <1>1 DEF TypeOK, MembersOK, GossipSnapshot
<1>2. ASSUME NEW m \in Node, members[n][m] # Nil
      PROVE  GossipSnapshot(n)[m] \in gossipMember /\ KeyOK(GossipSnapshot(n)[m])
  <2> DEFINE s == members[n][m]
  <2>1. s \in memberState /\ KeyOK(s)
    BY <1>1, <1>2
  <2>2. GossipSnapshot(n)[m]
          = [Status |-> s.Status, Incarnation |-> s.Incarnation, Version |-> s.Version]
    BY <1>1, <1>2
  <2> HIDE DEF s
  <2> QED
    BY <2>1, <2>2 DEF memberState, gossipMember, KeyOK
<1>3. ASSUME NEW m \in Node, members[n][m] = Nil
      PROVE  GossipSnapshot(n)[m] = Nil
  BY <1>3 DEF GossipSnapshot
<1>4. GossipSnapshot(n) = [m \in Node |-> GossipSnapshot(n)[m]]
  BY DEF GossipSnapshot
<1> QED
  BY <1>2, <1>3, <1>4 DEF AboutOK

\* The ring's filter only drops.
LEMMA FilteredOK ==
    ASSUME NEW g \in Gossip, AboutOK(g.about)
    PROVE  Filtered(g) \in Gossip /\ AboutOK(Filtered(g).about)
<1> DEFINE a == [m \in Node |-> IF m \in ring[g.to] THEN g.about[m] ELSE Nil]
<1>1. g.about \in [Node -> gossipMember \cup {Nil}] /\ g.to \in Node
  BY DEF Gossip
<1>2. a \in [Node -> gossipMember \cup {Nil}]
  BY <1>1
<1>3. Filtered(g) \in Gossip /\ Filtered(g).about = a
  BY <1>1, <1>2 DEF Filtered, Gossip
<1>4. AboutOK(a)
  BY DEF AboutOK
<1> QED
  BY <1>3, <1>4

\* New leaves a detector with valid keys.
LEMMA NewDetectorOK ==
    ASSUME NEW n \in Node, NEW t \in Clock[n] \cup {Start[n]}, NEW m \in Node
    PROVE  LET s == newFailureDetector(n, t)[m]
           IN  /\ s \in memberState \cup {Nil}
               /\ s # Nil => KeyOK(s) /\ (n = m => OwnOK(s))
               /\ m \in Seeds[n] \/ m = n => s # Nil
<1> DEFINE own == [Fresh EXCEPT !.Incarnation = t, !.Version = 1]
<1>1. t \in Nat /\ t # 0
  BY ClockAssumption
<1>2. /\ own \in memberState /\ own.Status = "alive"
      /\ own.Incarnation = t /\ own.Version = 1
  BY <1>1 DEF Fresh, memberState, nodeStatus
<1>3. KeyOK(own) /\ OwnOK(own)
  BY <1>1, <1>2 DEF KeyOK, OwnOK
<1>4. newFailureDetector(n, t)[m] = IF m = n THEN own
                                    ELSE IF m \in Seeds[n] THEN Fresh
                                    ELSE Nil
  BY DEF newFailureDetector
<1> HIDE DEF own
<1> QED
  BY <1>2, <1>3, <1>4, FreshOK, NilApart

\* The first states.
LEMMA DetectorInit == Init => DetectorInv
<1> SUFFICES ASSUME Init
             PROVE  DetectorInv
  OBVIOUS
<1>1. members = [n \in Node |-> newFailureDetector(n, Start[n])]
  BY DEF Init
<1>2. \A n \in Node : newFailureDetector(n, Start[n]) \in [Node -> memberState \cup {Nil}]
  <2> TAKE n \in Node
  <2>1. newFailureDetector(n, Start[n]) = [m \in Node |-> newFailureDetector(n, Start[n])[m]]
    BY DEF newFailureDetector
  <2> QED
    BY <2>1, NewDetectorOK
<1>3. members \in [Node -> [Node -> memberState \cup {Nil}]]
  BY <1>1, <1>2
<1>4. MembersOK
  BY <1>1, NewDetectorOK DEF MembersOK
<1>5. TypeOK
  BY <1>3, SeedAssumption DEF Init, TypeOK
<1> QED
  BY <1>4, <1>5 DEF Init, DetectorInv, GossipOK, ProbesOK

\* Probes.
LEMMA ProbeOK ==
    ASSUME DetectorInv, NEW n \in Node,
           (\E m \in Node : ProbeStart(n, m)) \/ ProbeStep(n)
    PROVE  DetectorInv' /\ ViewsGrow
<1> USE NilApart DEF DetectorInv
<1>1. GossipOK'
  BY DEF ProbeStart, ProbeStep, DirectPing, IndirectProbe, ProbeEnd, GossipOK, AboutOK, netVars
<1>2. used' \in [{"probes", "errors", "crashes", "syncs"} -> Nat]
  BY UseType DEF ProbeStart, ProbeStep, DirectPing, IndirectProbe, ProbeEnd, CallFails
<1>3. CASE \E m \in Node : ProbeStart(n, m)
  <2>1. PICK m \in Node : ProbeStart(n, m)
    BY <1>3
  <2>2. [target |-> m, stage |-> "direct"] \in Probe /\ m # n
    BY <2>1 DEF ProbeStart, Others, List, Probe
  <2>3. ProbesOK' /\ probe' \in [Node -> Probe \cup {Nil}]
    BY <2>1, <2>2 DEF ProbeStart, ProbesOK, TypeOK
  <2>4. MembersOK' /\ ViewsGrow
    BY <2>1, SameMembers DEF ProbeStart
  <2>5. TypeOK'
    BY <1>2, <2>1, <2>3 DEF ProbeStart, TypeOK, netVars, syncVars
  <2> QED
    BY <1>1, <2>3, <2>4, <2>5
<1>4. CASE DirectPing(n) \/ IndirectProbe(n)
  <2>1. PICK stage \in {"reached", "indirect", "failed"} :
           probe[n] # Nil /\ probe' = [probe EXCEPT ![n].stage = stage]
    BY <1>4 DEF DirectPing, IndirectProbe, ProbeAt
  <2>2. probe[n] \in Probe
    BY <2>1 DEF TypeOK
  <2>3. /\ [probe[n] EXCEPT !.stage = stage] \in Probe
        /\ [probe[n] EXCEPT !.stage = stage].target = probe[n].target
    BY <2>2 DEF Probe
  <2>4. probe' = [probe EXCEPT ![n] = [probe[n] EXCEPT !.stage = stage]]
    BY <2>1 DEF TypeOK
  <2>5. ProbesOK' /\ probe' \in [Node -> Probe \cup {Nil}]
    BY <2>1, <2>3, <2>4 DEF ProbesOK, TypeOK
  <2>6. UNCHANGED <<up, ring, members, sending, late, sync, crossed>>
    BY <1>4 DEF DirectPing, IndirectProbe, netVars, syncVars
  <2>7. MembersOK' /\ ViewsGrow
    BY <2>6, SameMembers
  <2>8. TypeOK'
    BY <1>2, <2>5, <2>6 DEF TypeOK
  <2> QED
    BY <1>1, <2>5, <2>7, <2>8
<1>5. CASE ProbeEnd(n)
  <2> DEFINE m == probe[n].target
  <2>1. probe[n] # Nil
    BY <1>5 DEF ProbeEnd, ProbeAt
  <2>2. m \in Node /\ m # n
    BY <2>1 DEF TypeOK, ProbesOK, Probe
  <2>3. Lookup(n, m) \in memberState /\ KeyOK(Lookup(n, m))
    BY <2>2, LookupOK
  <2>4. \/ SetMember(n, m, MarkSuccess(Lookup(n, m)))
        \/ SetMember(n, m, MarkFailure(Lookup(n, m)))
    BY <1>5 DEF ProbeEnd
  <2> HIDE DEF m
  <2>5. members' \in [Node -> [Node -> memberState \cup {Nil}]] /\ MembersOK' /\ ViewsGrow
    BY <2>2, <2>3, <2>4, MarkOK, SetMemberOK
  <2>6. ProbesOK' /\ probe' \in [Node -> Probe \cup {Nil}]
    BY <1>5 DEF ProbeEnd, ProbesOK, TypeOK
  <2>7. TypeOK'
    BY <1>2, <1>5, <2>5, <2>6 DEF ProbeEnd, TypeOK, netVars, syncVars
  <2> QED
    BY <1>1, <2>5, <2>6, <2>7
<1> QED
  BY <1>3, <1>4, <1>5 DEF ProbeStep

\* Gossip.
LEMMA GossipStepOK ==
    ASSUME DetectorInv, NEW n \in Node,
           (\E m \in Node : SendGossip(n, m)) \/ GossipStep(n)
    PROVE  DetectorInv' /\ ViewsGrow
<1> USE NilApart DEF DetectorInv
<1>1. ProbesOK'
  BY DEF SendGossip, GossipStep, HandleGossip, GossipError, ProbesOK
<1>2. used' \in [{"probes", "errors", "crashes", "syncs"} -> Nat]
  BY UseType DEF SendGossip, GossipStep, HandleGossip, GossipError, CallFails
<1>3. sending[n] # Nil =>
        /\ sending[n] \in Gossip /\ AboutOK(sending[n].about) /\ sending[n].to \in Node
        /\ sending[n].about \in [Node -> gossipMember \cup {Nil}]
  BY DEF TypeOK, GossipOK, Gossip
<1>4. CASE \E m \in Node : SendGossip(n, m)
  <2>1. PICK m \in Node : SendGossip(n, m)
    BY <1>4
  <2> DEFINE g == [to |-> m, filtered |-> FALSE, about |-> GossipSnapshot(n)]
  <2>2. g \in Gossip /\ g.about = GossipSnapshot(n) /\ AboutOK(g.about)
    BY SnapshotOK DEF Gossip
  <2>3. sending' = [sending EXCEPT ![n] = g]
    BY <2>1 DEF SendGossip
  <2> HIDE DEF g
  <2>4. sending' \in [Node -> Gossip \cup {Nil}]
    BY <2>2, <2>3 DEF TypeOK
  <2>5. GossipOK'
    BY <2>1, <2>2, <2>3 DEF SendGossip, GossipOK, AboutOK, TypeOK
  <2>6. MembersOK' /\ ViewsGrow
    BY <2>1, SameMembers DEF SendGossip
  <2>7. TypeOK'
    BY <1>2, <2>1, <2>4 DEF SendGossip, TypeOK, syncVars
  <2> QED
    BY <1>1, <2>5, <2>6, <2>7
<1>5. CASE HandleGossip(n) /\ sending[n].filtered
  <2>1. members' \in [Node -> [Node -> memberState \cup {Nil}]] /\ MembersOK' /\ ViewsGrow
    BY <1>3, <1>5, MergeOK DEF HandleGossip
  <2>2. sending' = [sending EXCEPT ![n] = Nil]
    BY <1>5 DEF HandleGossip
  <2>3. GossipOK'
    BY <1>5, <2>2 DEF HandleGossip, GossipOK, AboutOK, TypeOK
  <2>4. TypeOK'
    BY <1>2, <1>5, <2>1, <2>2 DEF HandleGossip, TypeOK, syncVars
  <2> QED
    BY <1>1, <2>1, <2>3, <2>4
<1>6. CASE HandleGossip(n) /\ ~sending[n].filtered
  <2>1. sending[n] # Nil /\ sending' = [sending EXCEPT ![n] = Filtered(sending[n])]
    BY <1>6 DEF HandleGossip
  <2>2. Filtered(sending[n]) \in Gossip /\ AboutOK(Filtered(sending[n]).about)
    BY <1>3, <2>1, FilteredOK
  <2>3. GossipOK'
    BY <1>6, <2>1, <2>2 DEF HandleGossip, GossipOK, AboutOK, TypeOK
  <2>4. MembersOK' /\ ViewsGrow
    BY <1>6, SameMembers DEF HandleGossip
  <2>5. TypeOK'
    BY <1>2, <1>6, <2>1, <2>2 DEF HandleGossip, TypeOK, syncVars
  <2> QED
    BY <1>1, <2>3, <2>4, <2>5
<1>7. CASE GossipError(n)
  <2>1. GossipOK'
    BY <1>3, <1>7 DEF GossipError, GossipOK, AboutOK, TypeOK
  <2>2. MembersOK' /\ ViewsGrow
    BY <1>7, SameMembers DEF GossipError
  <2>3. TypeOK'
    BY <1>2, <1>3, <1>7 DEF GossipError, TypeOK, syncVars
  <2> QED
    BY <1>1, <2>1, <2>2, <2>3
<1> QED
  BY <1>4, <1>5, <1>6, <1>7 DEF GossipStep

\* Gossip that arrives late.
LEMMA LateGossipOK ==
    ASSUME DetectorInv, NEW g \in late, LateGossip(g)
    PROVE  DetectorInv' /\ ViewsGrow
<1> USE NilApart DEF DetectorInv
<1>1. ProbesOK'
  BY DEF LateGossip, ProbesOK
<1>2. /\ g \in Gossip /\ AboutOK(g.about) /\ g.to \in Node
      /\ g.about \in [Node -> gossipMember \cup {Nil}]
  BY DEF TypeOK, GossipOK, Gossip
<1>3. CASE g.filtered
  <2>1. members' \in [Node -> [Node -> memberState \cup {Nil}]] /\ MembersOK' /\ ViewsGrow
    BY <1>2, <1>3, MergeOK DEF LateGossip
  <2>2. GossipOK'
    BY <1>3 DEF LateGossip, GossipOK, AboutOK
  <2>3. TypeOK'
    BY <1>3, <2>1 DEF LateGossip, TypeOK, syncVars
  <2> QED
    BY <1>1, <2>1, <2>2, <2>3
<1>4. CASE ~g.filtered
  <2>1. Filtered(g) \in Gossip /\ AboutOK(Filtered(g).about)
    BY <1>2, FilteredOK
  <2>2. GossipOK'
    BY <1>4, <2>1 DEF LateGossip, GossipOK, AboutOK
  <2>3. MembersOK' /\ ViewsGrow
    BY <1>4, SameMembers DEF LateGossip
  <2>4. TypeOK'
    BY <1>4, <2>1 DEF LateGossip, TypeOK, syncVars
  <2> QED
    BY <1>1, <2>2, <2>3, <2>4
<1> QED
  BY <1>3, <1>4

\* Membership changes: the calls that a step leaves.
LEMMA SyncStartCall ==
    ASSUME TypeOK, NEW s \in Sync, NEW n \in Node, NEW config \in Config[n],
           SyncStart(s, n, config)
    PROVE  LET d == sync'[s]
           IN  /\ sync[s] = Nil /\ d \in SyncCall
               /\ d.node = n /\ d.config = config /\ d.pending = Nil
               /\ d.removing = ring[n] \ config /\ d.adding = config
               /\ \A t \in Sync \ {s} : sync'[t] = sync[t]
               /\ sync' \in [Sync -> SyncCall \cup {Nil}]
<1> DEFINE d == [node |-> n, config |-> config, removing |-> ring[n] \ config,
                 adding |-> config, pending |-> Nil]
<1>1. config \subseteq Node /\ ring[n] \subseteq Node
  BY SeedAssumption DEF TypeOK
<1>2. /\ d \in SyncCall
      /\ d.node = n /\ d.config = config /\ d.pending = Nil
      /\ d.removing = ring[n] \ config /\ d.adding = config
  BY <1>1 DEF SyncCall
<1>3. sync[s] = Nil /\ sync' = [sync EXCEPT ![s] = d]
  BY DEF SyncStart
<1> HIDE DEF d
<1> QED
  BY <1>2, <1>3 DEF TypeOK

LEMMA SyncRemoveCall ==
    ASSUME TypeOK, NEW s \in Sync, NEW m \in Node, SyncRemove(s, m)
    PROVE  LET c == sync[s]
               d == sync'[s]
           IN  /\ c \in SyncCall /\ d \in SyncCall /\ c # Nil
               /\ d.node = c.node /\ d.config = c.config /\ d.adding = c.adding
               /\ c.pending = Nil /\ d.pending = m
               /\ m \in c.removing /\ d.removing = c.removing \ {m}
               /\ \A t \in Sync \ {s} : sync'[t] = sync[t]
               /\ sync' \in [Sync -> SyncCall \cup {Nil}]
<1> DEFINE c == sync[s]
           d == [c EXCEPT !.removing = @ \ {m}, !.pending = m]
<1>1. c \in SyncCall /\ c # Nil /\ c.pending = Nil /\ m \in c.removing
  BY DEF SyncRemove, Between, TypeOK
<1>2. sync' = [sync EXCEPT ![s] = d]
  BY DEF SyncRemove
<1> HIDE DEF c
<1>3. /\ d \in SyncCall
      /\ d.node = c.node /\ d.config = c.config /\ d.adding = c.adding
      /\ d.pending = m /\ d.removing = c.removing \ {m}
  BY <1>1 DEF SyncCall
<1> HIDE DEF d
<1>4. sync'[s] = d /\ (\A t \in Sync \ {s} : sync'[t] = sync[t])
      /\ sync' \in [Sync -> SyncCall \cup {Nil}]
  BY <1>2, <1>3 DEF TypeOK
<1> USE DEF c
<1> QED
  BY <1>1, <1>3, <1>4

LEMMA SyncAddCall ==
    ASSUME TypeOK, NEW s \in Sync, NEW m \in Node, SyncAdd(s, m)
    PROVE  LET c == sync[s]
               d == sync'[s]
           IN  /\ c \in SyncCall /\ d \in SyncCall /\ c # Nil
               /\ d.node = c.node /\ d.config = c.config /\ d.removing = c.removing
               /\ c.pending = Nil /\ d.pending = m
               /\ m \in c.adding /\ d.adding = c.adding \ {m}
               /\ \A t \in Sync \ {s} : sync'[t] = sync[t]
               /\ sync' \in [Sync -> SyncCall \cup {Nil}]
<1> DEFINE c == sync[s]
           d == [c EXCEPT !.adding = @ \ {m}, !.pending = m]
<1>1. c \in SyncCall /\ c # Nil /\ c.pending = Nil /\ m \in c.adding
  BY DEF SyncAdd, Between, TypeOK
<1>2. sync' = [sync EXCEPT ![s] = d]
  BY DEF SyncAdd
<1> HIDE DEF c
<1>3. /\ d \in SyncCall
      /\ d.node = c.node /\ d.config = c.config /\ d.removing = c.removing
      /\ d.pending = m /\ d.adding = c.adding \ {m}
  BY <1>1 DEF SyncCall
<1> HIDE DEF d
<1>4. sync'[s] = d /\ (\A t \in Sync \ {s} : sync'[t] = sync[t])
      /\ sync' \in [Sync -> SyncCall \cup {Nil}]
  BY <1>2, <1>3 DEF TypeOK
<1> USE DEF c
<1> QED
  BY <1>1, <1>3, <1>4

LEMMA SyncMarkCall ==
    ASSUME TypeOK, NEW s \in Sync, UntrackMember(s) \/ TrackMember(s)
    PROVE  LET c == sync[s]
               d == sync'[s]
           IN  /\ c \in SyncCall /\ d \in SyncCall /\ c # Nil
               /\ d.node = c.node /\ d.config = c.config
               /\ d.removing = c.removing /\ d.adding = c.adding
               /\ c.pending \in Node /\ d.pending = Nil
               /\ UntrackMember(s) => c.pending \notin c.config
               /\ TrackMember(s) => c.pending \in c.config
               /\ \A t \in Sync \ {s} : sync'[t] = sync[t]
               /\ sync' \in [Sync -> SyncCall \cup {Nil}]
<1> DEFINE c == sync[s]
           d == [c EXCEPT !.pending = Nil]
<1>1. /\ c \in SyncCall /\ c # Nil /\ c.pending # Nil
      /\ UntrackMember(s) => c.pending \notin c.config
      /\ TrackMember(s) => c.pending \in c.config
  BY DEF UntrackMember, TrackMember, Removed, Added, TypeOK
<1>2. sync' = [sync EXCEPT ![s] = d]
  BY DEF UntrackMember, TrackMember, TypeOK
<1> HIDE DEF c
<1>3. /\ d \in SyncCall /\ c.pending \in Node
      /\ d.node = c.node /\ d.config = c.config
      /\ d.removing = c.removing /\ d.adding = c.adding /\ d.pending = Nil
  BY <1>1 DEF SyncCall
<1> HIDE DEF d
<1>4. sync'[s] = d /\ (\A t \in Sync \ {s} : sync'[t] = sync[t])
      /\ sync' \in [Sync -> SyncCall \cup {Nil}]
  BY <1>2, <1>3 DEF TypeOK
<1> USE DEF c
<1> QED
  BY <1>1, <1>3, <1>4

\* Their effect on the detectors.
LEMMA SyncOK ==
    ASSUME DetectorInv, NEW s \in Sync,
           (\E n \in Node : \E config \in Config[n] : SyncStart(s, n, config)) \/ SyncStep(s)
    PROVE  DetectorInv' /\ ViewsGrow
<1> USE NilApart DEF DetectorInv
<1>1. UNCHANGED <<up, probe, sending, late>>
  BY DEF SyncStart, SyncStep, SyncRemove, UntrackMember, SyncAdd, TrackMember, SyncEnd, netVars
<1>2. GossipOK' /\ ProbesOK'
  BY <1>1 DEF GossipOK, AboutOK, ProbesOK
<1>3. used' \in [{"probes", "errors", "crashes", "syncs"} -> Nat]
  BY UseType
     DEF SyncStart, SyncStep, SyncRemove, UntrackMember, SyncAdd, TrackMember, SyncEnd
<1>4. CASE \E n \in Node : \E config \in Config[n] : SyncStart(s, n, config)
  <2>1. PICK n \in Node : \E config \in Config[n] : SyncStart(s, n, config)
    BY <1>4
  <2>2. PICK config \in Config[n] : SyncStart(s, n, config)
    BY <2>1
  <2>3. sync' \in [Sync -> SyncCall \cup {Nil}]
    BY <2>2, SyncStartCall
  <2>4. crossed' \in [Node -> SUBSET Node]
    <3>1. Crosses(n, config) \subseteq Node
      BY DEF Crosses
    <3> QED
      BY <2>2, <3>1 DEF SyncStart, TypeOK
  <2>5. MembersOK' /\ ViewsGrow
    BY <2>2, SameMembers DEF SyncStart
  <2>6. TypeOK'
    BY <1>1, <1>3, <2>2, <2>3, <2>4 DEF SyncStart, TypeOK
  <2> QED
    BY <1>2, <2>5, <2>6
<1>5. CASE \E m \in Node : SyncRemove(s, m) \/ SyncAdd(s, m)
  <2>1. PICK m \in Node : SyncRemove(s, m) \/ SyncAdd(s, m)
    BY <1>5
  <2>2. sync' \in [Sync -> SyncCall \cup {Nil}] /\ sync[s].node \in Node
    BY <2>1, SyncRemoveCall, SyncAddCall DEF SyncCall
  <2>3. ring' \in [Node -> SUBSET Node]
    <3>1. \/ ring' = [ring EXCEPT ![sync[s].node] = @ \ {m}]
          \/ ring' = [ring EXCEPT ![sync[s].node] = @ \cup {m}]
      BY <2>1 DEF SyncRemove, SyncAdd
    <3>2. ring \in [Node -> SUBSET Node]
      BY DEF TypeOK
    <3> QED
      BY <2>2, <3>1, <3>2
  <2>4. MembersOK' /\ ViewsGrow
    BY <2>1, SameMembers DEF SyncRemove, SyncAdd
  <2>5. TypeOK'
    BY <1>1, <1>3, <2>1, <2>2, <2>3 DEF SyncRemove, SyncAdd, TypeOK
  <2> QED
    BY <1>2, <2>4, <2>5
<1>6. CASE UntrackMember(s)
  <2> DEFINE n == sync[s].node
             m == sync[s].pending
  <2>1. n \in Node /\ m \in Node /\ sync' \in [Sync -> SyncCall \cup {Nil}]
    BY <1>6, SyncMarkCall DEF SyncCall
  <2>2. SetMember(n, m, Nil)
    BY <1>6 DEF UntrackMember
  <2> HIDE DEF n, m
  <2>3. \A k, l \in Node : members'[k][l] = IF k = n /\ l = m THEN Nil ELSE members[k][l]
    BY <2>1, <2>2 DEF SetMember, TypeOK
  <2>4. MembersOK' /\ ViewsGrow
    BY <2>3 DEF MembersOK, ViewsGrow
  <2>5. members' \in [Node -> [Node -> memberState \cup {Nil}]]
    BY <2>1, <2>2 DEF SetMember, TypeOK
  <2>6. TypeOK'
    BY <1>1, <1>3, <1>6, <2>1, <2>5 DEF UntrackMember, TypeOK
  <2> QED
    BY <1>2, <2>4, <2>6
<1>7. CASE TrackMember(s)
  <2> DEFINE n == sync[s].node
             m == sync[s].pending
  <2>1. n \in Node /\ m \in Node /\ sync' \in [Sync -> SyncCall \cup {Nil}]
    BY <1>7, SyncMarkCall DEF SyncCall
  <2>2. SetMember(n, m, Lookup(n, m)) /\ Uncross(n, m)
    BY <1>7 DEF TrackMember
  <2> HIDE DEF n, m
  <2>3. members' \in [Node -> [Node -> memberState \cup {Nil}]] /\ MembersOK' /\ ViewsGrow
    BY <2>1, <2>2, LookupOK, SetMemberOK
  <2>4. crossed' \in [Node -> SUBSET Node]
    BY <2>1, <2>2 DEF Uncross, TypeOK
  <2>5. TypeOK'
    BY <1>1, <1>3, <1>7, <2>1, <2>3, <2>4 DEF TrackMember, TypeOK
  <2> QED
    BY <1>2, <2>3, <2>5
<1>8. CASE SyncEnd(s)
  <2>1. MembersOK' /\ ViewsGrow
    BY <1>8, SameMembers DEF SyncEnd
  <2>2. TypeOK'
    BY <1>1, <1>3, <1>8 DEF SyncEnd, TypeOK
  <2> QED
    BY <1>2, <2>1, <2>2
<1> QED
  BY <1>4, <1>5, <1>6, <1>7, <1>8 DEF SyncStep

\* Crashes and restarts.
LEMMA CrashOK ==
    ASSUME DetectorInv, NEW n \in Node, Crash(n) \/ \E t \in Clock[n] : Restart(n, t)
    PROVE  DetectorInv' /\ ViewsGrow
<1> USE NilApart DEF DetectorInv
<1>1. CASE Crash(n)
  <2>1. late' \subseteq Gossip /\ \A g \in late' : AboutOK(g.about)
    BY <1>1 DEF Crash, TypeOK, GossipOK
  <2>2. \A s \in Node : sending'[s] = Nil \/ sending'[s] = sending[s]
    BY <1>1 DEF Crash
  <2>3. sending' \in [Node -> Gossip \cup {Nil}]
    BY <1>1 DEF Crash, TypeOK
  <2>4. GossipOK'
    BY <2>1, <2>2 DEF GossipOK, AboutOK
  <2>5. ProbesOK'
    BY <1>1 DEF Crash, ProbesOK, TypeOK
  <2>6. MembersOK' /\ ViewsGrow
    BY <1>1, SameMembers DEF Crash
  <2>7. used' \in [{"probes", "errors", "crashes", "syncs"} -> Nat]
    BY <1>1, UseType DEF Crash
  <2>8. TypeOK'
    BY <1>1, <2>1, <2>3, <2>7 DEF Crash, TypeOK
  <2> QED
    BY <2>4, <2>5, <2>6, <2>8
<1>2. CASE \E t \in Clock[n] : Restart(n, t)
  <2>1. PICK t \in Clock[n] : Restart(n, t)
    BY <1>2
  <2> DEFINE d == newFailureDetector(n, t)
  <2>2. d = [m \in Node |-> d[m]]
    BY DEF newFailureDetector
  <2>3. \A m \in Node : /\ d[m] \in memberState \cup {Nil}
                        /\ d[m] # Nil => KeyOK(d[m]) /\ (n = m => OwnOK(d[m]))
    BY NewDetectorOK
  <2>4. members' = [members EXCEPT ![n] = d] /\ ~up[n]
    BY <2>1 DEF Restart
  <2> HIDE DEF d
  <2>5. d \in [Node -> memberState \cup {Nil}]
    BY <2>2, <2>3
  <2>6. \A k \in Node : members'[k] = IF k = n THEN d ELSE members[k]
    BY <2>4 DEF TypeOK
  <2>7. MembersOK' /\ ViewsGrow
    BY <2>3, <2>4, <2>6 DEF MembersOK, ViewsGrow
  <2>8. members' \in [Node -> [Node -> memberState \cup {Nil}]]
    BY <2>4, <2>5 DEF TypeOK
  <2>9. TypeOK'
    BY <2>1, <2>8, SeedAssumption DEF Restart, TypeOK, netVars, syncVars
  <2>10. GossipOK' /\ ProbesOK'
    BY <2>1 DEF Restart, GossipOK, AboutOK, ProbesOK, netVars
  <2> QED
    BY <2>7, <2>9, <2>10
<1> QED
  BY <1>1, <1>2

\* Every step keeps the invariant and lets the views grow.
LEMMA DetectorStep == DetectorInv /\ [Next]_vars => DetectorInv' /\ ViewsGrow
<1> SUFFICES ASSUME DetectorInv, [Next]_vars
             PROVE  DetectorInv' /\ ViewsGrow
  OBVIOUS
<1>1. CASE Next
  BY <1>1, ProbeOK, GossipStepOK, LateGossipOK, SyncOK, CrashOK DEF Next
<1>2. CASE UNCHANGED vars
  BY <1>2 DEF vars, netVars, syncVars, DetectorInv, TypeOK, MembersOK, GossipOK, AboutOK,
              ProbesOK, ViewsGrow
<1> QED
  BY <1>1, <1>2

LEMMA DetectorAlways == Spec => []DetectorInv
BY DetectorInit, DetectorStep, PTL DEF Spec

-----------------------------------------------------------------------------
(* Theorems *)

\* The detectors, tasks and messages keep their types.
THEOREM DetectorTypeCorrect == Spec => []TypeOK
<1>1. DetectorInv => TypeOK
  BY DEF DetectorInv
<1> QED
  BY <1>1, DetectorAlways, PTL

\* A suspicion never ties with what the member says of itself: a version of 1 or 0
\* is all that a node gives itself, and MarkFailure makes it at least one more.
THEOREM SuspicionsAnswerable == Spec => []SuspicionAnswerable
<1>1. ASSUME NEW s, NEW o \in memberState, KeyOK(s), OwnOK(o), s.Status # "alive",
             s.Incarnation \in Nat, s.Version \in Nat
      PROVE  Supersedes(s, o) \/ Supersedes(o, s)
  <2>1. o.Incarnation \in Nat /\ o.Version \in Nat
    BY DEF memberState
  <2> QED
    BY <1>1, <2>1 DEF KeyOK, OwnOK, Supersedes
<1>2. DetectorInv => SuspicionAnswerable
  <2> SUFFICES ASSUME DetectorInv, NEW m \in Node, NEW s \in SaidAbout(m) \ {Nil},
                      s.Status # "alive"
               PROVE  Supersedes(s, Lookup(m, m)) \/ Supersedes(Lookup(m, m), s)
    BY DEF SuspicionAnswerable
  <2>1. Lookup(m, m) \in memberState /\ OwnOK(Lookup(m, m))
    BY LookupOK DEF DetectorInv
  <2>2. KeyOK(s) /\ s.Incarnation \in Nat /\ s.Version \in Nat
    <3>1. CASE \E n \in Node : s = members[n][m]
      BY <3>1 DEF DetectorInv, TypeOK, MembersOK, memberState
    <3>2. CASE \E g \in late \cup ({sending[n] : n \in Node} \ {Nil}) : s = g.about[m]
      <4>1. PICK g \in late \cup ({sending[n] : n \in Node} \ {Nil}) : s = g.about[m]
        BY <3>2
      <4>2. g \in Gossip /\ AboutOK(g.about)
        BY DEF DetectorInv, TypeOK, GossipOK
      <4>3. s \in gossipMember /\ KeyOK(s)
        BY <4>1, <4>2 DEF Gossip, AboutOK
      <4> QED
        BY <4>3 DEF gossipMember
    <3> QED
      BY <3>1, <3>2 DEF SaidAbout
  <2> QED
    BY <1>1, <2>1, <2>2
<1> QED
  BY <1>2, DetectorAlways, PTL

\* Views only get newer: marks raise versions, Merge compares before it takes over,
\* and a refutation has a higher incarnation than what it refutes.
THEOREM ViewsMonotonic == Spec => ViewMonotonic
<1>1. DetectorInv /\ [Next]_vars => [ViewsGrow]_vars
  BY DetectorStep
<1>2. ViewMonotonic <=> [][ViewsGrow]_vars
  BY DEF ViewMonotonic, ViewsGrow
<1> QED
  BY <1>1, <1>2, DetectorAlways, PTL DEF Spec

\* What the running calls of handleMembershipSync have left, for members that they have not crossed
\* on: nobody removes a member while another call adds it, so that between Remove and
\* UntrackMember the member stays out of the ring.
CallsOK ==
    \A s \in Sync : sync[s] # Nil =>
        /\ up[sync[s].node]
        /\ sync[s].removing \cap sync[s].config = {} /\ sync[s].adding \subseteq sync[s].config

Uncrossed ==
    \A n \in Node : \A m \in Node \ crossed[n] : \A s, t \in SyncsAt(n) :
        ~(Removes(s, m) /\ Adds(t, m))

GoneFromRing ==
    \A n \in Node : \A m \in Node \ crossed[n] : \A s \in SyncsAt(n) :
        sync[s].pending = m /\ m \notin sync[s].config => m \notin ring[n]

RingInv == CallsOK /\ Uncrossed /\ GoneFromRing /\ RingTracked

\* A step that no sync takes part in, and that forgets nobody.
LEMMA NoSyncRing ==
    ASSUME TypeOK, RingInv, UNCHANGED <<up, ring, syncVars>>,
           \A n, m \in Node : members'[n][m] = Nil => members[n][m] = Nil
    PROVE  RingInv'
BY DEF RingInv, CallsOK, Uncrossed, GoneFromRing, RingTracked, SyncsAt, Removes, Adds,
       syncVars, TypeOK

\* A call starts.
LEMMA SyncStartRing ==
    ASSUME TypeOK, RingInv, NEW s \in Sync, NEW n \in Node, NEW config \in Config[n],
           SyncStart(s, n, config)
    PROVE  RingInv'
<1> USE NilApart DEF RingInv
<1> DEFINE d == sync'[s]
<1>1. /\ sync[s] = Nil /\ d \in SyncCall
      /\ d.node = n /\ d.config = config /\ d.pending = Nil
      /\ d.removing = ring[n] \ config /\ d.adding = config
      /\ \A t \in Sync \ {s} : sync'[t] = sync[t]
  BY SyncStartCall
<1>2. UNCHANGED <<up, ring, members>>
  BY DEF SyncStart
<1> up[n]
  BY DEF SyncStart
<1>3. /\ \A k \in Node \ {n} : crossed'[k] = crossed[k]
      /\ crossed'[n] = crossed[n] \cup Crosses(n, config)
  BY DEF SyncStart, TypeOK
<1>4. /\ \A k \in Node \ {n} : SyncsAt(k)' = SyncsAt(k)
      /\ SyncsAt(n)' = SyncsAt(n) \cup {s} /\ \A k \in Node : s \notin SyncsAt(k)
  BY <1>1 DEF SyncsAt
<1>5. \A t \in Sync \ {s}, m \in Node :
         (Removes(t, m)' <=> Removes(t, m)) /\ (Adds(t, m)' <=> Adds(t, m))
  BY <1>1 DEF Removes, Adds
<1>6. \A m \in Node : /\ Removes(s, m)' <=> m \in ring[n] \ config
                      /\ Adds(s, m)' <=> m \in config
  BY <1>1 DEF Removes, Adds
<1> HIDE DEF d
<1>7. CallsOK'
  BY <1>1, <1>2 DEF CallsOK, d
<1>8. Uncrossed'
  <2> SUFFICES ASSUME NEW k \in Node, NEW m \in Node \ crossed'[k],
                      NEW r \in SyncsAt(k)', NEW t \in SyncsAt(k)',
                      Removes(r, m)', Adds(t, m)'
               PROVE  FALSE
    BY DEF Uncrossed
  <2>1. m \notin crossed[k] /\ r \in Sync /\ t \in Sync
    BY <1>3 DEF SyncsAt
  <2>2. CASE r # s /\ t # s
    BY <1>4, <1>5, <2>1, <2>2 DEF Uncrossed
  <2>3. CASE r = s /\ t = s
    BY <1>6, <2>3
  <2>4. CASE r = s /\ t # s
    <3>1. k = n /\ t \in SyncsAt(n) /\ Adds(t, m) /\ m \in ring[n] \ config
      BY <1>4, <1>5, <1>6, <2>1, <2>4
    <3> QED
      BY <1>3, <3>1 DEF Crosses
  <2>5. CASE r # s /\ t = s
    <3>1. k = n /\ r \in SyncsAt(n) /\ Removes(r, m) /\ m \in config
      BY <1>4, <1>5, <1>6, <2>1, <2>5
    <3> QED
      BY <1>3, <3>1 DEF Crosses
  <2> QED
    BY <2>2, <2>3, <2>4, <2>5
<1>9. GoneFromRing'
  <2> SUFFICES ASSUME NEW k \in Node, NEW m \in Node \ crossed'[k], NEW t \in SyncsAt(k)',
                      sync'[t].pending = m, m \notin sync'[t].config
               PROVE  m \notin ring'[k]
    BY DEF GoneFromRing
  <2>1. m \notin crossed[k] /\ t # s /\ t \in SyncsAt(k) /\ sync'[t] = sync[t]
    BY <1>1, <1>3, <1>4 DEF SyncsAt, d
  <2> QED
    BY <1>2, <2>1 DEF GoneFromRing
<1>10. RingTracked'
  <2> SUFFICES ASSUME NEW k \in Node, NEW m \in ring'[k] \ crossed'[k], up'[k],
                      members'[k][m] = Nil
               PROVE  \E t \in SyncsAt(k)' : sync'[t].pending = m
    BY DEF RingTracked
  <2>1. PICK t \in SyncsAt(k) : sync[t].pending = m
    BY <1>2, <1>3 DEF RingTracked
  <2>2. t \in SyncsAt(k)' /\ sync'[t] = sync[t]
    BY <1>1, <1>4 DEF SyncsAt
  <2> QED
    BY <2>1, <2>2
<1> QED
  BY <1>7, <1>8, <1>9, <1>10

\* A call removes a member from the ring.
LEMMA SyncRemoveRing ==
    ASSUME TypeOK, RingInv, NEW s \in Sync, NEW x \in Node, SyncRemove(s, x)
    PROVE  RingInv'
<1> USE NilApart DEF RingInv
<1> DEFINE c == sync[s]
           d == sync'[s]
           n == c.node
<1>1. /\ c \in SyncCall /\ d \in SyncCall /\ c # Nil
      /\ d.node = c.node /\ d.config = c.config /\ d.adding = c.adding
      /\ c.pending = Nil /\ d.pending = x
      /\ x \in c.removing /\ d.removing = c.removing \ {x}
      /\ \A t \in Sync \ {s} : sync'[t] = sync[t]
  BY SyncRemoveCall
<1>2. n \in Node
  BY <1>1 DEF SyncCall
<1>3. UNCHANGED <<up, members, crossed>> /\ ring' = [ring EXCEPT ![n] = @ \ {x}]
  BY DEF SyncRemove
<1>4. /\ \A k \in Node \ {n} : ring'[k] = ring[k]
      /\ ring'[n] = ring[n] \ {x}
  BY <1>2, <1>3 DEF TypeOK
<1>5. x \notin c.config
  BY <1>1 DEF CallsOK
<1>6. \A k \in Node : SyncsAt(k)' = SyncsAt(k)
  BY <1>1 DEF SyncsAt
<1>7. \A t \in Sync, m \in Node :
         (Removes(t, m)' <=> Removes(t, m)) /\ (Adds(t, m)' <=> Adds(t, m))
  <2> TAKE t \in Sync, m \in Node
  <2>1. CASE t # s
    BY <1>1, <2>1 DEF Removes, Adds
  <2>2. CASE t = s
    BY <1>1, <1>5, <2>2 DEF Removes, Adds
  <2> QED
    BY <2>1, <2>2
<1> HIDE DEF c, d, n
<1>8. CallsOK'
  BY <1>1, <1>3 DEF CallsOK, c, d
<1>9. Uncrossed'
  <2>1. \A k \in Node : SyncsAt(k) \subseteq Sync
    BY DEF SyncsAt
  <2> QED
    BY <1>3, <1>6, <1>7, <2>1 DEF Uncrossed
<1>10. GoneFromRing'
  <2> SUFFICES ASSUME NEW k \in Node, NEW m \in Node \ crossed'[k], NEW t \in SyncsAt(k)',
                      sync'[t].pending = m, m \notin sync'[t].config
               PROVE  m \notin ring'[k]
    BY DEF GoneFromRing
  <2>1. m \notin crossed[k] /\ t \in Sync /\ t \in SyncsAt(k)
    BY <1>3, <1>6 DEF SyncsAt
  <2>2. CASE t = s
    <3>1. m = x /\ k = n
      BY <1>1, <2>1, <2>2 DEF SyncsAt, c, d, n
    <3> QED
      BY <1>4, <3>1
  <2>3. CASE t # s
    BY <1>1, <1>4, <2>1, <2>3 DEF GoneFromRing
  <2> QED
    BY <2>2, <2>3
<1>11. RingTracked'
  <2> SUFFICES ASSUME NEW k \in Node, NEW m \in ring'[k] \ crossed'[k], up'[k],
                      members'[k][m] = Nil
               PROVE  \E t \in SyncsAt(k)' : sync'[t].pending = m
    BY DEF RingTracked
  <2>1. m \in ring[k] /\ m \in Node
    BY <1>4 DEF TypeOK
  <2>2. PICK t \in SyncsAt(k) : sync[t].pending = m
    BY <1>3, <2>1 DEF RingTracked
  <2>3. t # s /\ t \in Sync
    BY <1>1, <2>1, <2>2 DEF SyncsAt, c
  <2> QED
    BY <1>1, <1>6, <2>2, <2>3
<1> QED
  BY <1>8, <1>9, <1>10, <1>11

\* A call adds a member to the ring.  No call that has removed it waits to untrack it.
LEMMA SyncAddRing ==
    ASSUME TypeOK, RingInv, NEW s \in Sync, NEW x \in Node, SyncAdd(s, x)
    PROVE  RingInv'
<1> USE NilApart DEF RingInv
<1> DEFINE c == sync[s]
           d == sync'[s]
           n == c.node
<1>1. /\ c \in SyncCall /\ d \in SyncCall /\ c # Nil
      /\ d.node = c.node /\ d.config = c.config /\ d.removing = c.removing
      /\ c.pending = Nil /\ d.pending = x
      /\ x \in c.adding /\ d.adding = c.adding \ {x}
      /\ \A t \in Sync \ {s} : sync'[t] = sync[t]
  BY SyncAddCall
<1>2. n \in Node
  BY <1>1 DEF SyncCall
<1>3. UNCHANGED <<up, members, crossed>> /\ ring' = [ring EXCEPT ![n] = @ \cup {x}]
  BY DEF SyncAdd
<1>4. /\ \A k \in Node \ {n} : ring'[k] = ring[k]
      /\ ring'[n] = ring[n] \cup {x}
  BY <1>2, <1>3 DEF TypeOK
<1>5. x \in c.config
  BY <1>1 DEF CallsOK
<1>6. \A k \in Node : SyncsAt(k)' = SyncsAt(k)
  BY <1>1 DEF SyncsAt
<1>7. \A t \in Sync, m \in Node :
         (Removes(t, m)' <=> Removes(t, m)) /\ (Adds(t, m)' <=> Adds(t, m))
  <2> TAKE t \in Sync, m \in Node
  <2>1. CASE t # s
    BY <1>1, <2>1 DEF Removes, Adds
  <2>2. CASE t = s
    BY <1>1, <1>5, <2>2 DEF Removes, Adds
  <2> QED
    BY <2>1, <2>2
<1>8. s \in SyncsAt(n) /\ Adds(s, x)
  BY <1>1 DEF SyncsAt, Adds
<1> HIDE DEF c, d, n
<1>9. CallsOK'
  BY <1>1, <1>3 DEF CallsOK, c, d
<1>10. Uncrossed'
  <2>1. \A k \in Node : SyncsAt(k) \subseteq Sync
    BY DEF SyncsAt
  <2> QED
    BY <1>3, <1>6, <1>7, <2>1 DEF Uncrossed
<1>11. GoneFromRing'
  <2> SUFFICES ASSUME NEW k \in Node, NEW m \in Node \ crossed'[k], NEW t \in SyncsAt(k)',
                      sync'[t].pending = m, m \notin sync'[t].config
               PROVE  m \notin ring'[k]
    BY DEF GoneFromRing
  <2>1. m \notin crossed[k] /\ t \in Sync /\ t \in SyncsAt(k)
    BY <1>3, <1>6 DEF SyncsAt
  <2>2. t # s
    BY <1>1, <1>5 DEF c, d
  <2>3. sync[t].pending = m /\ m \notin sync[t].config /\ m \notin ring[k]
    BY <1>1, <2>1, <2>2 DEF GoneFromRing
  <2>4. ~(k = n /\ m = x)
    BY <1>8, <2>1, <2>3 DEF Uncrossed, Removes
  <2> QED
    BY <1>4, <2>3, <2>4
<1>12. RingTracked'
  <2> SUFFICES ASSUME NEW k \in Node, NEW m \in ring'[k] \ crossed'[k], up'[k],
                      members'[k][m] = Nil
               PROVE  \E t \in SyncsAt(k)' : sync'[t].pending = m
    BY DEF RingTracked
  <2>1. CASE k = n /\ m = x
    BY <1>1, <1>6, <1>8, <2>1 DEF d
  <2>2. CASE ~(k = n /\ m = x)
    <3>1. m \in ring[k] /\ m \in Node
      BY <1>4, <2>2 DEF TypeOK
    <3>2. PICK t \in SyncsAt(k) : sync[t].pending = m
      BY <1>3, <3>1 DEF RingTracked
    <3>3. t # s /\ t \in Sync
      BY <1>1, <3>1, <3>2 DEF SyncsAt, c
    <3> QED
      BY <1>1, <1>6, <3>2, <3>3
  <2> QED
    BY <2>1, <2>2
<1> QED
  BY <1>9, <1>10, <1>11, <1>12

\* A call tells the detector.  What it untracks is not in the ring.
LEMMA SyncMarkRing ==
    ASSUME DetectorInv, RingInv, NEW s \in Sync, UntrackMember(s) \/ TrackMember(s)
    PROVE  RingInv'
<1> USE NilApart DEF RingInv
<1> DEFINE c == sync[s]
           d == sync'[s]
           n == c.node
           x == c.pending
<1>1. TypeOK
  BY DEF DetectorInv
<1>2. /\ c \in SyncCall /\ d \in SyncCall /\ c # Nil
      /\ d.node = c.node /\ d.config = c.config
      /\ d.removing = c.removing /\ d.adding = c.adding
      /\ c.pending \in Node /\ d.pending = Nil
      /\ UntrackMember(s) => c.pending \notin c.config
      /\ TrackMember(s) => c.pending \in c.config
      /\ \A t \in Sync \ {s} : sync'[t] = sync[t]
  BY <1>1, SyncMarkCall
<1>3. n \in Node /\ x \in Node
  BY <1>2 DEF SyncCall
<1>4. UNCHANGED <<up, ring>>
  BY DEF UntrackMember, TrackMember
<1>5. /\ UntrackMember(s) => SetMember(n, x, Nil) /\ UNCHANGED crossed
      /\ TrackMember(s) => SetMember(n, x, Lookup(n, x)) /\ Uncross(n, x)
  BY DEF UntrackMember, TrackMember
<1>6. s \in SyncsAt(n) /\ \A k \in Node : SyncsAt(k)' = SyncsAt(k)
  BY <1>2 DEF SyncsAt
<1>7. \A t \in Sync, m \in Node :
         (Removes(t, m)' => Removes(t, m)) /\ (Adds(t, m)' => Adds(t, m))
  <2> TAKE t \in Sync, m \in Node
  <2>1. CASE t # s
    BY <1>2, <2>1 DEF Removes, Adds
  <2>2. CASE t = s
    BY <1>2, <2>2 DEF Removes, Adds
  <2> QED
    BY <2>1, <2>2
<1> HIDE DEF c, d, n, x
<1>8. Lookup(n, x) # Nil
  BY <1>3, LookupOK DEF DetectorInv
<1>9. /\ \A k, m \in Node : ~(k = n /\ m = x) => members'[k][m] = members[k][m]
      /\ TrackMember(s) => members'[n][x] # Nil
  BY <1>1, <1>3, <1>5, <1>8 DEF SetMember, TypeOK
<1>10. \A k, m \in Node : m \notin crossed'[k] =>
          m \notin crossed[k] \/ \A t \in SyncsAt(k) : ~Removes(t, m)
  <2>1. CASE UntrackMember(s)
    BY <1>5, <2>1
  <2>2. CASE TrackMember(s)
    BY <1>1, <1>3, <1>5, <2>2 DEF Uncross, TypeOK
  <2> QED
    BY <2>1, <2>2
<1>11. CallsOK'
  BY <1>2, <1>4 DEF CallsOK, c, d
<1>12. \A k \in Node : SyncsAt(k) \subseteq Sync
  BY DEF SyncsAt
<1>13. Uncrossed'
  <2> SUFFICES ASSUME NEW k \in Node, NEW m \in Node \ crossed'[k],
                      NEW r \in SyncsAt(k)', NEW t \in SyncsAt(k)',
                      Removes(r, m)', Adds(t, m)'
               PROVE  FALSE
    BY DEF Uncrossed
  <2>1. r \in SyncsAt(k) /\ t \in SyncsAt(k) /\ Removes(r, m) /\ Adds(t, m)
    BY <1>6, <1>7, <1>12
  <2> QED
    BY <1>10, <2>1 DEF Uncrossed
<1>14. GoneFromRing'
  <2> SUFFICES ASSUME NEW k \in Node, NEW m \in Node \ crossed'[k], NEW t \in SyncsAt(k)',
                      sync'[t].pending = m, m \notin sync'[t].config
               PROVE  m \notin ring'[k]
    BY DEF GoneFromRing
  <2>1. t \in SyncsAt(k) /\ t \in Sync /\ t # s
    BY <1>2, <1>6, <1>12 DEF d
  <2>2. sync[t].pending = m /\ m \notin sync[t].config /\ Removes(t, m)
    BY <1>2, <2>1 DEF Removes
  <2> QED
    BY <1>4, <1>10, <2>1, <2>2 DEF GoneFromRing
<1>15. RingTracked'
  <2> SUFFICES ASSUME NEW k \in Node, NEW m \in ring'[k] \ crossed'[k], up'[k],
                      members'[k][m] = Nil
               PROVE  \E t \in SyncsAt(k)' : sync'[t].pending = m
    BY DEF RingTracked
  <2>1. m \in ring[k] /\ m \in Node /\ up[k]
    BY <1>1, <1>4 DEF TypeOK
  <2>2. ~(k = n /\ m = x)
    <3>1. CASE UntrackMember(s)
      <4>1. SUFFICES ASSUME k = n, m = x
                     PROVE  FALSE
        OBVIOUS
      <4>2. x \notin crossed[n] /\ x \notin c.config
        BY <1>2, <1>5, <3>1, <4>1 DEF x
      <4> QED
        BY <1>3, <1>6, <2>1, <4>1, <4>2 DEF GoneFromRing, c, x
    <3>2. CASE TrackMember(s)
      BY <1>9, <3>2
    <3> QED
      BY <3>1, <3>2
  <2>3. m \notin crossed[k]
    BY <1>1, <1>3, <1>5, <2>2 DEF Uncross, TypeOK
  <2>4. members[k][m] = Nil
    BY <1>9, <2>1, <2>2
  <2>5. PICK t \in SyncsAt(k) : sync[t].pending = m
    BY <2>1, <2>3, <2>4 DEF RingTracked
  <2>6. t \in Sync /\ t # s
    BY <1>12, <2>2, <2>5 DEF SyncsAt, c, n, x
  <2> QED
    BY <1>2, <1>6, <2>5, <2>6
<1> QED
  BY <1>11, <1>13, <1>14, <1>15

\* A call ends.
LEMMA SyncEndRing ==
    ASSUME TypeOK, RingInv, NEW s \in Sync, SyncEnd(s)
    PROVE  RingInv'
<1> USE NilApart DEF RingInv
<1>1. /\ sync[s] # Nil /\ sync[s].pending = Nil /\ sync'[s] = Nil
      /\ \A t \in Sync \ {s} : sync'[t] = sync[t]
      /\ UNCHANGED <<up, ring, members, crossed>>
  BY DEF SyncEnd, Between, TypeOK
<1>2. \A k \in Node : SyncsAt(k)' = SyncsAt(k) \ {s}
  BY <1>1 DEF SyncsAt
<1>3. \A t \in Sync \ {s}, m \in Node :
         (Removes(t, m)' <=> Removes(t, m)) /\ (Adds(t, m)' <=> Adds(t, m))
  BY <1>1 DEF Removes, Adds
<1>4. \A k \in Node : SyncsAt(k) \subseteq Sync
  BY DEF SyncsAt
<1>5. CallsOK'
  BY <1>1 DEF CallsOK
<1>6. Uncrossed'
  BY <1>1, <1>2, <1>3, <1>4 DEF Uncrossed
<1>7. GoneFromRing'
  BY <1>1, <1>2, <1>4 DEF GoneFromRing
<1>8. RingTracked'
  BY <1>1, <1>2, <1>4 DEF RingTracked, TypeOK
<1> QED
  BY <1>5, <1>6, <1>7, <1>8

\* A process ends, and its calls with it.
LEMMA CrashRing ==
    ASSUME TypeOK, RingInv, NEW n \in Node, Crash(n)
    PROVE  RingInv'
<1> USE NilApart DEF RingInv
<1>1. \A t \in Sync : sync'[t] = IF t \in SyncsAt(n) THEN Nil ELSE sync[t]
  BY DEF Crash
<1>2. SyncsAt(n)' = {} /\ \A k \in Node \ {n} : SyncsAt(k)' = SyncsAt(k)
  BY <1>1 DEF SyncsAt
<1>3. \A k \in Node \ {n} : \A t \in SyncsAt(k) : t \in Sync /\ sync'[t] = sync[t]
  BY <1>1 DEF SyncsAt
<1>4. /\ UNCHANGED <<ring, members>> /\ ~up'[n]
      /\ \A k \in Node \ {n} : up'[k] = up[k] /\ crossed'[k] = crossed[k]
  BY DEF Crash, TypeOK
<1>5. CallsOK'
  BY <1>1, <1>4 DEF CallsOK, SyncsAt, TypeOK, SyncCall
<1>6. Uncrossed'
  <2>1. \A k \in Node \ {n} : \A t \in SyncsAt(k), m \in Node :
           (Removes(t, m)' <=> Removes(t, m)) /\ (Adds(t, m)' <=> Adds(t, m))
    BY <1>3 DEF Removes, Adds
  <2> QED
    BY <1>2, <1>4, <2>1 DEF Uncrossed
<1>7. GoneFromRing'
  BY <1>2, <1>3, <1>4 DEF GoneFromRing
<1>8. RingTracked'
  BY <1>2, <1>3, <1>4 DEF RingTracked
<1> QED
  BY <1>5, <1>6, <1>7, <1>8

\* A process starts, and tracks its seeds.
LEMMA RestartRing ==
    ASSUME TypeOK, RingInv, NEW n \in Node, NEW t \in Clock[n], Restart(n, t)
    PROVE  RingInv'
<1> USE NilApart DEF RingInv
<1>1. /\ ring' = [ring EXCEPT ![n] = Seeds[n]] /\ Seeds[n] \subseteq Node
      /\ members' = [members EXCEPT ![n] = newFailureDetector(n, t)]
      /\ up' = [up EXCEPT ![n] = TRUE] /\ UNCHANGED <<sync, crossed>> /\ ~up[n]
  BY SeedAssumption DEF Restart, syncVars
<1>2. \A m \in Seeds[n] : newFailureDetector(n, t)[m] # Nil
  BY <1>1, NewDetectorOK
<1>3. SyncsAt(n) = {} /\ \A k \in Node : SyncsAt(k)' = SyncsAt(k)
  BY <1>1 DEF SyncsAt, CallsOK
<1>4. \A k \in Node \ {n} : ring'[k] = ring[k] /\ members'[k] = members[k] /\ up'[k] = up[k]
  BY <1>1 DEF TypeOK
<1>5. CallsOK'
  BY <1>1, <1>3, <1>4 DEF CallsOK, SyncsAt, TypeOK, SyncCall
<1>6. Uncrossed'
  BY <1>1, <1>3 DEF Uncrossed, Removes, Adds
<1>7. GoneFromRing'
  BY <1>1, <1>3, <1>4 DEF GoneFromRing
<1>8. RingTracked'
  <2>1. ring'[n] = Seeds[n] /\ members'[n] = newFailureDetector(n, t)
    BY <1>1 DEF TypeOK
  <2> QED
    BY <1>1, <1>2, <1>3, <1>4, <2>1 DEF RingTracked
<1> QED
  BY <1>5, <1>6, <1>7, <1>8

\* Every member of the ring that calls have not crossed on is tracked: only UntrackMember
\* forgets one, and its member has left the ring.
THEOREM RingIsTracked == Spec => []RingTracked
<1>1. Init => RingInv
  <2> SUFFICES ASSUME Init
               PROVE  RingInv
    OBVIOUS
  <2>1. members = [k \in Node |-> newFailureDetector(k, Start[k])] /\ ring = Seeds
    BY DEF Init
  <2>2. \A n \in Node : \A m \in ring[n] : members[n][m] # Nil
    BY <2>1, NewDetectorOK, SeedAssumption
  <2>3. \A s \in Sync : sync[s] = Nil
    BY DEF Init
  <2> QED
    BY <2>2, <2>3 DEF RingInv, CallsOK, Uncrossed, GoneFromRing, RingTracked, SyncsAt
<1>2. DetectorInv /\ RingInv /\ [Next]_vars => RingInv'
  <2> SUFFICES ASSUME DetectorInv, RingInv, [Next]_vars
               PROVE  RingInv'
    OBVIOUS
  <2> USE NilApart
  <2>1. TypeOK
    BY DEF DetectorInv
  <2>2. CASE UNCHANGED <<up, ring, members, syncVars>>
    BY <2>1, <2>2, NoSyncRing
  <2>3. ASSUME NEW n \in Node, ProbeEnd(n)
        PROVE  RingInv'
    <3>1. probe[n].target \in Node
      BY <2>1, <2>3 DEF ProbeEnd, ProbeAt, TypeOK, Probe
    <3>2. \E s \in memberState : SetMember(n, probe[n].target, s)
      BY <2>3, <3>1, LookupOK, MarkOK DEF ProbeEnd, DetectorInv
    <3>3. \A k, m \in Node : members'[k][m] = Nil => members[k][m] = Nil
      BY <2>1, <3>1, <3>2 DEF SetMember, TypeOK
    <3> QED
      BY <2>1, <2>3, <3>3, NoSyncRing DEF ProbeEnd
  <2>4. ASSUME NEW g \in Gossip, AboutOK(g.about), Merge(g.to, g.about),
               UNCHANGED <<up, ring, syncVars>>
        PROVE  RingInv'
    <3>1. /\ g.to \in Node /\ g.about \in [Node -> gossipMember \cup {Nil}]
          /\ TypeOK /\ MembersOK
      BY DEF DetectorInv, Gossip
    <3>2. ASSUME NEW k \in Node, NEW m \in Node, members'[k][m] = Nil
          PROVE  members[k][m] = Nil
      <4>1. CASE k # g.to \/ g.about[m] = Nil
        BY <2>4, <3>1, <3>2, <4>1 DEF Merge, TypeOK
      <4>2. CASE k = g.to /\ g.about[m] # Nil
        <5>1. g.about[m] \in gossipMember /\ KeyOK(g.about[m])
          BY <2>4, <3>1, <4>2 DEF AboutOK
        <5>2. members'[k][m] = IF m = k THEN MergeSelf(k, g.about[m])
                               ELSE MergeOther(k, m, g.about[m])
          BY <2>4, <3>1, <4>2 DEF Merge, TypeOK
        <5> QED
          BY <3>1, <3>2, <5>1, <5>2, MergeOneOK
      <4> QED
        BY <4>1, <4>2
    <3> QED
      BY <2>4, <3>1, <3>2, NoSyncRing
  <2>5. ASSUME NEW n \in Node, HandleGossip(n)
        PROVE  RingInv'
    <3>1. sending[n] \in Gossip /\ AboutOK(sending[n].about)
      BY <2>5 DEF HandleGossip, DetectorInv, TypeOK, GossipOK
    <3> QED
      BY <2>2, <2>4, <2>5, <3>1 DEF HandleGossip
  <2>6. ASSUME NEW g \in late, LateGossip(g)
        PROVE  RingInv'
    <3>1. g \in Gossip /\ AboutOK(g.about)
      BY DEF DetectorInv, TypeOK, GossipOK
    <3> QED
      BY <2>2, <2>4, <2>6, <3>1 DEF LateGossip
  <2>7. ASSUME NEW n \in Node,
               \/ \E m \in Node : ProbeStart(n, m) \/ SendGossip(n, m)
               \/ DirectPing(n) \/ IndirectProbe(n) \/ GossipError(n)
        PROVE  RingInv'
    BY <2>2, <2>7 DEF ProbeStart, SendGossip, DirectPing, IndirectProbe, GossipError
  <2>8. ASSUME NEW n \in Node
        PROVE  /\ Crash(n) => RingInv'
               /\ (\E t \in Clock[n] : Restart(n, t)) => RingInv'
               /\ (\E s \in Sync, config \in Config[n] : SyncStart(s, n, config)) => RingInv'
    BY <2>1, CrashRing, RestartRing, SyncStartRing
  <2>9. ASSUME NEW s \in Sync, SyncStep(s)
        PROVE  RingInv'
    BY <2>1, <2>9, SyncRemoveRing, SyncAddRing, SyncMarkRing, SyncEndRing DEF SyncStep
  <2>10. CASE Next
    <3>1. CASE \E n \in Node, m \in Node : ProbeStart(n, m) \/ SendGossip(n, m)
      BY <2>7, <3>1
    <3>2. CASE \E n \in Node : ProbeStep(n) \/ GossipStep(n)
      BY <2>3, <2>5, <2>7, <3>2 DEF ProbeStep, GossipStep
    <3>3. CASE \E n \in Node, s \in Sync : \E config \in Config[n] : SyncStart(s, n, config)
      BY <2>8, <3>3
    <3>4. CASE \E n \in Node : Crash(n) \/ \E t \in Clock[n] : Restart(n, t)
      BY <2>8, <3>4
    <3>5. CASE \E s \in Sync : SyncStep(s)
      BY <2>9, <3>5
    <3>6. CASE \E g \in late : LateGossip(g)
      BY <2>6, <3>6
    <3> QED
      BY <2>10, <3>1, <3>2, <3>3, <3>4, <3>5, <3>6 DEF Next
  <2>11. CASE UNCHANGED vars
    BY <2>2, <2>11 DEF vars
  <2> QED
    BY <2>10, <2>11
<1>3. RingInv => RingTracked
  BY DEF RingInv
<1> QED
  BY <1>1, <1>2, <1>3, DetectorAlways, PTL DEF Spec

=============================================================================
