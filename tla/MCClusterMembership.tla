------------------------- MODULE MCClusterMembership -------------------------
(* Instances of ClusterMembership for TLC: three nodes, node 3 with two virtual nodes;   *)
(* going round from the key, the members are met in the order 3, 1, 2.                    *)
EXTENDS ClusterMembership, TLC

MCpoints == (1 :> {1}) @@ (2 :> {2}) @@ (3 :> {0, 3})
MCSeeds == (1 :> {1, 2}) @@ (2 :> {1, 2}) @@ (3 :> {1, 2, 3})

=============================================================================
