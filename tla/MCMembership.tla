---------------------------- MODULE MCMembership ----------------------------
(* Instances of Membership: three nodes that join through the first (or the *)
(* last) of them.                                                           *)
EXTENDS Membership

Nodes3 == 1 .. 3

\* Everybody joins through node 1, which founds the cluster.
SeedFirst == [n \in Node |-> 1]

\* Everybody joins through node 2, so the leader is not the founder.
SeedSecond == [n \in Node |-> 2]
=============================================================================
