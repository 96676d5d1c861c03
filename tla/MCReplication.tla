---------------------------- MODULE MCReplication ----------------------------
(* Instances of Replication: three nodes, one or two keys, and one or two   *)
(* clients, with the events that each question needs.                       *)
EXTENDS Replication, TLC

CONSTANTS n1, n2, n3, k1, k2, c1, c2,
  Writes, Reads, Crashes, Faults, Reconciles, Decommissions, Changes

MCBound ==
  [write |-> Writes, read |-> Reads, crash |-> Crashes, fault |-> Faults,
   reconcile |-> Reconciles, decommission |-> Decommissions, change |-> Changes]

\* The ring meets the nodes in another order from each key.
MCWalk ==
  [k \in Key |-> SelectSeq(IF k = k1 THEN <<n1, n2, n3>> ELSE <<n3, n2, n1>>,
                           LAMBDA n : n \in Node)]

Unlimited == -1

\* The nodes' own work, one kind of it at a time.
OneDisturbance == used["reconcile"] + used["decommission"] + used["change"] <= 1

OneKey == {<<k1>>}
BothKeys == {<<k1, k2>>}

\* With as many replicas as nodes the order of the ring makes no difference.
AllSymmetric == Permutations(Node) \cup Permutations(Client)
ClientsSymmetric == Permutations(Client)
=============================================================================
