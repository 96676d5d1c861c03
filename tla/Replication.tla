---------------------------- MODULE Replication ----------------------------
(***************************************************************************)
(* Replication of queel's keys over a cluster (queel/cluster): quorum       *)
(* writes, quorum reads with read-repair, scans, anti-entropy and the       *)
(* handoff of a node that leaves, over the internal endpoints of the nodes  *)
(* (queel/server/internal.go).                                              *)
(*                                                                          *)
(* An entry is its timestamp and its tombstone flag: timestamps are read    *)
(* from one clock and differ, so they stand for the values.  A node's       *)
(* engine keeps what it has acknowledged across crashes (LSMEngine).  The   *)
(* Merkle tree has a bucket of its own for every key.                       *)
(***************************************************************************)
EXTENDS Integers, FiniteSets, Sequences

CONSTANTS
  Node, Key, Client,
  Gateway, \* the nodes whose Coordinators the clients use
  Deletes, \* whether writes may be puts (FALSE) and deletes (TRUE)
  RF,      \* the replication factor
  Walk,    \* Walk[k]: the nodes in the order the ring meets them from k's hash
  Batches, \* the sequences of keys that clients write together
  Bound    \* Bound[kind]: how many events of a kind there are, -1: any number

Kinds == {"write", "read", "crash", "fault", "reconcile", "decommission", "change"}

ASSUME NodeAssumption == IsFiniteSet(Node) /\ Node # {}
ASSUME ClientAssumption == Gateway \subseteq Node /\ Deletes \subseteq BOOLEAN
ASSUME RFAssumption == RF \in Nat \ {0}
ASSUME WalkAssumption ==
  Walk \in [Key -> {s \in [1 .. Cardinality(Node) -> Node] :
                      \A i, j \in DOMAIN s : s[i] = s[j] => i = j}]
ASSUME BatchesAssumption ==
  \A b \in Batches : b \in Seq(Key) /\ b # <<>> /\ \A i, j \in DOMAIN b : b[i] = b[j] => i = j
ASSUME BoundAssumption == Bound \in [Kinds -> Nat \cup {-1}]
\* The changes of the rings are counted: the properties ask whether there were any.
ASSUME ChangeAssumption == Bound["change"] # -1

VARIABLES
  store,     \* store[n][k]: what n's engine holds for k
  up,        \* the nodes whose process runs
  members,   \* members[n]: the nodes n's Coordinator routes to
  op,        \* op[c]: the operation client c has under way
  stray,     \* requests whose sender has given up, that may yet be applied
  rec,       \* rec[n]: n's pass of anti-entropy
  dec,       \* dec[n]: n's handoff
  clock,     \* the largest timestamp given out
  acked,     \* acked[k]: the newest acknowledged write of k, by timestamp
  obsolete,  \* writes <<k, ts>> that had been acknowledged when a write of k
             \* that has been acknowledged since began
  regressed, \* the keys that some node has replaced by an older entry
  used       \* how many events of each kind there have been

vars == <<store, up, members, op, stray, rec, dec, clock, acked, obsolete, regressed, used>>

Entry == [ts: Nat, tombstone: BOOLEAN]

\* The key is not in the engine.
Absent == [ts |-> 0, tombstone |-> FALSE]

NoEntries == [k \in Key |-> Absent]

Idle == [kind |-> "idle"]

\* One event of a kind, within its bound.
Use(kind) ==
  \/ Bound[kind] = -1 /\ UNCHANGED used
  \/ used[kind] < Bound[kind] /\ used' = [used EXCEPT ![kind] = @ + 1]

-----------------------------------------------------------------------------
(* The ring.                                                                *)

\* How many of the nodes S the walk from k has met after i steps.
Met(k, S, i) == Cardinality({j \in 1 .. i : Walk[k][j] \in S})

\* The nodes responsible for k in a ring over the nodes S: the first RF of them.
ReplicasFor(k, S) ==
  {Walk[k][i] : i \in {i \in DOMAIN Walk[k] : Walk[k][i] \in S /\ Met(k, S, i) <= RF}}

Quorum(size) == size \div 2 + 1

-----------------------------------------------------------------------------
(* The internal put handlers store what they are sent, older or not.        *)

PutAll(n, ks, e) ==
  /\ store' = [store EXCEPT ![n] = [k \in Key |-> IF k \in ks THEN e ELSE @[k]]]
  /\ regressed' = regressed \cup {k \in ks : e.ts < store[n][k].ts}

NoPut == UNCHANGED <<store, regressed>>

Request(n, ks, e) == [node |-> n, keys |-> ks, entry |-> e]

Init ==
  /\ store = [n \in Node |-> NoEntries]
  /\ up = Node
  /\ members = [n \in Node |-> Node]
  /\ op = [c \in Client |-> Idle]
  /\ stray = {}
  /\ rec = [n \in Node |-> Idle]
  /\ dec = [n \in Node |-> Idle]
  /\ clock = 0
  /\ acked = [k \in Key |-> 0]
  /\ obsolete = {}
  /\ regressed = {}
  /\ used = [kind \in Kinds |-> 0]

-----------------------------------------------------------------------------
(* Coordinator.Put, Delete and WriteBatch.                                  *)

Keys(batch) == {batch[i] : i \in DOMAIN batch}

\* The keys of o's batch that node n is sent.
ItemsFor(o, n) == {k \in Keys(o.batch) : n \in o.replicas[k]}

(* Client c asks the Coordinator of node h to write a batch; every replica  *)
(* of one of its keys gets one request.                                     *)
StartWrite(c, h, batch, tombstone) ==
  LET replicas == [k \in Keys(batch) |-> ReplicasFor(k, members[h])]
  IN  /\ op[c] = Idle
      /\ h \in up
      /\ \A k \in Keys(batch) : replicas[k] # {}
      /\ Use("write")
      /\ clock' = clock + 1
      /\ op' = [op EXCEPT ![c] =
           [kind |-> "write", home |-> h, batch |-> batch, replicas |-> replicas,
            entry |-> [ts |-> clock + 1, tombstone |-> tombstone],
            before |-> {<<k, acked[k]>> : k \in Keys(batch)},
            todo |-> UNION {replicas[k] : k \in Keys(batch)}, ok |-> {}]]
      /\ UNCHANGED <<store, up, members, stray, rec, dec, acked, obsolete, regressed>>

\* Replica n stores its items and its acknowledgement reaches c's Coordinator.
WriteApplied(c, n) ==
  /\ op[c].kind = "write"
  /\ n \in op[c].todo \cap up
  /\ PutAll(n, ItemsFor(op[c], n), op[c].entry)
  /\ op' = [op EXCEPT ![c].todo = @ \ {n}, ![c].ok = @ \cup {n}]
  /\ UNCHANGED <<up, members, stray, rec, dec, clock, acked, obsolete, used>>

\* The items of the first i keys of o's batch that node n is sent.
PrefixFor(o, n, i) == {k \in ItemsFor(o, n) : \E j \in 1 .. i : o.batch[j] = k}

\* Mutant: an error counts as an answer, and an answer as an acknowledgement.
WriteRefusedCounted(c, n) ==
  /\ op[c].kind = "write"
  /\ n \in op[c].todo \ up
  /\ op' = [op EXCEPT ![c].todo = @ \ {n}, ![c].ok = @ \cup {n}]
  /\ UNCHANGED <<store, up, members, stray, rec, dec, clock, acked, obsolete, regressed, used>>

(* The request fails: refused by a node that is down, or broken, after the  *)
(* node has stored some first items of it, all of them included, or before  *)
(* it gets to it.                                                           *)
WriteRefused(c, n) ==
  /\ op[c].kind = "write"
  /\ n \in op[c].todo \ up
  /\ op' = [op EXCEPT ![c].todo = @ \ {n}]
  /\ UNCHANGED <<store, up, members, stray, rec, dec, clock, acked, obsolete, regressed, used>>

WriteBroken(c, n) ==
  /\ op[c].kind = "write"
  /\ n \in op[c].todo \cap up
  /\ Use("fault")
  /\ \/ /\ \E i \in 0 .. Len(op[c].batch) :
             PutAll(n, PrefixFor(op[c], n, i), op[c].entry)
        /\ UNCHANGED stray
     \/ /\ NoPut
        /\ stray' = stray \cup {Request(n, ItemsFor(op[c], n), op[c].entry)}
  /\ op' = [op EXCEPT ![c].todo = @ \ {n}]
  /\ UNCHANGED <<up, members, rec, dec, clock, acked, obsolete>>

\* Mutant: the acknowledgements are counted over the batch, not by key.
WriteSucceededOverall(o) ==
  \E k \in Keys(o.batch) : Cardinality(o.ok) >= Quorum(Cardinality(o.replicas[k]))

\* Every replica has answered or failed: each key needs a quorum of its own.
WriteSucceeded(o) ==
  \A k \in Keys(o.batch) :
    Cardinality(o.ok \cap o.replicas[k]) >= Quorum(Cardinality(o.replicas[k]))

FinishWrite(c) ==
  /\ op[c].kind = "write"
  /\ op[c].todo = {}
  /\ obsolete' = IF WriteSucceeded(op[c]) THEN obsolete \cup op[c].before ELSE obsolete
  /\ acked' = [k \in Key |->
       IF k \in Keys(op[c].batch) /\ WriteSucceeded(op[c]) /\ op[c].entry.ts > acked[k]
         THEN op[c].entry.ts ELSE acked[k]]
  /\ op' = [op EXCEPT ![c] = Idle]
  /\ UNCHANGED <<store, up, members, stray, rec, dec, clock, regressed, used>>

-----------------------------------------------------------------------------
(* Coordinator.Get and Scan.  A scan asks every peer and needs one answer;  *)
(* it is followed for one of its keys, and repairs nothing.                 *)

StartRead(c, h, k, kind) ==
  LET asked == IF kind = "get" THEN ReplicasFor(k, members[h]) ELSE members[h]
  IN  /\ op[c] = Idle
      /\ h \in up
      /\ kind = "get" => asked # {}
      /\ Use("read")
      /\ op' = [op EXCEPT ![c] =
           [kind |-> kind, home |-> h, key |-> k, asked |-> asked, todo |-> asked,
            seen |-> [n \in {} |-> Absent], floor |-> acked[k], obsolete |-> obsolete]]
      /\ UNCHANGED <<store, up, members, stray, rec, dec, clock, acked, obsolete, regressed>>

Reading(c) == op[c].kind \in {"get", "scan"}

ReadAnswered(c, n) ==
  /\ Reading(c)
  /\ n \in op[c].todo \cap up
  /\ op' = [op EXCEPT ![c].todo = @ \ {n},
                      ![c].seen = [m \in DOMAIN @ \cup {n} |->
                                     IF m = n THEN store[n][op[c].key] ELSE @[m]]]
  /\ UNCHANGED <<store, up, members, stray, rec, dec, clock, acked, obsolete, regressed, used>>

ReadRefused(c, n) ==
  /\ Reading(c)
  /\ n \in op[c].todo
  /\ \/ n \notin up /\ UNCHANGED used
     \/ n \in up /\ Use("fault")
  /\ op' = [op EXCEPT ![c].todo = @ \ {n}]
  /\ UNCHANGED <<store, up, members, stray, rec, dec, clock, acked, obsolete, regressed>>

\* Mutant: the first entry that was found.
BestAny(seen) ==
  LET found == {n \in DOMAIN seen : seen[n] # Absent}
  IN  IF found = {} THEN Absent ELSE seen[CHOOSE n \in found : TRUE]

\* The newest entry among those found.
Best(seen) ==
  LET found == {n \in DOMAIN seen : seen[n] # Absent}
  IN  IF found = {} THEN Absent
      ELSE seen[CHOOSE n \in found : \A m \in found : seen[m].ts <= seen[n].ts]

\* Too few replicas answered: the read fails.
ReadFails(c) ==
  /\ Reading(c)
  /\ op[c].todo = {}
  /\ Cardinality(DOMAIN op[c].seen) <
       (IF op[c].kind = "get" THEN Quorum(Cardinality(op[c].asked)) ELSE 1)
  /\ op' = [op EXCEPT ![c] = Idle]
  /\ UNCHANGED <<store, up, members, stray, rec, dec, clock, acked, obsolete, regressed, used>>

\* The winner is known; a get repairs the replicas that answered with less.
FinishRead(c) ==
  LET o == op[c]
      best == Best(o.seen)
      stale == {n \in DOMAIN o.seen : o.seen[n].ts < best.ts}
  IN  /\ Reading(c)
      /\ o.todo = {}
      /\ Cardinality(DOMAIN o.seen) >=
           (IF o.kind = "get" THEN Quorum(Cardinality(o.asked)) ELSE 1)
      /\ op' = [op EXCEPT ![c] =
           [kind |-> IF o.kind = "get" THEN "repair" ELSE "scanned",
            home |-> o.home, key |-> o.key, entry |-> best,
            todo |-> IF o.kind = "get" THEN stale ELSE {},
            floor |-> o.floor, obsolete |-> o.obsolete]]
      /\ UNCHANGED <<store, up, members, stray, rec, dec, clock, acked, obsolete, regressed, used>>

Repair(c, n) ==
  /\ op[c].kind = "repair"
  /\ n \in op[c].todo \cap up
  /\ PutAll(n, {op[c].key}, op[c].entry)
  /\ op' = [op EXCEPT ![c].todo = @ \ {n}]
  /\ UNCHANGED <<up, members, stray, rec, dec, clock, acked, obsolete, used>>

\* A failed repair is forgotten; the request may still reach the node.
RepairFails(c, n) ==
  /\ op[c].kind = "repair"
  /\ n \in op[c].todo
  /\ \/ n \notin up /\ UNCHANGED <<used, stray>>
     \/ /\ n \in up
        /\ Use("fault")
        /\ stray' = stray \cup {Request(n, {op[c].key}, op[c].entry)}
  /\ op' = [op EXCEPT ![c].todo = @ \ {n}]
  /\ UNCHANGED <<store, up, members, rec, dec, clock, acked, obsolete, regressed>>

\* The read returns op[c].entry: not found if it is absent or a tombstone.
Return(c) ==
  /\ op[c].kind \in {"repair", "scanned"}
  /\ op[c].todo = {}
  /\ op' = [op EXCEPT ![c] = Idle]
  /\ UNCHANGED <<store, up, members, stray, rec, dec, clock, acked, obsolete, regressed, used>>

\* A request whose sender gave up is applied after all.
StrayApplied(r) ==
  /\ r.node \in up
  /\ PutAll(r.node, r.keys, r.entry)
  /\ stray' = stray \ {r}
  /\ UNCHANGED <<up, members, op, rec, dec, clock, acked, obsolete, used>>

-----------------------------------------------------------------------------
(* Anti-entropy: node n compares its whole keyspace with a peer's.          *)

StartReconcile(n, p) ==
  /\ n \in up
  /\ rec[n] = Idle
  /\ p \in members[n] \ {n}
  /\ Use("reconcile")
  /\ rec' = [rec EXCEPT ![n] = [kind |-> "local", peer |-> p, local |-> store[n]]]
  /\ UNCHANGED <<store, up, members, op, stray, dec, clock, acked, obsolete, regressed>>

\* The peer's tree arrives: the buckets whose hashes differ are to be fetched.
DiffTrees(n) ==
  LET r == rec[n]
  IN  /\ r.kind = "local"
      /\ r.peer \in up
      /\ rec' = [rec EXCEPT ![n] =
           [kind |-> "buckets", peer |-> r.peer, local |-> r.local,
            todo |-> {k \in Key : r.local[k] # store[r.peer][k]}]]
      /\ UNCHANGED <<store, up, members, op, stray, dec, clock, acked, obsolete, regressed, used>>

FetchBucket(n, k) ==
  LET r == rec[n]
  IN  /\ r.kind = "buckets"
      /\ k \in r.todo
      /\ r.peer \in up
      /\ rec' = [rec EXCEPT ![n] =
           [kind |-> "bucket", peer |-> r.peer, local |-> r.local, todo |-> r.todo \ {k},
            key |-> k, remote |-> store[r.peer][k]]]
      /\ UNCHANGED <<store, up, members, op, stray, dec, clock, acked, obsolete, regressed, used>>

\* On to the next bucket.
NextBucket(n) ==
  rec' = [rec EXCEPT ![n] =
    [kind |-> "buckets", peer |-> @.peer, local |-> @.local, todo |-> @.todo]]

\* Mutant: a difference of one tick is put down to the clocks.
PullsWithTolerance(local, remote) == local.ts + 1 < remote.ts

\* The local entry of the snapshot loses against the peer's.
Pulls(local, remote) == local.ts < remote.ts

(* The newer of the snapshot's entry and the peer's goes to the other side. *)
Pull(n) ==
  LET r == rec[n]
  IN  /\ r.kind = "bucket"
      /\ Pulls(r.local[r.key], r.remote)
      /\ PutAll(n, {r.key}, r.remote)
      /\ NextBucket(n)
      /\ UNCHANGED <<up, members, op, stray, dec, clock, acked, obsolete, used>>

Push(n) ==
  LET r == rec[n]
  IN  /\ r.kind = "bucket"
      /\ Pulls(r.remote, r.local[r.key])
      /\ r.peer \in up
      /\ PutAll(r.peer, {r.key}, r.local[r.key])
      /\ NextBucket(n)
      /\ UNCHANGED <<up, members, op, stray, dec, clock, acked, obsolete, used>>

\* Both sides have come to hold the same, or the push fails: go on.
SkipKey(n) ==
  LET r == rec[n]
  IN  /\ r.kind = "bucket"
      /\ \/ r.local[r.key].ts = r.remote.ts /\ UNCHANGED <<used, stray>>
         \/ /\ Pulls(r.remote, r.local[r.key])
            /\ r.peer \notin up
            /\ UNCHANGED <<used, stray>>
         \/ /\ Pulls(r.remote, r.local[r.key])
            /\ r.peer \in up
            /\ Use("fault")
            /\ stray' = stray \cup {Request(r.peer, {r.key}, r.local[r.key])}
      /\ NextBucket(n)
      /\ UNCHANGED <<store, up, members, op, dec, clock, acked, obsolete, regressed>>

\* The pass is over, or a tree or a bucket could not be fetched.
EndReconcile(n) ==
  /\ \/ rec[n].kind = "buckets" /\ rec[n].todo = {} /\ UNCHANGED used
     \/ /\ rec[n].kind \in {"local", "buckets"}
        /\ \/ rec[n].peer \notin up /\ UNCHANGED used
           \/ rec[n].peer \in up /\ Use("fault")
  /\ rec' = [rec EXCEPT ![n] = Idle]
  /\ UNCHANGED <<store, up, members, op, stray, dec, clock, acked, obsolete, regressed>>

-----------------------------------------------------------------------------
(* Processes end and start.                                                 *)

\* What client c's Coordinator may have sent and not heard of: every request of
\* a write, or one of a read's repairs, which go out one after the other.
Outstanding(c) ==
  CASE op[c].kind = "write" ->
         {{Request(n, ItemsFor(op[c], n), op[c].entry) : n \in op[c].todo}}
    [] op[c].kind = "repair" ->
         {{}} \cup {{Request(n, {op[c].key}, op[c].entry)} : n \in op[c].todo}
    [] OTHER -> {{}}

\* The key that n's pass of anti-entropy is pushing to its peer.
Pushing(n) ==
  IF rec[n].kind = "bucket" /\ Pulls(rec[n].remote, rec[n].local[rec[n].key])
    THEN {Request(rec[n].peer, {rec[n].key}, rec[n].local[rec[n].key])}
    ELSE {}

\* The key that n's handoff is pushing to its target.
HandingOff(n) ==
  IF dec[n].kind = "push"
    THEN {Request(dec[n].target, {dec[n].key}, dec[n].local[dec[n].key])}
    ELSE {}

(* The process of n ends: the operations its Coordinator runs go with it,   *)
(* the requests it had sent, unheard of its handoff's among them, may yet   *)
(* be applied, and its own background work stops.                           *)
Stop(n, unheard) ==
  LET hosted == {c \in Client : op[c] # Idle /\ op[c].home = n}
      alternatives == UNION {Outstanding(c) : c \in hosted}
  IN  /\ up' = up \ {n}
      /\ op' = [c \in Client |-> IF c \in hosted THEN Idle ELSE op[c]]
      /\ \E sent \in [hosted -> alternatives] :
           /\ \A c \in hosted : sent[c] \in Outstanding(c)
           /\ stray' = {r \in stray \cup (UNION {sent[c] : c \in hosted})
                                   \cup Pushing(n) \cup unheard : r.node # n}
      /\ rec' = [rec EXCEPT ![n] = Idle]
      /\ dec' = [dec EXCEPT ![n] = Idle]

Crash(n) ==
  /\ n \in up
  /\ Use("crash")
  /\ Stop(n, HandingOff(n))
  /\ UNCHANGED <<store, members, clock, acked, obsolete, regressed>>

Restart(n) ==
  /\ n \notin up
  /\ up' = up \cup {n}
  /\ UNCHANGED <<store, members, op, stray, rec, dec, clock, acked, obsolete, regressed, used>>

\* Membership gives the Coordinator of n another set of nodes.
SetMembers(n, S) ==
  /\ n \in up
  /\ S # members[n]
  /\ Use("change")
  /\ members' = [members EXCEPT ![n] = S]
  /\ UNCHANGED <<store, up, op, stray, rec, dec, clock, acked, obsolete, regressed>>

-----------------------------------------------------------------------------
(* Decommission: node n hands its keys to their future replicas, and exits  *)
(* if the handoff was started by the signal to stop.                        *)

\* The keys of local, each with its replicas in the ring without n.
Pairs(local, ring) ==
  {kt \in Key \X ring : local[kt[1]] # Absent /\ kt[2] \in ReplicasFor(kt[1], ring)}

StartDecommission(n, exits) ==
  LET remaining == members[n] \ {n}
  IN  /\ n \in up
      /\ dec[n] = Idle
      /\ remaining # {}
      /\ Use("decommission")
      /\ dec' = [dec EXCEPT ![n] =
           [kind |-> "handoff", exits |-> exits, local |-> store[n],
            ring |-> remaining, todo |-> Pairs(store[n], remaining)]]
      /\ UNCHANGED <<store, up, members, op, stray, rec, clock, acked, obsolete, regressed>>

\* Mutant: a target that has the key at all needs nothing.
UpToDateIfFound(existing, entry) == existing # Absent

\* The target already has the key's current value or a newer one.
UpToDate(existing, entry) == existing.ts >= entry.ts

\* The next pair of a key and a target, and what the target has of the key.
CheckTarget(n, k, t) ==
  LET d == dec[n]
  IN  /\ d.kind = "handoff"
      /\ <<k, t>> \in d.todo
      /\ t \in up
      /\ dec' = [dec EXCEPT ![n] =
           [kind |-> IF UpToDate(store[t][k], d.local[k]) THEN "handoff" ELSE "push",
            exits |-> d.exits, local |-> d.local, ring |-> d.ring,
            todo |-> d.todo \ {<<k, t>>}, key |-> k, target |-> t]]
      /\ UNCHANGED <<store, up, members, op, stray, rec, clock, acked, obsolete, regressed, used>>

PushTarget(n) ==
  LET d == dec[n]
  IN  /\ d.kind = "push"
      /\ d.target \in up
      /\ PutAll(d.target, {d.key}, d.local[d.key])
      /\ dec' = [dec EXCEPT ![n].kind = "handoff"]
      /\ UNCHANGED <<up, members, op, stray, rec, clock, acked, obsolete, used>>

\* The end of the handoff, complete or given up with a request unheard of.
LeaveOrStay(n, unheard) ==
  IF dec[n].exits
    THEN Stop(n, unheard)
    ELSE /\ dec' = [dec EXCEPT ![n] = Idle]
         /\ stray' = stray \cup unheard
         /\ UNCHANGED <<up, op, rec>>

FinishHandoff(n) ==
  /\ dec[n].kind = "handoff"
  /\ dec[n].todo = {}
  /\ LeaveOrStay(n, {})
  /\ UNCHANGED <<store, members, clock, acked, obsolete, regressed, used>>

\* Target t is down, or its answer is an error or comes too late.
Unanswered(t) ==
  \/ t \notin up /\ UNCHANGED used
  \/ t \in up /\ Use("fault")

\* A target that cannot be asked ends the handoff.
CheckFails(n) ==
  /\ dec[n].kind = "handoff"
  /\ \E kt \in dec[n].todo : Unanswered(kt[2])
  /\ LeaveOrStay(n, {})
  /\ UNCHANGED <<store, members, clock, acked, obsolete, regressed>>

(* So does one that does not acknowledge its entry, which it may have stored *)
(* or may yet store.                                                        *)
PushFails(n) ==
  LET d == dec[n]
  IN  /\ d.kind = "push"
      /\ Unanswered(d.target)
      /\ \/ d.target \in up /\ PutAll(d.target, {d.key}, d.local[d.key]) /\ LeaveOrStay(n, {})
         \/ d.target \in up /\ NoPut /\ LeaveOrStay(n, HandingOff(n))
         \/ d.target \notin up /\ NoPut /\ LeaveOrStay(n, {})
      /\ UNCHANGED <<members, clock, acked, obsolete>>

-----------------------------------------------------------------------------

Coordinate ==
  \E c \in Client :
    \/ \E h \in Gateway, b \in Batches, t \in Deletes : StartWrite(c, h, b, t)
    \/ \E n \in Node : WriteApplied(c, n)
    \/ \E n \in Node : WriteRefused(c, n)
    \/ \E n \in Node : WriteBroken(c, n)
    \/ FinishWrite(c)
    \/ \E h \in Gateway, k \in Key, kind \in {"get", "scan"} : StartRead(c, h, k, kind)
    \/ \E n \in Node : ReadAnswered(c, n)
    \/ \E n \in Node : ReadRefused(c, n)
    \/ ReadFails(c)
    \/ FinishRead(c)
    \/ \E n \in Node : Repair(c, n)
    \/ \E n \in Node : RepairFails(c, n)
    \/ Return(c)

AntiEntropy ==
  \E n \in Node :
    \/ \E p \in Node : StartReconcile(n, p)
    \/ DiffTrees(n)
    \/ \E k \in Key : FetchBucket(n, k)
    \/ Pull(n)
    \/ Push(n)
    \/ SkipKey(n)
    \/ EndReconcile(n)

Handoff ==
  \E n \in Node :
    \/ \E exits \in BOOLEAN : StartDecommission(n, exits)
    \/ \E k \in Key, t \in Node : CheckTarget(n, k, t)
    \/ PushTarget(n)
    \/ FinishHandoff(n)
    \/ CheckFails(n)
    \/ PushFails(n)

Processes ==
  \E n \in Node : Crash(n) \/ Restart(n) \/ \E S \in SUBSET Node : SetMembers(n, S)

Next ==
  \/ Coordinate
  \/ AntiEntropy
  \/ Handoff
  \/ Processes
  \/ \E r \in stray : StrayApplied(r)

Spec == Init /\ [][Next]_vars

(* Requests are applied or refused and answers arrive, the loops of a       *)
(* running process go on, and its ticks of anti-entropy pick every peer     *)
(* again and again.  Nothing obliges a client to call, a node to fail or a  *)
(* handoff to start.                                                        *)
Fairness ==
  /\ \A c \in Client :
       /\ WF_vars(\E n \in Node : WriteApplied(c, n) \/ WriteRefused(c, n)
                                    \/ ReadAnswered(c, n) \/ Repair(c, n))
       /\ WF_vars(FinishWrite(c) \/ ReadFails(c) \/ FinishRead(c) \/ Return(c))
  /\ \A n \in Node :
       /\ WF_vars(DiffTrees(n) \/ (\E k \in Key : FetchBucket(n, k)) \/ Pull(n) \/ Push(n)
                    \/ SkipKey(n) \/ (rec[n] # Idle /\ EndReconcile(n)))
       /\ \A p \in Node \ {n} : SF_vars(StartReconcile(n, p))

FairSpec == Spec /\ Fairness

-----------------------------------------------------------------------------
(* Properties.                                                              *)

\* The replicas of k while every ring has every node.
Home(k) == ReplicasFor(k, Node)

(* Unless some node has replaced a newer entry of the key by an older one,  *)
(* or a ring has changed, a quorum of the key's replicas holds its newest   *)
(* acknowledged write or something newer, whatever is under way             *)
(* (Coordinator.write, WriteBatch, readRepair, Reconcile, Decommission).    *)
QuorumHolds ==
  \A k \in Key :
    k \notin regressed /\ used["change"] = 0 =>
      Cardinality({n \in Home(k) : store[n][k].ts >= acked[k]})
        >= Quorum(Cardinality(Home(k)))

(* Under the same condition, a quorum read returns nothing older than the   *)
(* newest write that had been acknowledged when the read began, with nodes  *)
(* crashing and writes landing while it asks (Coordinator.Get).             *)
ReadsAreFresh ==
  \A c \in Client :
    op[c].kind = "repair" /\ op[c].key \notin regressed /\ used["change"] = 0 =>
      op[c].entry.ts >= op[c].floor

(* When Decommission returns without error, every key that the node held    *)
(* when it began is with every replica it has in the ring without the node, *)
(* at least as new, whatever was written, repaired, broken or restarted     *)
(* meanwhile, unless some node has replaced a newer entry of the key by an  *)
(* older one, as the handoff itself does when a write comes between its     *)
(* comparison and its put.                                                  *)
HandoffComplete ==
  \A n \in Node :
    dec[n].kind = "handoff" /\ dec[n].todo = {} =>
      \A k \in Key : \A t \in ReplicasFor(k, dec[n].ring) :
        dec[n].local[k] # Absent /\ k \notin regressed =>
          store[t][k].ts >= dec[n].local[k].ts

(* When clients have stopped writing and no node fails, anti-entropy makes  *)
(* all nodes hold the same entry for every key, for good, although passes   *)
(* with old snapshots overtake each other (Reconcile, RunAntiEntropy).      *)
ReplicasConverge ==
  <>[](\A n, m \in Node, k \in Key : store[n][k] = store[m][k])

(* "A replicated, quorum-consistent cluster exactly as it would over a      *)
(* single local Engine": a read does not return a write that another one,   *)
(* begun after it was acknowledged, had replaced before the read began.     *)
AckedVisible ==
  \A c \in Client :
    op[c].kind = "repair" => <<op[c].key, op[c].entry.ts>> \notin op[c].obsolete

(* What makes QuorumHolds, ReadsAreFresh and HandoffComplete inductive.     *)

Table == [Key -> Entry]
Versions == SUBSET (Key \X Nat)

\* Some keys' replicas, and some nodes' answers.
Placements == UNION {[K -> SUBSET Node] : K \in SUBSET Key}
Answered == UNION {[N -> Entry] : N \in SUBSET Node}

WriteOps == [kind : {"write"}, home : Node, batch : Seq(Key),
           replicas : Placements, entry : Entry,
           before : Versions, todo : SUBSET Node, ok : SUBSET Node]
ReadOps == [kind : {"get", "scan"}, home : Node, key : Key, asked : SUBSET Node,
          todo : SUBSET Node, seen : Answered,
          floor : Nat, obsolete : Versions]
ReadAnswers == [kind : {"repair", "scanned"}, home : Node, key : Key, entry : Entry,
            todo : SUBSET Node, floor : Nat, obsolete : Versions]
Passes == [kind : {"local"}, peer : Node, local : Table]
          \cup [kind : {"buckets"}, peer : Node, local : Table, todo : SUBSET Key]
          \cup [kind : {"bucket"}, peer : Node, local : Table, todo : SUBSET Key,
                 key : Key, remote : Entry]
Handoffs == [kind : {"handoff"}, exits : BOOLEAN, local : Table, ring : SUBSET Node,
             todo : SUBSET (Key \X Node)]
            \cup [kind : {"handoff", "push"}, exits : BOOLEAN, local : Table,
                   ring : SUBSET Node, todo : SUBSET (Key \X Node),
                   key : Key, target : Node]

\* Every variable has its type.
TypeOK ==
  /\ store \in [Node -> Table] /\ up \in SUBSET Node /\ members \in [Node -> SUBSET Node]
  /\ op \in [Client -> {Idle} \cup WriteOps \cup ReadOps \cup ReadAnswers]
  /\ stray \in SUBSET [node : Node, keys : SUBSET Key, entry : Entry]
  /\ rec \in [Node -> {Idle} \cup Passes]
  /\ dec \in [Node -> {Idle} \cup Handoffs]
  /\ clock \in Nat /\ acked \in [Key -> Nat] /\ obsolete \in Versions
  /\ regressed \in SUBSET Key /\ used \in [Kinds -> Nat]

RingsKept == used["change"] = 0

\* Until a ring changes, every Coordinator routes to all nodes.
RingsWhole == RingsKept => members = [n \in Node |-> Node]

\* Every node that acknowledged a write of k still holds it, or something newer.
WriteHolds(c) ==
  op[c].kind = "write" =>
    /\ DOMAIN op[c].replicas = Keys(op[c].batch)
    /\ RingsKept => \A k \in Keys(op[c].batch) : op[c].replicas[k] = Home(k)
    /\ \A n \in op[c].ok : \A k \in ItemsFor(op[c], n) :
         k \notin regressed => store[n][k].ts >= op[c].entry.ts

\* What the answer of n to a read of k was, or would be now.
Answer(o, n) == IF n \in DOMAIN o.seen THEN o.seen[n].ts ELSE store[n][o.key].ts

\* A quorum of the replicas asked has answered a read with what had been
\* acknowledged when it began, or would if asked now.
ReadCanBeFresh(c) ==
  op[c].kind \in {"get", "scan"} =>
    /\ op[c].todo \cup DOMAIN op[c].seen \subseteq op[c].asked
    /\ op[c].todo \cap DOMAIN op[c].seen = {}
    /\ op[c].kind = "get" /\ RingsKept => op[c].asked = Home(op[c].key)
    /\ op[c].kind = "get" /\ RingsKept /\ op[c].key \notin regressed =>
         Cardinality({n \in Home(op[c].key) : Answer(op[c], n) >= op[c].floor})
           >= Quorum(Cardinality(Home(op[c].key)))

ReadIsFresh(c) ==
  op[c].kind = "repair" /\ op[c].key \notin regressed /\ RingsKept =>
    op[c].entry.ts >= op[c].floor

\* Of the pairs a handoff began with, the ones it has gone through.
Through(d) ==
  Pairs(d.local, d.ring) \ (d.todo \cup IF d.kind = "push" THEN {<<d.key, d.target>>} ELSE {})

\* What a handoff has gone through, its target holds.
HandedOver(n) ==
  dec[n] # Idle =>
    \A kt \in Through(dec[n]) :
      kt[1] \notin regressed => store[kt[2]][kt[1]].ts >= dec[n].local[kt[1]].ts

IndInv ==
  /\ TypeOK /\ RingsWhole /\ QuorumHolds
  /\ \A c \in Client : WriteHolds(c) /\ ReadCanBeFresh(c) /\ ReadIsFresh(c)
  /\ \A n \in Node : HandedOver(n)
=============================================================================
