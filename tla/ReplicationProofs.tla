------------------------- MODULE ReplicationProofs -------------------------
(***************************************************************************)
(* Proofs about replication, for every set of nodes, keys and clients,     *)
(* every replication factor and every order of the ring: as long as no     *)
(* node replaces a newer entry by an older one and no ring changes, a      *)
(* quorum holds what was acknowledged and a quorum read returns it; and a  *)
(* handoff that ends without error has covered every key and replica.      *)
(***************************************************************************)
EXTENDS Replication, FiniteSetTheorems, TLAPS

-----------------------------------------------------------------------------
(* Replica sets and quorums.                                               *)

\* The replicas of a key are nodes of the ring, and there are finitely many.
LEMMA ReplicasAreNodes ==
  ASSUME NEW k \in Key, NEW S
  PROVE  ReplicasFor(k, S) \subseteq Node /\ IsFiniteSet(ReplicasFor(k, S))
<1>1. \A i \in DOMAIN Walk[k] : Walk[k][i] \in Node
  BY WalkAssumption
<1>2. ReplicasFor(k, S) \subseteq Node
  BY <1>1 DEF ReplicasFor
<1>3. QED
  BY <1>2, NodeAssumption, FS_Subset

LEMMA HomeIsFinite ==
  ASSUME NEW k \in Key
  PROVE  Home(k) \subseteq Node /\ IsFiniteSet(Home(k)) /\ Cardinality(Home(k)) \in Nat
BY ReplicasAreNodes, FS_CardinalityType DEF Home

\* Every key has a replica.
LEMMA HomeIsNotEmpty ==
  ASSUME NEW k \in Key
  PROVE  Home(k) # {}
<1>1. Cardinality(Node) \in Nat /\ Cardinality(Node) # 0
  BY NodeAssumption, FS_CardinalityType, FS_EmptySet
<1>2. 1 \in DOMAIN Walk[k] /\ Walk[k][1] \in Node
  BY <1>1, WalkAssumption
<1>3. {j \in 1 .. 1 : Walk[k][j] \in Node} = {1}
  BY <1>2
<1>4. Met(k, Node, 1) = 1
  BY <1>3, FS_Singleton DEF Met
<1>5. Met(k, Node, 1) <= RF
  BY <1>4, RFAssumption
<1>6. Walk[k][1] \in Home(k)
  BY <1>2, <1>5, Zenon DEF Home, ReplicasFor
<1>7. QED
  BY <1>6

\* A larger part of a finite set has at least as many members.
LEMMA LargerPart ==
  ASSUME NEW S, IsFiniteSet(S), NEW A \in SUBSET S, NEW B \in SUBSET S, A \subseteq B
  PROVE  /\ Cardinality(A) \in Nat /\ Cardinality(B) \in Nat
         /\ Cardinality(A) <= Cardinality(B)
<1>1. IsFiniteSet(A) /\ IsFiniteSet(B)
  BY FS_Subset
<1>2. QED
  BY <1>1, FS_Subset, FS_CardinalityType

\* What holds for a quorum holds for a quorum when it holds for more.
LEMMA QuorumGrows ==
  ASSUME NEW S, IsFiniteSet(S), NEW A \in SUBSET S, NEW B \in SUBSET S, A \subseteq B,
         Cardinality(A) >= Quorum(Cardinality(S))
  PROVE  Cardinality(B) >= Quorum(Cardinality(S))
<1>1. /\ Cardinality(A) \in Nat /\ Cardinality(B) \in Nat /\ Cardinality(S) \in Nat
      /\ Cardinality(A) <= Cardinality(B)
  BY LargerPart, FS_CardinalityType
<1>2. QED
  BY <1>1 DEF Quorum

\* Two quorums of the same replicas have a replica in common.
LEMMA QuorumsMeet ==
  ASSUME NEW S, IsFiniteSet(S), NEW A \in SUBSET S, NEW B \in SUBSET S,
         Cardinality(A) >= Quorum(Cardinality(S)),
         Cardinality(B) >= Quorum(Cardinality(S))
  PROVE  A \cap B # {}
<1>1. /\ Cardinality(A) \in Nat /\ Cardinality(B) \in Nat /\ Cardinality(S) \in Nat
  BY LargerPart, FS_CardinalityType
<1>2. Cardinality(A) + Cardinality(B) > Cardinality(S)
  BY <1>1 DEF Quorum
<1>3. QED
  BY <1>2, FS_MajoritiesIntersect

-----------------------------------------------------------------------------
(* The winner of a read.                                                   *)

\* Among finitely many entries that were found one is the newest.
LEMMA NewestExists ==
  ASSUME NEW seen, NEW found \in SUBSET DOMAIN seen, IsFiniteSet(found), found # {},
         \A n \in found : seen[n].ts \in Nat
  PROVE  \E n \in found : \A m \in found : seen[m].ts <= seen[n].ts
<1> DEFINE Newer(n) == {m \in found : seen[m].ts > seen[n].ts}
           T == {Newer(n) : n \in found}
<1>1. T \subseteq FiniteSubsetsOf(found) /\ T # {}
  <2>1. ASSUME NEW n \in found PROVE Newer(n) \in FiniteSubsetsOf(found)
    <3>1. Newer(n) \in SUBSET found
      OBVIOUS
    <3>2. QED
      BY <3>1, FS_Subset DEF FiniteSubsetsOf
  <2>2. QED
    BY <2>1
<1>2. PICK d \in T : \A e \in T : ~(<<e, d>> \in StrictSubsetOrdering(found))
  BY <1>1, WFMin, FS_StrictSubsetOrderingWellFounded
<1>3. PICK n \in found : d = Newer(n)
  OBVIOUS
<1>4. ASSUME NEW m \in found, seen[m].ts > seen[n].ts PROVE FALSE
  <2>1. /\ Newer(m) \in T /\ m \in Newer(n) /\ m \notin Newer(m)
        /\ Newer(m) \subseteq Newer(n)
    BY <1>4
  <2>2. Newer(m) \in SUBSET found /\ Newer(n) \in SUBSET found
    OBVIOUS
  <2>3. <<Newer(m), Newer(n)>> \in StrictSubsetOrdering(found)
    BY <2>1, <2>2 DEF StrictSubsetOrdering
  <2>4. QED
    BY <2>1, <2>3, <1>2, <1>3
<1>5. QED
  BY <1>4

\* The winner of a read is an entry, and none that was seen is newer.
LEMMA BestIsNewest ==
  ASSUME NEW N \in SUBSET Node, NEW seen \in [N -> Entry]
  PROVE  Best(seen) \in Entry /\ \A n \in N : seen[n].ts <= Best(seen).ts
<1> DEFINE found == {n \in DOMAIN seen : seen[n] # Absent}
<1>0. Absent \in Entry /\ Absent.ts = 0
  BY DEF Absent, Entry
<1>1. CASE found = {}
  <2>1. Best(seen) = Absent
    BY <1>1 DEF Best
  <2>2. \A n \in N : seen[n] = Absent
    BY <1>1
  <2>3. QED
    BY <1>0, <2>1, <2>2
<1>2. CASE found # {}
  <2>1. found \in SUBSET DOMAIN seen /\ found \subseteq Node
    OBVIOUS
  <2>2. IsFiniteSet(found)
    BY <2>1, NodeAssumption, FS_Subset
  <2>3. \A n \in N : seen[n].ts \in Nat
    BY DEF Entry
  <2>4. \E n \in found : \A m \in found : seen[m].ts <= seen[n].ts
    BY <2>1, <2>2, <2>3, <1>2, NewestExists
  <2> DEFINE w == CHOOSE n \in found : \A m \in found : seen[m].ts <= seen[n].ts
  <2>5. w \in found /\ \A m \in found : seen[m].ts <= seen[w].ts
    BY <2>4
  <2>6. Best(seen) = seen[w]
    BY <1>2 DEF Best
  <2> HIDE DEF w
  <2>7. \A n \in N : n \in found \/ seen[n].ts = 0
    BY <1>0
  <2>8. QED
    BY <2>3, <2>5, <2>6, <2>7
<1>3. QED
  BY <1>1, <1>2

-----------------------------------------------------------------------------
(* What every step keeps.                                                  *)

\* A step under which entries only get newer, except for keys it marks.
Grows ==
  /\ regressed \subseteq regressed'
  /\ RingsKept' => RingsKept
  /\ \A n \in Node, k \in Key : k \notin regressed' => store'[n][k].ts >= store[n][k].ts

LEMMA UseCounts ==
  ASSUME TypeOK, NEW kind \in Kinds, Use(kind)
  PROVE  /\ used' \in [Kinds -> Nat]
         /\ RingsKept' => RingsKept
         /\ kind = "change" => ~RingsKept'
<1>1. used \in [Kinds -> Nat] /\ "change" \in Kinds
  BY DEF TypeOK, Kinds
<1>2. CASE UNCHANGED used /\ Bound[kind] = -1
  BY <1>1, <1>2, ChangeAssumption DEF RingsKept
<1>3. CASE used' = [used EXCEPT ![kind] = @ + 1]
  <2>1. used' \in [Kinds -> Nat] /\ used'[kind] = used[kind] + 1
        /\ (kind # "change" => used'["change"] = used["change"])
    BY <1>1, <1>3
  <2>2. QED
    BY <1>1, <2>1 DEF RingsKept
<1>4. QED
  BY <1>2, <1>3 DEF Use

LEMMA TypesOf ==
  ASSUME TypeOK
  PROVE  /\ \A n \in Node : store[n] \in [Key -> Entry]
         /\ \A n \in Node, k \in Key : store[n][k] \in Entry /\ store[n][k].ts \in Nat
BY DEF TypeOK, Table, Entry

\* A put stores what it is sent, and marks the keys for which that is older.
LEMMA PutAllGrows ==
  ASSUME TypeOK, NEW n \in Node, NEW ks \in SUBSET Key, NEW e \in Entry, PutAll(n, ks, e)
  PROVE  /\ store' \in [Node -> Table] /\ regressed' \in SUBSET Key
         /\ regressed \subseteq regressed'
         /\ \A m \in Node, k \in Key : k \notin regressed' => store'[m][k].ts >= store[m][k].ts
         /\ \A k \in ks : store'[n][k] = e
<1>1. \A m \in Node, k \in Key : store[m][k] \in Entry /\ store[m][k].ts \in Nat
  BY TypesOf
<1>2. \A m \in Node, k \in Key :
        store'[m][k] = IF m = n /\ k \in ks THEN e ELSE store[m][k]
  BY DEF PutAll, TypeOK, Table
<1>3. store' \in [Node -> Table]
  BY <1>1 DEF PutAll, TypeOK, Table
<1>4. regressed' \in SUBSET Key /\ regressed \subseteq regressed'
      /\ \A k \in ks : k \notin regressed' => ~(e.ts < store[n][k].ts)
  BY DEF PutAll, TypeOK
<1>5. e.ts \in Nat
  BY DEF Entry
<1>6. ASSUME NEW m \in Node, NEW k \in Key, k \notin regressed'
      PROVE  store'[m][k].ts >= store[m][k].ts
  <2>1. CASE m = n /\ k \in ks
    BY <2>1, <1>1, <1>2, <1>4, <1>5, <1>6
  <2>2. CASE ~(m = n /\ k \in ks)
    BY <2>2, <1>1, <1>2
  <2>3. QED
    BY <2>1, <2>2
<1>7. QED
  BY <1>2, <1>3, <1>4, <1>6

LEMMA QuorumKept ==
  ASSUME TypeOK, TypeOK', QuorumHolds, Grows, acked' = acked
  PROVE  QuorumHolds'
<1> SUFFICES ASSUME NEW k \in Key, k \notin regressed', RingsKept'
             PROVE  Cardinality({n \in Home(k) : store'[n][k].ts >= acked[k]})
                      >= Quorum(Cardinality(Home(k)))
  BY DEF QuorumHolds, RingsKept
<1>1. k \notin regressed /\ RingsKept
  BY DEF Grows
<1>2. Cardinality({n \in Home(k) : store[n][k].ts >= acked[k]}) >= Quorum(Cardinality(Home(k)))
  BY <1>1 DEF QuorumHolds, RingsKept
<1>3. Home(k) \subseteq Node /\ IsFiniteSet(Home(k))
  BY HomeIsFinite
<1>4. \A n \in Home(k) : store[n][k].ts >= acked[k] => store'[n][k].ts >= acked[k]
  <2>1. /\ acked[k] \in Nat
        /\ \A n \in Node : store[n][k].ts \in Nat /\ store'[n][k].ts \in Nat
    BY DEF TypeOK, Table, Entry
  <2>2. \A n \in Node : store'[n][k].ts >= store[n][k].ts
    BY DEF Grows
  <2>3. QED
    BY <1>3, <2>1, <2>2
<1>5. QED
  BY <1>2, <1>3, <1>4, QuorumGrows

\* The pairs of a handoff are of keys and nodes.
LEMMA ThroughType ==
  ASSUME NEW d \in Handoffs
  PROVE  Through(d) \subseteq Pairs(d.local, d.ring) /\ Through(d) \subseteq Key \X Node
<1>1. d.ring \in SUBSET Node
  BY DEF Handoffs
<1>2. QED
  BY <1>1 DEF Through, Pairs

LEMMA HandedOverKept ==
  ASSUME TypeOK, TypeOK', Grows, NEW n \in Node, HandedOver(n), dec'[n] = dec[n]
  PROVE  HandedOver(n)'
<1> SUFFICES ASSUME dec[n] # Idle, NEW kt \in Through(dec[n]), kt[1] \notin regressed'
             PROVE  store'[kt[2]][kt[1]].ts >= dec[n].local[kt[1]].ts
  BY DEF HandedOver, Through
<1>1. dec[n] \in Handoffs
  BY DEF TypeOK
<1>2. kt[1] \in Key /\ kt[2] \in Node /\ dec[n].local[kt[1]].ts \in Nat
  BY <1>1, ThroughType DEF Handoffs, Table, Entry
<1>3. store[kt[2]][kt[1]].ts >= dec[n].local[kt[1]].ts
  BY DEF HandedOver, Grows
<1>4. store'[kt[2]][kt[1]].ts >= store[kt[2]][kt[1]].ts
  BY <1>2 DEF Grows
<1>5. store[kt[2]][kt[1]].ts \in Nat /\ store'[kt[2]][kt[1]].ts \in Nat
  BY <1>2 DEF TypeOK, Table, Entry
<1>6. QED
  BY <1>2, <1>3, <1>4, <1>5

\* The parts of the invariant about one client.
ClientInv(c) == WriteHolds(c) /\ ReadCanBeFresh(c) /\ ReadIsFresh(c)

LEMMA WriteType ==
  ASSUME TypeOK, NEW c \in Client, op[c].kind = "write"
  PROVE  /\ op[c] \in WriteOps /\ op[c].entry \in Entry /\ op[c].entry.ts \in Nat
         /\ op[c].todo \in SUBSET Node /\ op[c].ok \in SUBSET Node
         /\ op[c].home \in Node
         /\ op[c].batch \in Seq(Key) /\ Keys(op[c].batch) \subseteq Key
<1>1. op[c] \in WriteOps
  BY DEF TypeOK, Idle, ReadOps, ReadAnswers
<1>2. QED
  BY <1>1 DEF WriteOps, Entry, Keys

LEMMA ReadType ==
  ASSUME TypeOK, NEW c \in Client, op[c].kind \in {"get", "scan"}
  PROVE  /\ op[c] \in ReadOps /\ op[c].key \in Key /\ op[c].floor \in Nat
         /\ op[c].asked \in SUBSET Node /\ op[c].todo \in SUBSET Node
         /\ DOMAIN op[c].seen \in SUBSET Node /\ op[c].seen \in [DOMAIN op[c].seen -> Entry]
         /\ op[c].home \in Node /\ op[c].obsolete \in Versions
<1>1. op[c] \in ReadOps
  BY DEF TypeOK, Idle, WriteOps, ReadAnswers
<1>2. QED
  BY <1>1 DEF ReadOps, Answered

LEMMA AnswerType ==
  ASSUME TypeOK, NEW c \in Client, op[c].kind \in {"repair", "scanned"}
  PROVE  /\ op[c] \in ReadAnswers /\ op[c].key \in Key /\ op[c].floor \in Nat
         /\ op[c].entry \in Entry /\ op[c].entry.ts \in Nat /\ op[c].todo \in SUBSET Node
<1>1. op[c] \in ReadAnswers
  BY DEF TypeOK, Idle, WriteOps, ReadOps
<1>2. QED
  BY <1>1 DEF ReadAnswers, Entry

\* A write that the step leaves alone, but for the nodes still to be heard of.
LEMMA WriteKept ==
  ASSUME TypeOK, TypeOK', Grows, NEW c \in Client, WriteHolds(c), op'[c].kind = op[c].kind,
         op[c].kind = "write" => /\ op'[c].batch = op[c].batch
                                 /\ op'[c].replicas = op[c].replicas
                                 /\ op'[c].entry = op[c].entry /\ op'[c].ok = op[c].ok
  PROVE  WriteHolds(c)'
<1> SUFFICES ASSUME op[c].kind = "write"
             PROVE  /\ RingsKept' => RingsKept
                    /\ \A n \in op[c].ok : \A k \in ItemsFor(op[c], n) :
                         k \notin regressed' => store'[n][k].ts >= op[c].entry.ts
  BY DEF WriteHolds, ItemsFor
<1>1. op[c].entry.ts \in Nat /\ op[c].ok \in SUBSET Node /\ Keys(op[c].batch) \subseteq Key
  BY WriteType
<1>2. ASSUME NEW n \in op[c].ok, NEW k \in ItemsFor(op[c], n), k \notin regressed'
      PROVE  store'[n][k].ts >= op[c].entry.ts
  <2>1. k \in Key /\ n \in Node
    BY <1>1 DEF ItemsFor
  <2>2. store[n][k].ts >= op[c].entry.ts
    BY <1>2 DEF WriteHolds, Grows
  <2>3. store'[n][k].ts >= store[n][k].ts
    BY <1>2, <2>1 DEF Grows
  <2>4. store[n][k].ts \in Nat /\ store'[n][k].ts \in Nat
    BY <2>1 DEF TypeOK, Table, Entry
  <2>5. QED
    BY <1>1, <2>2, <2>3, <2>4
<1>3. QED
  BY <1>2 DEF Grows

\* The answers that a read has, or would get now, only get newer.
LEMMA AnswersGrow ==
  ASSUME TypeOK, TypeOK', Grows, NEW c \in Client, op[c].kind = "get",
         op[c].key \notin regressed', RingsKept',
         Cardinality({n \in Home(op[c].key) : Answer(op[c], n) >= op[c].floor})
           >= Quorum(Cardinality(Home(op[c].key))),
         NEW now, \A n \in Node : now[n] \in Nat /\ now[n] >= Answer(op[c], n)
  PROVE  Cardinality({n \in Home(op[c].key) : now[n] >= op[c].floor})
           >= Quorum(Cardinality(Home(op[c].key)))
<1>1. /\ op[c].key \in Key /\ op[c].floor \in Nat
      /\ DOMAIN op[c].seen \in SUBSET Node /\ op[c].seen \in [DOMAIN op[c].seen -> Entry]
  BY ReadType
<1>2. Home(op[c].key) \subseteq Node /\ IsFiniteSet(Home(op[c].key))
  BY <1>1, HomeIsFinite
<1>3. \A n \in Node : Answer(op[c], n) \in Nat
  BY <1>1 DEF Answer, TypeOK, Table, Entry
<1>4. \A n \in Home(op[c].key) : Answer(op[c], n) >= op[c].floor => now[n] >= op[c].floor
  BY <1>1, <1>2, <1>3
<1>5. QED
  BY <1>2, <1>4, QuorumGrows

\* A read that the step leaves alone, but for the nodes still to be heard of.
LEMMA ReadKept ==
  ASSUME TypeOK, TypeOK', Grows, NEW c \in Client, ReadCanBeFresh(c), op'[c].kind = op[c].kind,
         op[c].kind \in {"get", "scan"} =>
           /\ op'[c].key = op[c].key /\ op'[c].asked = op[c].asked /\ op'[c].seen = op[c].seen
           /\ op'[c].floor = op[c].floor /\ op'[c].todo \subseteq op[c].todo
  PROVE  ReadCanBeFresh(c)'
<1> SUFFICES ASSUME op[c].kind = "get", RingsKept', op[c].key \notin regressed'
             PROVE  Cardinality({n \in Home(op[c].key) : Answer(op[c], n)' >= op[c].floor})
                      >= Quorum(Cardinality(Home(op[c].key)))
  BY DEF ReadCanBeFresh, Grows
<1> DEFINE now == [n \in Node |-> Answer(op[c], n)']
<1>1. /\ op[c].key \in Key /\ op[c].floor \in Nat
      /\ DOMAIN op[c].seen \in SUBSET Node /\ op[c].seen \in [DOMAIN op[c].seen -> Entry]
  BY ReadType
<1>2. ASSUME NEW n \in Node
      PROVE  now[n] \in Nat /\ now[n] >= Answer(op[c], n)
  <2>1. /\ store'[n][op[c].key].ts >= store[n][op[c].key].ts
        /\ store'[n][op[c].key].ts \in Nat /\ store[n][op[c].key].ts \in Nat
    BY <1>1 DEF Grows, TypeOK, Table, Entry
  <2>2. n \in DOMAIN op[c].seen => op[c].seen[n].ts \in Nat
    BY <1>1 DEF Entry
  <2>3. QED
    BY <2>1, <2>2 DEF Answer
<1>3. Cardinality({n \in Home(op[c].key) : Answer(op[c], n) >= op[c].floor})
        >= Quorum(Cardinality(Home(op[c].key)))
  BY DEF ReadCanBeFresh, Grows
<1>4. Home(op[c].key) \subseteq Node
  BY <1>1, HomeIsFinite
<1>5. \A n \in Node : now[n] = Answer(op[c], n)'
  OBVIOUS
<1> HIDE DEF now
<1>6. Cardinality({n \in Home(op[c].key) : now[n] >= op[c].floor})
        >= Quorum(Cardinality(Home(op[c].key)))
  BY <1>2, <1>3, AnswersGrow
<1>7. {n \in Home(op[c].key) : now[n] >= op[c].floor}
        = {n \in Home(op[c].key) : Answer(op[c], n)' >= op[c].floor}
  BY <1>4, <1>5
<1>8. QED
  BY <1>6, <1>7

\* A client whose operation a step leaves alone.
LEMMA ClientKept ==
  ASSUME TypeOK, TypeOK', Grows, NEW c \in Client, ClientInv(c), op'[c] = op[c]
  PROVE  ClientInv(c)'
<1>1. WriteHolds(c)' /\ ReadCanBeFresh(c)'
  BY WriteKept, ReadKept DEF ClientInv
<1>2. ReadIsFresh(c)'
  BY DEF ClientInv, ReadIsFresh, Grows
<1>3. QED
  BY <1>1, <1>2 DEF ClientInv

LEMMA ClientIdle ==
  ASSUME NEW c \in Client, op'[c] = Idle
  PROVE  ClientInv(c)'
BY DEF ClientInv, WriteHolds, ReadCanBeFresh, ReadIsFresh, Idle

\* A step that keeps what was acknowledged and the rings: it is enough to look
\* at the operations and handoffs that it changes.
LEMMA ByParts ==
  ASSUME IndInv, TypeOK', Grows, acked' = acked, members' = members,
         \A c \in Client : op'[c] = op[c] \/ ClientInv(c)',
         \A n \in Node : dec'[n] = dec[n] \/ HandedOver(n)'
  PROVE  IndInv'
<1>1. RingsWhole'
  BY DEF IndInv, RingsWhole, Grows
<1>2. QuorumHolds'
  BY QuorumKept DEF IndInv
<1>3. \A c \in Client : ClientInv(c)'
  BY ClientKept DEF IndInv, ClientInv
<1>4. \A n \in Node : HandedOver(n)'
  BY HandedOverKept DEF IndInv
<1>5. QED
  BY <1>1, <1>2, <1>3, <1>4 DEF IndInv, ClientInv

\* A step that only ends operations and handoffs.
LEMMA ByEnding ==
  ASSUME IndInv, TypeOK', Grows, acked' = acked, members' = members,
         \A c \in Client : op'[c] \in {op[c], Idle},
         \A n \in Node : dec'[n] \in {dec[n], Idle}
  PROVE  IndInv'
<1>1. \A n \in Node : dec'[n] = Idle => HandedOver(n)'
  BY DEF HandedOver
<1>2. QED
  BY <1>1, ClientIdle, ByParts

\* Entries that stay as they are.
LEMMA NoPutGrows ==
  ASSUME TypeOK, NoPut, RingsKept' => RingsKept
  PROVE  Grows
BY TypesOf DEF NoPut, Grows

-----------------------------------------------------------------------------
(* The invariant holds initially.                                          *)

LEMMA InitIndInv == Init => IndInv
<1> SUFFICES ASSUME Init PROVE IndInv
  OBVIOUS
<1>0. Absent \in Entry /\ Absent.ts = 0
  BY DEF Absent, Entry
<1>1. TypeOK
  BY <1>0 DEF Init, TypeOK, Table, NoEntries, Versions
<1>2. RingsWhole
  BY DEF Init, RingsWhole
<1>3. QuorumHolds
  <2>1. ASSUME NEW k \in Key
        PROVE  Cardinality({n \in Home(k) : store[n][k].ts >= acked[k]})
                 >= Quorum(Cardinality(Home(k)))
    <3>1. Home(k) \subseteq Node /\ IsFiniteSet(Home(k)) /\ Cardinality(Home(k)) \in Nat
      BY HomeIsFinite
    <3>2. \A n \in Home(k) : store[n][k].ts >= acked[k]
      BY <1>0, <3>1 DEF Init, NoEntries
    <3>3. {n \in Home(k) : store[n][k].ts >= acked[k]} = Home(k)
      BY <3>2
    <3>4. Home(k) # {}
      BY HomeIsNotEmpty
    <3>5. Cardinality(Home(k)) # 0
      BY <3>1, <3>4, FS_EmptySet
    <3>6. \A m \in Nat : m # 0 => m >= Quorum(m)
      BY DEF Quorum
    <3>7. QED
      BY <3>1, <3>3, <3>5, <3>6
  <2>2. QED
    BY <2>1 DEF QuorumHolds
<1>4. QED
  BY <1>1, <1>2, <1>3 DEF Init, IndInv, WriteHolds, ReadCanBeFresh, ReadIsFresh, HandedOver, Idle

-----------------------------------------------------------------------------
(* Writes.                                                                 *)

LEMMA StartWriteInd ==
  ASSUME IndInv, NEW c \in Client, NEW h \in Gateway, NEW batch \in Batches,
         NEW tombstone \in Deletes, StartWrite(c, h, batch, tombstone)
  PROVE  IndInv'
<1> DEFINE K == Keys(batch)
           replicas == [k \in K |-> ReplicasFor(k, members[h])]
           entry == [ts |-> clock + 1, tombstone |-> tombstone]
           new == [kind |-> "write", home |-> h, batch |-> batch, replicas |-> replicas,
                   entry |-> entry, before |-> {<<k, acked[k]>> : k \in K},
                   todo |-> UNION {replicas[k] : k \in K}, ok |-> {}]
<1>0. TypeOK
  BY DEF IndInv
<1>1. op' = [op EXCEPT ![c] = new] /\ clock' = clock + 1 /\ Use("write")
      /\ UNCHANGED <<store, up, members, stray, rec, dec, acked, obsolete, regressed>>
  BY DEF StartWrite
<1>2. h \in Node /\ batch \in Seq(Key) /\ tombstone \in BOOLEAN
  BY ClientAssumption, BatchesAssumption
<1>3. K \in SUBSET Key
  BY <1>2 DEF Keys
<1>4. replicas \in [K -> SUBSET Node]
  BY <1>3, ReplicasAreNodes
<1>5. entry \in Entry
  BY <1>0, <1>2 DEF Entry, TypeOK
<1>6. {<<k, acked[k]>> : k \in K} \in Versions
  BY <1>0, <1>3 DEF TypeOK, Versions
<1>7. UNION {replicas[k] : k \in K} \in SUBSET Node
  BY <1>4
<1> HIDE DEF entry, replicas
<1>8. new \in WriteOps
  <2>1. replicas \in Placements
    BY <1>3, <1>4 DEF Placements
  <2>2. QED
    BY <1>2, <1>5, <1>6, <1>7, <2>1 DEF WriteOps
<1>9. used' \in [Kinds -> Nat] /\ (RingsKept' => RingsKept)
  BY <1>0, <1>1, UseCounts DEF Kinds
<1>10. op'[c] = new /\ \A d \in Client : d # c => op'[d] = op[d]
  BY <1>0, <1>1 DEF TypeOK
<1>11. op' \in [Client -> {Idle} \cup WriteOps \cup ReadOps \cup ReadAnswers]
  <2> HIDE DEF new
  <2>1. QED
    BY <1>0, <1>1, <1>8 DEF TypeOK
<1>12. TypeOK'
  BY <1>0, <1>1, <1>9, <1>11 DEF TypeOK
<1>13. Grows
  BY <1>0, <1>1, <1>9, NoPutGrows DEF NoPut
<1>14. ClientInv(c)'
  <2>1. /\ op'[c].kind = "write" /\ op'[c].replicas = replicas /\ op'[c].batch = batch
        /\ op'[c].ok = {}
    BY <1>10
  <2>2. ASSUME RingsKept', NEW k \in K PROVE replicas[k] = Home(k)
    <3>1. members[h] = Node
      BY <2>2, <1>2, <1>9 DEF IndInv, RingsWhole
    <3>2. QED
      BY <3>1, <2>2 DEF replicas, Home
  <2>3. DOMAIN replicas = K
    BY <1>4
  <2>4. WriteHolds(c)'
    BY <2>1, <2>2, <2>3 DEF WriteHolds
  <2>5. QED
    BY <2>1, <2>4 DEF ClientInv, ReadCanBeFresh, ReadIsFresh
<1>15. QED
  BY <1>1, <1>10, <1>12, <1>13, <1>14, ByParts

\* What a node is sent of a write are keys.
LEMMA ItemsAreKeys ==
  ASSUME TypeOK, NEW c \in Client, op[c].kind = "write", NEW n
  PROVE  ItemsFor(op[c], n) \in SUBSET Key /\ \A i : PrefixFor(op[c], n, i) \in SUBSET Key
BY WriteType DEF ItemsFor, PrefixFor

\* A write waits for fewer nodes, and perhaps counts one more.
LEMMA WriteRecord ==
  ASSUME TypeOK, NEW c \in Client, op[c].kind = "write", NEW n \in Node, NEW more \in SUBSET {n},
         op' = [op EXCEPT ![c].todo = @ \ {n}, ![c].ok = @ \cup more]
  PROVE  /\ op' \in [Client -> {Idle} \cup WriteOps \cup ReadOps \cup ReadAnswers]
         /\ op'[c] = [op[c] EXCEPT !.todo = @ \ {n}, !.ok = @ \cup more]
         /\ \A d \in Client : d # c => op'[d] = op[d]
         /\ op'[c].kind = "write" /\ op'[c].batch = op[c].batch
         /\ op'[c].replicas = op[c].replicas /\ op'[c].entry = op[c].entry
         /\ op'[c].ok = op[c].ok \cup more
<1>1. op[c] \in WriteOps
  BY WriteType
<1>2. /\ op'[c] = [op[c] EXCEPT !.todo = @ \ {n}, !.ok = @ \cup more]
      /\ \A d \in Client : d # c => op'[d] = op[d]
  BY DEF TypeOK
<1>3. op'[c] \in WriteOps
  <2> DEFINE o == op[c]
             t == o.todo \ {n}
             u == o.ok \cup more
  <2>1. o \in WriteOps /\ t \in SUBSET Node /\ u \in SUBSET Node
    BY <1>1, WriteType
  <2>2. op'[c] = [o EXCEPT !.todo = t, !.ok = u]
    BY <1>2
  <2> HIDE DEF o, t, u
  <2>3. [o EXCEPT !.todo = t, !.ok = u] \in WriteOps
    BY <2>1, Zenon DEF WriteOps
  <2>4. QED
    BY <2>2, <2>3
<1>4. op' \in [Client -> {Idle} \cup WriteOps \cup ReadOps \cup ReadAnswers]
  BY <1>3 DEF TypeOK
<1>5. QED
  BY <1>1, <1>2, <1>4 DEF WriteOps

LEMMA WriteAppliedInd ==
  ASSUME IndInv, NEW c \in Client, NEW n \in Node, WriteApplied(c, n)
  PROVE  IndInv'
<1>0. TypeOK /\ op[c].kind = "write"
  BY DEF IndInv, WriteApplied
<1>1. /\ op[c].entry \in Entry /\ ItemsFor(op[c], n) \in SUBSET Key
      /\ PutAll(n, ItemsFor(op[c], n), op[c].entry)
  BY <1>0, WriteType, ItemsAreKeys DEF WriteApplied
<1>2. /\ store' \in [Node -> Table] /\ regressed' \in SUBSET Key
      /\ regressed \subseteq regressed'
      /\ \A m \in Node, k \in Key : k \notin regressed' => store'[m][k].ts >= store[m][k].ts
      /\ \A k \in ItemsFor(op[c], n) : store'[n][k] = op[c].entry
  <2> DEFINE e == op[c].entry
             ks == ItemsFor(op[c], n)
  <2>1. e \in Entry /\ ks \in SUBSET Key /\ PutAll(n, ks, e)
    BY <1>1
  <2> HIDE DEF e, ks
  <2>2. /\ store' \in [Node -> Table] /\ regressed' \in SUBSET Key
        /\ regressed \subseteq regressed'
        /\ \A m \in Node, k \in Key : k \notin regressed' => store'[m][k].ts >= store[m][k].ts
        /\ \A k \in ks : store'[n][k] = e
    BY <1>0, <2>1, PutAllGrows
  <2>3. QED
    BY <2>2 DEF e, ks
<1>3. op' = [op EXCEPT ![c].todo = @ \ {n}, ![c].ok = @ \cup {n}]
      /\ UNCHANGED <<up, members, stray, rec, dec, clock, acked, obsolete, used>>
  BY DEF WriteApplied
<1>4. /\ op' \in [Client -> {Idle} \cup WriteOps \cup ReadOps \cup ReadAnswers]
      /\ \A d \in Client : d # c => op'[d] = op[d]
      /\ op'[c].kind = "write" /\ op'[c].batch = op[c].batch
      /\ op'[c].replicas = op[c].replicas /\ op'[c].entry = op[c].entry
      /\ op'[c].ok = op[c].ok \cup {n}
  BY <1>0, <1>3, WriteRecord
<1>5. TypeOK'
  BY <1>0, <1>2, <1>3, <1>4 DEF TypeOK
<1>6. Grows
  BY <1>2, <1>3 DEF Grows, RingsKept
<1>7. WriteHolds(c)'
  <2>1. WriteHolds(c)
    BY DEF IndInv
  <2>2. op[c].entry.ts \in Nat
    BY <1>0, WriteType
  <2>3. ASSUME NEW m \in op'[c].ok, NEW k \in ItemsFor(op[c], m), k \notin regressed'
        PROVE  store'[m][k].ts >= op[c].entry.ts
    <3>1. CASE m = n
      BY <3>1, <2>2, <1>2
    <3>2. CASE m # n
      <4>1. m \in op[c].ok /\ m \in Node /\ k \in Key
        BY <3>2, <1>0, <1>4, WriteType, ItemsAreKeys
      <4>2. store[m][k].ts >= op[c].entry.ts /\ store'[m][k].ts >= store[m][k].ts
        BY <4>1, <2>1, <2>3, <1>0, <1>2 DEF WriteHolds
      <4>3. store[m][k].ts \in Nat /\ store'[m][k].ts \in Nat
        BY <4>1, <1>0, <1>5 DEF TypeOK, Table, Entry
      <4>4. QED
        BY <4>2, <4>3, <2>2
    <3>3. QED
      BY <3>1, <3>2
  <2>4. \A m : ItemsFor(op'[c], m) = ItemsFor(op[c], m)
    BY <1>4 DEF ItemsFor
  <2>5. QED
    BY <1>0, <1>4, <1>6, <2>1, <2>3, <2>4 DEF WriteHolds, Grows
<1>8. ClientInv(c)'
  BY <1>4, <1>7 DEF ClientInv, ReadCanBeFresh, ReadIsFresh
<1>9. QED
  BY <1>3, <1>4, <1>5, <1>6, <1>8, ByParts

\* A put by some step that takes care of the bounds.
LEMMA PutGrows ==
  ASSUME TypeOK, NEW n \in Node, NEW ks \in SUBSET Key, NEW e \in Entry, PutAll(n, ks, e),
         RingsKept' => RingsKept
  PROVE  Grows /\ store' \in [Node -> Table] /\ regressed' \in SUBSET Key
BY PutAllGrows DEF Grows

\* A request that its sender gives up.
LEMMA RequestType ==
  ASSUME TypeOK, NEW n \in Node, NEW ks \in SUBSET Key, NEW e \in Entry
  PROVE  stray \cup {Request(n, ks, e)} \in SUBSET [node : Node, keys : SUBSET Key, entry : Entry]
BY DEF TypeOK, Request

LEMMA WriteFailsInd ==
  ASSUME IndInv, NEW c \in Client, NEW n \in Node, WriteRefused(c, n) \/ WriteBroken(c, n)
  PROVE  IndInv'
<1>0. TypeOK /\ op[c].kind = "write" /\ ClientInv(c)
  BY DEF IndInv, WriteRefused, WriteBroken, ClientInv
<1>1. /\ op' = [op EXCEPT ![c].todo = @ \ {n}]
      /\ UNCHANGED <<up, members, rec, dec, clock, acked, obsolete>>
  BY DEF WriteRefused, WriteBroken
<1>2. /\ op' \in [Client -> {Idle} \cup WriteOps \cup ReadOps \cup ReadAnswers]
      /\ \A d \in Client : d # c => op'[d] = op[d]
      /\ op'[c].kind = "write" /\ op'[c].batch = op[c].batch
      /\ op'[c].replicas = op[c].replicas /\ op'[c].entry = op[c].entry
      /\ op'[c].ok = op[c].ok
  <2>1. op[c] \in WriteOps /\ op'[c] = [op[c] EXCEPT !.todo = @ \ {n}]
        /\ \A d \in Client : d # c => op'[d] = op[d]
    BY <1>0, <1>1, WriteType DEF TypeOK
  <2>2. op'[c] \in WriteOps
    BY <2>1, Zenon DEF WriteOps
  <2>3. QED
    BY <1>0, <1>1, <2>1, <2>2 DEF TypeOK, WriteOps
<1>3. used' \in [Kinds -> Nat] /\ (RingsKept' => RingsKept)
  BY <1>0, UseCounts DEF WriteRefused, WriteBroken, Kinds, TypeOK, RingsKept
<1>4. /\ Grows /\ store' \in [Node -> Table] /\ regressed' \in SUBSET Key
      /\ stray' \in SUBSET [node : Node, keys : SUBSET Key, entry : Entry]
  <2> DEFINE e == op[c].entry
  <2>0. e \in Entry
    BY <1>0, WriteType
  <2>1. CASE NoPut /\ stray' = stray
    BY <2>1, <1>0, <1>3, NoPutGrows DEF NoPut, TypeOK
  <2>2. CASE NoPut /\ stray' = stray \cup {Request(n, ItemsFor(op[c], n), e)}
    <3> DEFINE ks == ItemsFor(op[c], n)
    <3>1. ks \in SUBSET Key
      BY <1>0, ItemsAreKeys
    <3>2. stray' = stray \cup {Request(n, ks, e)}
      BY <2>2
    <3> HIDE DEF ks, e
    <3>3. stray' \in SUBSET [node : Node, keys : SUBSET Key, entry : Entry]
      BY <1>0, <2>0, <3>1, <3>2, RequestType
    <3>4. QED
      BY <2>2, <3>3, <1>0, <1>3, NoPutGrows DEF NoPut, TypeOK
  <2>3. ASSUME NEW i, PutAll(n, PrefixFor(op[c], n, i), e), stray' = stray
        PROVE  /\ Grows /\ store' \in [Node -> Table] /\ regressed' \in SUBSET Key
               /\ stray' \in SUBSET [node : Node, keys : SUBSET Key, entry : Entry]
    <3> DEFINE ks == PrefixFor(op[c], n, i)
    <3>1. ks \in SUBSET Key /\ PutAll(n, ks, e)
      BY <2>3, <1>0, ItemsAreKeys
    <3> HIDE DEF ks, e
    <3>2. Grows /\ store' \in [Node -> Table] /\ regressed' \in SUBSET Key
      BY <1>0, <1>3, <2>0, <3>1, PutGrows
    <3>3. QED
      BY <3>2, <2>3, <1>0 DEF TypeOK
  <2> HIDE DEF e
  <2>4. QED
    BY <2>1, <2>2, <2>3 DEF WriteRefused, WriteBroken, NoPut, e
<1>5. TypeOK'
  BY <1>0, <1>1, <1>2, <1>3, <1>4 DEF TypeOK
<1>6. WriteHolds(c)'
  BY <1>0, <1>2, <1>4, <1>5, WriteKept DEF ClientInv
<1>7. ClientInv(c)'
  BY <1>2, <1>6 DEF ClientInv, ReadCanBeFresh, ReadIsFresh
<1>8. QED
  BY <1>1, <1>2, <1>4, <1>5, <1>7, ByParts

\* An operation ends.
LEMMA EndsType ==
  ASSUME TypeOK, NEW c \in Client, op' = [op EXCEPT ![c] = Idle]
  PROVE  /\ op' \in [Client -> {Idle} \cup WriteOps \cup ReadOps \cup ReadAnswers]
         /\ op'[c] = Idle /\ \A d \in Client : op'[d] \in {op[d], Idle}
BY DEF TypeOK

\* The write is acknowledged only when a quorum of each key's replicas holds it.
LEMMA FinishWriteInd ==
  ASSUME IndInv, NEW c \in Client, FinishWrite(c)
  PROVE  IndInv'
<1> DEFINE o == op[c]
<1>0. TypeOK /\ o.kind = "write" /\ WriteHolds(c) /\ QuorumHolds
  BY DEF IndInv, FinishWrite
<1>1. /\ o \in WriteOps /\ o.entry.ts \in Nat /\ o.ok \in SUBSET Node
      /\ Keys(o.batch) \subseteq Key /\ o.before \in Versions
  BY <1>0, WriteType DEF WriteOps
<1>2. /\ op' = [op EXCEPT ![c] = Idle]
      /\ obsolete' = IF WriteSucceeded(o) THEN obsolete \cup o.before ELSE obsolete
      /\ acked' = [k \in Key |-> IF k \in Keys(o.batch) /\ WriteSucceeded(o) /\ o.entry.ts > acked[k]
                                 THEN o.entry.ts ELSE acked[k]]
      /\ UNCHANGED <<store, up, members, stray, rec, dec, clock, regressed, used>>
  BY DEF FinishWrite
<1>3. /\ op' \in [Client -> {Idle} \cup WriteOps \cup ReadOps \cup ReadAnswers]
      /\ op'[c] = Idle /\ \A d \in Client : op'[d] \in {op[d], Idle}
  BY <1>0, <1>2, EndsType
<1>4. TypeOK'
  <2>1. acked' \in [Key -> Nat] /\ obsolete' \in Versions
    BY <1>0, <1>1, <1>2 DEF TypeOK, Versions
  <2>2. QED
    BY <1>0, <1>2, <1>3, <2>1 DEF TypeOK
<1>5. Grows
  BY <1>0, <1>2, NoPutGrows DEF NoPut, RingsKept
<1>6. QuorumHolds'
  <2> SUFFICES ASSUME NEW k \in Key, k \notin regressed, RingsKept
               PROVE  Cardinality({n \in Home(k) : store[n][k].ts >= acked'[k]})
                        >= Quorum(Cardinality(Home(k)))
    BY <1>2 DEF QuorumHolds, RingsKept
  <2>1. CASE acked'[k] = acked[k]
    BY <2>1, <1>0 DEF QuorumHolds, RingsKept
  <2>2. CASE acked'[k] # acked[k]
    <3>1. acked'[k] = o.entry.ts /\ k \in Keys(o.batch) /\ WriteSucceeded(o)
      BY <2>2, <1>2
    <3>2. o.replicas[k] = Home(k)
      BY <3>1, <1>0 DEF WriteHolds
    <3>3. Cardinality(o.ok \cap Home(k)) >= Quorum(Cardinality(Home(k)))
      BY <3>1, <3>2 DEF WriteSucceeded
    <3>4. \A n \in o.ok \cap Home(k) : store[n][k].ts >= o.entry.ts
      BY <3>1, <3>2, <1>0 DEF WriteHolds, ItemsFor
    <3>5. IsFiniteSet(Home(k))
      BY HomeIsFinite
    <3> DEFINE A == o.ok \cap Home(k)
               B == {n \in Home(k) : store[n][k].ts >= acked'[k]}
    <3>6. A \in SUBSET Home(k) /\ B \in SUBSET Home(k) /\ A \subseteq B
      BY <3>1, <3>4
    <3>7. Cardinality(A) >= Quorum(Cardinality(Home(k)))
      BY <3>3
    <3> HIDE DEF A, B
    <3>8. Cardinality(B) >= Quorum(Cardinality(Home(k)))
      BY <3>5, <3>6, <3>7, QuorumGrows
    <3>9. QED
      BY <3>8 DEF B
  <2>3. QED
    BY <2>1, <2>2
<1>7. RingsWhole'
  BY <1>2 DEF IndInv, RingsWhole, RingsKept
<1>8. \A d \in Client : ClientInv(d)'
  BY <1>0, <1>3, <1>4, <1>5, ClientKept, ClientIdle DEF IndInv, ClientInv
<1>9. \A n \in Node : HandedOver(n)'
  BY <1>0, <1>2, <1>4, <1>5, HandedOverKept DEF IndInv
<1>10. QED
  BY <1>4, <1>6, <1>7, <1>8, <1>9 DEF IndInv, ClientInv

-----------------------------------------------------------------------------
(* Reads.                                                                  *)

\* A read starts where a quorum holds what has been acknowledged.
LEMMA StartReadInd ==
  ASSUME IndInv, NEW c \in Client, NEW h \in Gateway, NEW k \in Key,
         NEW kind \in {"get", "scan"}, StartRead(c, h, k, kind)
  PROVE  IndInv'
<1> DEFINE asked == IF kind = "get" THEN ReplicasFor(k, members[h]) ELSE members[h]
           none == [n \in {} |-> Absent]
           new == [kind |-> kind, home |-> h, key |-> k, asked |-> asked, todo |-> asked,
                   seen |-> none, floor |-> acked[k], obsolete |-> obsolete]
<1>0. TypeOK /\ QuorumHolds
  BY DEF IndInv
<1>1. op' = [op EXCEPT ![c] = new] /\ Use("read")
      /\ UNCHANGED <<store, up, members, stray, rec, dec, clock, acked, obsolete, regressed>>
  BY DEF StartRead
<1>2. h \in Node /\ asked \in SUBSET Node
  BY <1>0, ClientAssumption, ReplicasAreNodes DEF TypeOK
<1>3. none \in Answered /\ DOMAIN none = {}
  BY DEF Answered
<1>4. acked[k] \in Nat /\ obsolete \in Versions
  BY <1>0 DEF TypeOK
<1>5. RingsKept /\ kind = "get" => asked = Home(k)
  BY <1>2 DEF IndInv, RingsWhole, Home
<1> HIDE DEF asked, none
<1>6. new \in ReadOps
  BY <1>2, <1>3, <1>4 DEF ReadOps
<1>7. used' \in [Kinds -> Nat] /\ (RingsKept' => RingsKept)
  BY <1>0, <1>1, UseCounts DEF Kinds
<1>8. op'[c] = new /\ \A d \in Client : d # c => op'[d] = op[d]
  BY <1>0, <1>1 DEF TypeOK
<1>9. op' \in [Client -> {Idle} \cup WriteOps \cup ReadOps \cup ReadAnswers]
  <2> HIDE DEF new
  <2>1. QED
    BY <1>0, <1>1, <1>6 DEF TypeOK
<1>10. TypeOK'
  BY <1>0, <1>1, <1>7, <1>9 DEF TypeOK
<1>11. Grows
  BY <1>0, <1>1, <1>7, NoPutGrows DEF NoPut
<1>12. ClientInv(c)'
  <2>1. /\ op'[c].kind = kind /\ op'[c].key = k /\ op'[c].asked = asked /\ op'[c].todo = asked
        /\ op'[c].seen = none /\ op'[c].floor = acked[k]
    BY <1>8
  <2>2. \A n \in Node : Answer(op[c], n)' = store[n][k].ts
    BY <2>1, <1>1, <1>3 DEF Answer
  <2>3. Home(k) \subseteq Node
    BY HomeIsFinite
  <2>4. {n \in Home(k) : Answer(op[c], n)' >= acked[k]} = {n \in Home(k) : store[n][k].ts >= acked[k]}
    BY <2>2, <2>3
  <2>5. k \notin regressed /\ RingsKept =>
          Cardinality({n \in Home(k) : Answer(op[c], n)' >= acked[k]}) >= Quorum(Cardinality(Home(k)))
    BY <2>4, <1>0 DEF QuorumHolds, RingsKept
  <2>6. ReadCanBeFresh(c)'
    BY <2>1, <2>5, <1>1, <1>3, <1>5, <1>7 DEF ReadCanBeFresh
  <2>7. QED
    BY <2>1, <2>6 DEF ClientInv, WriteHolds, ReadIsFresh
<1>13. QED
  BY <1>1, <1>8, <1>10, <1>11, <1>12, ByParts

\* The answer that arrives is the one the node would have given.
LEMMA ReadAnsweredInd ==
  ASSUME IndInv, NEW c \in Client, NEW n \in Node, ReadAnswered(c, n)
  PROVE  IndInv'
<1> DEFINE o == op[c]
           t == o.todo \ {n}
           s == [m \in DOMAIN o.seen \cup {n} |-> IF m = n THEN store[n][o.key] ELSE o.seen[m]]
<1>0. TypeOK /\ ReadCanBeFresh(c) /\ o.kind \in {"get", "scan"} /\ n \in o.todo
  BY DEF IndInv, ReadAnswered, Reading
<1>1. /\ o \in ReadOps /\ o.key \in Key /\ o.floor \in Nat /\ o.todo \in SUBSET Node
      /\ DOMAIN o.seen \in SUBSET Node /\ o.seen \in [DOMAIN o.seen -> Entry]
  BY <1>0, ReadType
<1>2. /\ op' = [op EXCEPT ![c].todo = t, ![c].seen = s]
      /\ UNCHANGED <<store, up, members, stray, rec, dec, clock, acked, obsolete, regressed, used>>
  BY DEF ReadAnswered
<1>3. t \in SUBSET Node
  BY <1>1
<1>4. s \in Answered /\ DOMAIN s = DOMAIN o.seen \cup {n}
  <2>1. store[n][o.key] \in Entry
    BY <1>0, <1>1, TypesOf
  <2>2. s \in [DOMAIN o.seen \cup {n} -> Entry]
    BY <1>1, <2>1
  <2>3. QED
    BY <1>1, <2>2 DEF Answered
<1>5. op'[c] = [o EXCEPT !.todo = t, !.seen = s] /\ \A d \in Client : d # c => op'[d] = op[d]
  BY <1>0, <1>2 DEF TypeOK
<1>6. \A m \in Node : (IF m \in DOMAIN s THEN s[m].ts ELSE store[m][o.key].ts) = Answer(o, m)
  <2>1. n \notin DOMAIN o.seen
    BY <1>0 DEF ReadCanBeFresh
  <2>2. ASSUME NEW m \in Node
        PROVE (IF m \in DOMAIN s THEN s[m].ts ELSE store[m][o.key].ts) = Answer(o, m)
    BY <2>1, <1>4 DEF Answer
  <2>3. QED
    BY <2>2
<1>7. t \cup DOMAIN s \subseteq o.asked /\ t \cap DOMAIN s = {}
  BY <1>0, <1>4 DEF ReadCanBeFresh
<1>8. /\ op'[c] \in ReadOps /\ op'[c].kind = o.kind /\ op'[c].key = o.key /\ op'[c].asked = o.asked
      /\ op'[c].todo = t /\ op'[c].seen = s /\ op'[c].floor = o.floor
  <2> HIDE DEF o, t, s
  <2>1. [o EXCEPT !.todo = t, !.seen = s] \in ReadOps
    BY <1>1, <1>3, <1>4, Zenon DEF ReadOps
  <2>2. QED
    BY <1>1, <1>5, <2>1 DEF ReadOps
<1>9. op' \in [Client -> {Idle} \cup WriteOps \cup ReadOps \cup ReadAnswers]
  BY <1>0, <1>2, <1>8 DEF TypeOK
<1>10. TypeOK'
  BY <1>0, <1>2, <1>9 DEF TypeOK
<1>11. Grows
  BY <1>0, <1>2, NoPutGrows DEF NoPut, RingsKept
<1>12. ClientInv(c)'
  <2> HIDE DEF t, s
  <2>1. \A m \in Node : Answer(op[c], m)' = Answer(o, m)
    BY <1>2, <1>6, <1>8 DEF Answer
  <2>2. Home(o.key) \subseteq Node
    BY <1>1, HomeIsFinite
  <2>3. {m \in Home(o.key) : Answer(op[c], m)' >= o.floor}
          = {m \in Home(o.key) : Answer(o, m) >= o.floor}
    BY <2>1, <2>2
  <2>4. /\ op'[c].kind = o.kind /\ op'[c].key = o.key /\ op'[c].asked = o.asked
        /\ op'[c].todo = t /\ op'[c].seen = s /\ op'[c].floor = o.floor
        /\ regressed' = regressed /\ (RingsKept' <=> RingsKept)
    BY <1>2, <1>8 DEF RingsKept
  <2>5. /\ o.kind = "get" /\ RingsKept => o.asked = Home(o.key)
        /\ o.kind = "get" /\ RingsKept /\ o.key \notin regressed =>
             Cardinality({m \in Home(o.key) : Answer(o, m) >= o.floor})
               >= Quorum(Cardinality(Home(o.key)))
    BY <1>0 DEF ReadCanBeFresh
  <2>6. o.kind = "get" /\ RingsKept /\ o.key \notin regressed =>
          Cardinality({m \in Home(o.key) : Answer(op[c], m)' >= o.floor})
            >= Quorum(Cardinality(Home(o.key)))
    BY <2>3, <2>5
  <2>7. ReadCanBeFresh(c)'
    <3> HIDE DEF o
    <3>1. QED
      BY <2>4, <2>5, <2>6, <1>7 DEF ReadCanBeFresh
  <2>8. QED
    BY <2>7, <1>0, <1>8 DEF ClientInv, WriteHolds, ReadIsFresh
<1>13. QED
  BY <1>2, <1>5, <1>10, <1>11, <1>12, ByParts

LEMMA ReadRefusedInd ==
  ASSUME IndInv, NEW c \in Client, NEW n \in Node, ReadRefused(c, n)
  PROVE  IndInv'
<1>0. TypeOK /\ ReadCanBeFresh(c) /\ op[c].kind \in {"get", "scan"}
  BY DEF IndInv, ReadRefused, Reading
<1>1. op' = [op EXCEPT ![c].todo = @ \ {n}]
      /\ UNCHANGED <<store, up, members, stray, rec, dec, clock, acked, obsolete, regressed>>
  BY DEF ReadRefused
<1>2. used' \in [Kinds -> Nat] /\ (RingsKept' => RingsKept)
  BY <1>0, UseCounts DEF ReadRefused, Kinds, TypeOK, RingsKept
<1>3. op[c] \in ReadOps /\ op'[c] = [op[c] EXCEPT !.todo = @ \ {n}]
      /\ \A d \in Client : d # c => op'[d] = op[d]
  BY <1>0, <1>1, ReadType DEF TypeOK
<1>4. op'[c] \in ReadOps
  BY <1>3, Zenon DEF ReadOps
<1>5. /\ op'[c].kind = op[c].kind /\ op'[c].key = op[c].key /\ op'[c].asked = op[c].asked
      /\ op'[c].seen = op[c].seen /\ op'[c].floor = op[c].floor
      /\ op'[c].todo \subseteq op[c].todo
  BY <1>3 DEF ReadOps
<1>6. TypeOK'
  BY <1>0, <1>1, <1>2, <1>4 DEF TypeOK
<1>7. Grows
  BY <1>0, <1>1, <1>2, NoPutGrows DEF NoPut
<1>8. ReadCanBeFresh(c)'
  BY <1>0, <1>5, <1>6, <1>7, ReadKept
<1>9. ClientInv(c)'
  BY <1>0, <1>5, <1>8 DEF ClientInv, WriteHolds, ReadIsFresh
<1>10. QED
  BY <1>1, <1>3, <1>6, <1>7, <1>9, ByParts

LEMMA ReadEndsInd ==
  ASSUME IndInv, NEW c \in Client, ReadFails(c) \/ Return(c)
  PROVE  IndInv'
<1>1. /\ op' = [op EXCEPT ![c] = Idle]
      /\ UNCHANGED <<store, up, members, stray, rec, dec, clock, acked, obsolete, regressed, used>>
  BY DEF ReadFails, Return
<1>2. TypeOK
  BY DEF IndInv
<1>3. /\ op' \in [Client -> {Idle} \cup WriteOps \cup ReadOps \cup ReadAnswers]
      /\ \A d \in Client : op'[d] \in {op[d], Idle}
  BY <1>1, <1>2, EndsType
<1>4. TypeOK'
  BY <1>1, <1>2, <1>3 DEF TypeOK
<1>5. Grows
  BY <1>1, <1>2, NoPutGrows DEF NoPut, RingsKept
<1>6. QED
  BY <1>1, <1>3, <1>4, <1>5, ByEnding

\* The replicas that answered meet those that hold what had been acknowledged.
LEMMA FinishReadInd ==
  ASSUME IndInv, NEW c \in Client, FinishRead(c)
  PROVE  IndInv'
<1> DEFINE o == op[c]
           best == Best(o.seen)
           stale == {n \in DOMAIN o.seen : o.seen[n].ts < best.ts}
           kind == IF o.kind = "get" THEN "repair" ELSE "scanned"
           todo == IF o.kind = "get" THEN stale ELSE {}
           new == [kind |-> kind, home |-> o.home, key |-> o.key, entry |-> best,
                   todo |-> todo, floor |-> o.floor, obsolete |-> o.obsolete]
<1>0. TypeOK /\ ReadCanBeFresh(c) /\ o.kind \in {"get", "scan"}
  BY DEF IndInv, FinishRead, Reading
<1>1. /\ o \in ReadOps /\ o.key \in Key /\ o.floor \in Nat /\ o.home \in Node
      /\ DOMAIN o.seen \in SUBSET Node /\ o.seen \in [DOMAIN o.seen -> Entry]
      /\ o.obsolete \in Versions
  BY <1>0, ReadType
<1>2. best \in Entry /\ \A n \in DOMAIN o.seen : o.seen[n].ts <= best.ts
  <2> DEFINE N == DOMAIN o.seen
             seen == o.seen
  <2>1. N \in SUBSET Node /\ seen \in [N -> Entry]
    BY <1>1
  <2> HIDE DEF N, seen
  <2>2. Best(seen) \in Entry /\ \A n \in N : seen[n].ts <= Best(seen).ts
    BY <2>1, BestIsNewest
  <2>3. QED
    BY <2>2 DEF N, seen
<1>3. /\ op' = [op EXCEPT ![c] = new]
      /\ UNCHANGED <<store, up, members, stray, rec, dec, clock, acked, obsolete, regressed, used>>
      /\ o.kind = "get" => Cardinality(DOMAIN o.seen) >= Quorum(Cardinality(o.asked))
  BY DEF FinishRead
<1>4. kind \in {"repair", "scanned"} /\ todo \in SUBSET Node
  BY <1>1
<1>5. kind = "repair" => o.kind = "get"
  OBVIOUS
<1>6. ASSUME o.kind = "get", RingsKept, o.key \notin regressed
      PROVE  best.ts >= o.floor
  <2> DEFINE H == Home(o.key)
             A == {n \in H : Answer(o, n) >= o.floor}
             B == DOMAIN o.seen
  <2>1. H \subseteq Node /\ IsFiniteSet(H)
    BY <1>1, HomeIsFinite
  <2>2. B \in SUBSET H /\ Cardinality(B) >= Quorum(Cardinality(H))
        /\ A \in SUBSET H /\ Cardinality(A) >= Quorum(Cardinality(H))
    BY <1>0, <1>3, <1>6 DEF ReadCanBeFresh
  <2> HIDE DEF A, B, H
  <2>3. A \cap B # {}
    BY <2>1, <2>2, QuorumsMeet
  <2>4. PICK n \in A \cap B : TRUE
    BY <2>3
  <2>5. n \in DOMAIN o.seen /\ o.seen[n].ts >= o.floor
    BY <2>4 DEF A, B, Answer
  <2>6. o.seen[n].ts <= best.ts /\ o.seen[n].ts \in Nat /\ best.ts \in Nat
    BY <2>5, <1>1, <1>2 DEF Entry
  <2>7. QED
    BY <2>5, <2>6, <1>1
<1> HIDE DEF best, stale, kind, todo
<1>7. new \in ReadAnswers
  BY <1>1, <1>2, <1>4 DEF ReadAnswers
<1>8. op'[c] = new /\ \A d \in Client : d # c => op'[d] = op[d]
  BY <1>0, <1>3 DEF TypeOK
<1>9. op' \in [Client -> {Idle} \cup WriteOps \cup ReadOps \cup ReadAnswers]
  <2> HIDE DEF new
  <2>1. QED
    BY <1>0, <1>3, <1>7 DEF TypeOK
<1>10. TypeOK'
  BY <1>0, <1>3, <1>9 DEF TypeOK
<1>11. Grows
  BY <1>0, <1>3, NoPutGrows DEF NoPut, RingsKept
<1>12. ClientInv(c)'
  <2>1. op'[c].kind = kind /\ op'[c].key = o.key /\ op'[c].entry = best /\ op'[c].floor = o.floor
    BY <1>8
  <2>2. ReadIsFresh(c)'
    BY <2>1, <1>3, <1>5, <1>6 DEF ReadIsFresh, RingsKept
  <2>3. QED
    BY <2>1, <2>2, <1>4 DEF ClientInv, WriteHolds, ReadCanBeFresh
<1>13. QED
  BY <1>3, <1>8, <1>10, <1>11, <1>12, ByParts

LEMMA RepairInd ==
  ASSUME IndInv, NEW c \in Client, NEW n \in Node, Repair(c, n) \/ RepairFails(c, n)
  PROVE  IndInv'
<1>0. TypeOK /\ ReadIsFresh(c) /\ op[c].kind = "repair"
  BY DEF IndInv, Repair, RepairFails
<1>1. op' = [op EXCEPT ![c].todo = @ \ {n}]
      /\ UNCHANGED <<up, members, rec, dec, clock, acked, obsolete>>
  BY DEF Repair, RepairFails
<1>2. used' \in [Kinds -> Nat] /\ (RingsKept' => RingsKept)
  BY <1>0, UseCounts DEF Repair, RepairFails, Kinds, TypeOK, RingsKept
<1>3. op[c] \in ReadAnswers /\ op'[c] = [op[c] EXCEPT !.todo = @ \ {n}]
      /\ \A d \in Client : d # c => op'[d] = op[d]
  BY <1>0, <1>1, AnswerType DEF TypeOK
<1>4. op'[c] \in ReadAnswers
  BY <1>3, Zenon DEF ReadAnswers
<1>5. /\ op'[c].kind = "repair" /\ op'[c].key = op[c].key /\ op'[c].entry = op[c].entry
      /\ op'[c].floor = op[c].floor
  BY <1>0, <1>3 DEF ReadAnswers
<1>6. /\ Grows /\ store' \in [Node -> Table] /\ regressed' \in SUBSET Key
      /\ stray' \in SUBSET [node : Node, keys : SUBSET Key, entry : Entry]
  <2> DEFINE e == op[c].entry
             ks == {op[c].key}
  <2>0. e \in Entry /\ ks \in SUBSET Key
    BY <1>0, AnswerType
  <2>1. \/ PutAll(n, ks, e) /\ UNCHANGED stray
        \/ NoPut /\ stray' \in {stray, stray \cup {Request(n, ks, e)}}
    BY DEF Repair, RepairFails, NoPut
  <2> HIDE DEF e, ks
  <2>2. CASE PutAll(n, ks, e) /\ UNCHANGED stray
    <3>1. Grows /\ store' \in [Node -> Table] /\ regressed' \in SUBSET Key
      BY <1>0, <1>2, <2>0, <2>2, PutGrows
    <3>2. QED
      BY <3>1, <2>2, <1>0 DEF TypeOK
  <2>3. CASE NoPut /\ stray' \in {stray, stray \cup {Request(n, ks, e)}}
    <3>1. stray \cup {Request(n, ks, e)} \in SUBSET [node : Node, keys : SUBSET Key, entry : Entry]
      BY <1>0, <2>0, RequestType
    <3>2. QED
      BY <3>1, <2>3, <1>0, <1>2, NoPutGrows DEF NoPut, TypeOK
  <2>4. QED
    BY <2>1, <2>2, <2>3
<1>7. TypeOK'
  BY <1>0, <1>1, <1>2, <1>4, <1>6 DEF TypeOK
<1>8. ClientInv(c)'
  BY <1>0, <1>5, <1>6 DEF ClientInv, WriteHolds, ReadCanBeFresh, ReadIsFresh, Grows
<1>9. QED
  BY <1>1, <1>3, <1>6, <1>7, <1>8, ByParts

LEMMA StrayAppliedInd ==
  ASSUME IndInv, NEW r \in stray, StrayApplied(r)
  PROVE  IndInv'
<1>1. TypeOK /\ r.node \in Node /\ r.keys \in SUBSET Key /\ r.entry \in Entry
  BY DEF IndInv, TypeOK
<1>2. /\ PutAll(r.node, r.keys, r.entry) /\ stray' = stray \ {r}
      /\ UNCHANGED <<up, members, op, rec, dec, clock, acked, obsolete, used>>
  BY DEF StrayApplied
<1>3. RingsKept' => RingsKept
  BY <1>2 DEF RingsKept
<1>4. Grows /\ store' \in [Node -> Table] /\ regressed' \in SUBSET Key
  BY <1>1, <1>2, <1>3, PutGrows
<1>5. TypeOK'
  BY <1>1, <1>2, <1>4 DEF TypeOK
<1>6. QED
  BY <1>2, <1>4, <1>5, ByParts

-----------------------------------------------------------------------------
(* Anti-entropy.                                                           *)

LEMMA PassType ==
  ASSUME TypeOK, NEW n \in Node, rec[n].kind # "idle"
  PROVE  /\ rec[n] \in Passes /\ rec[n].peer \in Node /\ rec[n].local \in Table
         /\ rec[n].kind \in {"buckets", "bucket"} => rec[n].todo \in SUBSET Key
         /\ rec[n].kind = "bucket" =>
              /\ rec[n].key \in Key /\ rec[n].remote \in Entry
              /\ rec[n].local[rec[n].key] \in Entry
<1>1. rec[n] \in Passes
  BY DEF TypeOK, Idle
<1>2. /\ rec[n].peer \in Node /\ rec[n].local \in Table
      /\ rec[n].kind \in {"buckets", "bucket"} => rec[n].todo \in SUBSET Key
      /\ rec[n].kind = "bucket" => rec[n].key \in Key /\ rec[n].remote \in Entry
  BY <1>1 DEF Passes
<1>3. QED
  BY <1>1, <1>2 DEF Table

\* A step of anti-entropy may put one entry, and leaves clients and handoffs alone.
LEMMA PassStep ==
  ASSUME IndInv, NEW n \in Node, NEW r \in {Idle} \cup Passes, rec' = [rec EXCEPT ![n] = r],
         stray' \in SUBSET [node : Node, keys : SUBSET Key, entry : Entry],
         used' \in [Kinds -> Nat], RingsKept' => RingsKept,
         NoPut \/ \E m \in Node, k \in Key, e \in Entry : PutAll(m, {k}, e),
         UNCHANGED <<up, members, op, dec, clock, acked, obsolete>>
  PROVE  IndInv'
<1>1. TypeOK
  BY DEF IndInv
<1>2. Grows /\ store' \in [Node -> Table] /\ regressed' \in SUBSET Key
  <2>1. CASE NoPut
    BY <2>1, <1>1, NoPutGrows DEF NoPut, TypeOK
  <2>2. ASSUME NEW m \in Node, NEW k \in Key, NEW e \in Entry, PutAll(m, {k}, e)
        PROVE  Grows /\ store' \in [Node -> Table] /\ regressed' \in SUBSET Key
    <3> DEFINE ks == {k}
    <3>1. ks \in SUBSET Key /\ PutAll(m, ks, e)
      BY <2>2
    <3> HIDE DEF ks
    <3>2. QED
      BY <3>1, <1>1, PutGrows
  <2>3. QED
    BY <2>1, <2>2
<1>3. rec' \in [Node -> {Idle} \cup Passes]
  BY <1>1 DEF TypeOK
<1>4. TypeOK'
  BY <1>1, <1>2, <1>3 DEF TypeOK
<1>5. QED
  BY <1>2, <1>4, ByParts

LEMMA NextBucketType ==
  ASSUME TypeOK, NEW n \in Node, rec[n].kind = "bucket", NextBucket(n)
  PROVE  \E r \in Passes : rec' = [rec EXCEPT ![n] = r]
<1> DEFINE r == [kind |-> "buckets", peer |-> rec[n].peer, local |-> rec[n].local,
                 todo |-> rec[n].todo]
<1>1. rec' = [rec EXCEPT ![n] = r]
  BY DEF NextBucket
<1>2. rec[n].peer \in Node /\ rec[n].local \in Table /\ rec[n].todo \in SUBSET Key
  BY PassType
<1>3. r \in Passes
  BY <1>2 DEF Passes
<1>4. QED
  BY <1>1, <1>3

LEMMA AntiEntropyInd ==
  ASSUME IndInv, AntiEntropy
  PROVE  IndInv'
<1>0. TypeOK
  BY DEF IndInv
<1>1. PICK n \in Node :
        \/ \E p \in Node : StartReconcile(n, p)
        \/ DiffTrees(n) \/ (\E k \in Key : FetchBucket(n, k))
        \/ Pull(n) \/ Push(n) \/ SkipKey(n) \/ EndReconcile(n)
  BY DEF AntiEntropy
<1> DEFINE Requests == SUBSET [node : Node, keys : SUBSET Key, entry : Entry]
<1>2. stray \in Requests /\ used \in [Kinds -> Nat] /\ store \in [Node -> Table]
  BY <1>0 DEF TypeOK
<1>3. ASSUME NEW p \in Node, StartReconcile(n, p) PROVE IndInv'
  <2> DEFINE r == [kind |-> "local", peer |-> p, local |-> store[n]]
  <2>1. r \in Passes
    BY <1>2 DEF Passes
  <2>2. /\ rec' = [rec EXCEPT ![n] = r] /\ NoPut
        /\ UNCHANGED <<up, members, op, stray, dec, clock, acked, obsolete>>
    BY <1>3 DEF StartReconcile, NoPut
  <2>3. used' \in [Kinds -> Nat] /\ (RingsKept' => RingsKept)
    BY <1>0, <1>3, UseCounts DEF StartReconcile, Kinds
  <2> HIDE DEF r
  <2>4. QED
    BY <2>1, <2>2, <2>3, <1>2, PassStep
<1>4. CASE DiffTrees(n)
  <2> DEFINE todo == {k \in Key : rec[n].local[k] # store[rec[n].peer][k]}
             r == [kind |-> "buckets", peer |-> rec[n].peer, local |-> rec[n].local,
                   todo |-> todo]
  <2>1. rec[n].peer \in Node /\ rec[n].local \in Table /\ todo \in SUBSET Key
    BY <1>0, <1>4, PassType DEF DiffTrees
  <2>2. /\ rec' = [rec EXCEPT ![n] = r] /\ NoPut
        /\ UNCHANGED <<up, members, op, stray, dec, clock, acked, obsolete, used>>
    BY <1>4 DEF DiffTrees, NoPut
  <2> HIDE DEF todo
  <2>3. r \in Passes
    BY <2>1 DEF Passes
  <2> HIDE DEF r
  <2>4. RingsKept' => RingsKept
    BY <2>2 DEF RingsKept
  <2>5. QED
    BY <2>2, <2>3, <2>4, <1>2, PassStep
<1>5. ASSUME NEW k \in Key, FetchBucket(n, k) PROVE IndInv'
  <2> DEFINE r == [kind |-> "bucket", peer |-> rec[n].peer, local |-> rec[n].local,
                   todo |-> rec[n].todo \ {k}, key |-> k, remote |-> store[rec[n].peer][k]]
  <2>1. rec[n].peer \in Node /\ rec[n].local \in Table /\ rec[n].todo \ {k} \in SUBSET Key
    BY <1>0, <1>5, PassType DEF FetchBucket
  <2>2. store[rec[n].peer][k] \in Entry
    BY <2>1, <1>0, TypesOf
  <2>3. /\ rec' = [rec EXCEPT ![n] = r] /\ NoPut
        /\ UNCHANGED <<up, members, op, stray, dec, clock, acked, obsolete, used>>
    BY <1>5 DEF FetchBucket, NoPut
  <2>4. r \in Passes
    BY <2>1, <2>2 DEF Passes
  <2> HIDE DEF r
  <2>5. RingsKept' => RingsKept
    BY <2>3 DEF RingsKept
  <2>6. QED
    BY <2>3, <2>4, <2>5, <1>2, PassStep
<1>6. CASE Pull(n) \/ Push(n)
  <2>1. rec[n].kind = "bucket" /\ NextBucket(n)
        /\ UNCHANGED <<up, members, op, stray, dec, clock, acked, obsolete, used>>
    BY <1>6 DEF Pull, Push
  <2>2. PICK r \in Passes : rec' = [rec EXCEPT ![n] = r]
    BY <2>1, <1>0, NextBucketType
  <2>3. /\ rec[n].peer \in Node /\ rec[n].key \in Key /\ rec[n].remote \in Entry
        /\ rec[n].local[rec[n].key] \in Entry
    BY <2>1, <1>0, PassType
  <2>4. \E m \in Node, k \in Key, e \in Entry : PutAll(m, {k}, e)
    BY <2>3, <1>6 DEF Pull, Push
  <2>5. RingsKept' => RingsKept
    BY <2>1 DEF RingsKept
  <2>6. QED
    BY <2>1, <2>2, <2>4, <2>5, <1>2, PassStep
<1>7. CASE SkipKey(n)
  <2>1. rec[n].kind = "bucket" /\ NextBucket(n) /\ NoPut
        /\ UNCHANGED <<up, members, op, dec, clock, acked, obsolete>>
    BY <1>7 DEF SkipKey, NoPut
  <2>2. PICK r \in Passes : rec' = [rec EXCEPT ![n] = r]
    BY <2>1, <1>0, NextBucketType
  <2> DEFINE p == rec[n].peer
             ks == {rec[n].key}
             e == rec[n].local[rec[n].key]
  <2>3. p \in Node /\ ks \in SUBSET Key /\ e \in Entry
    BY <2>1, <1>0, PassType
  <2>4. stray' \in {stray, stray \cup {Request(p, ks, e)}}
    BY <1>7 DEF SkipKey
  <2> HIDE DEF p, ks, e
  <2>5. stray \cup {Request(p, ks, e)} \in Requests
    BY <2>3, <1>0, RequestType
  <2>6. stray' \in Requests
    BY <2>4, <2>5, <1>2
  <2>7. used' \in [Kinds -> Nat] /\ (RingsKept' => RingsKept)
    <3>1. CASE UNCHANGED used
      BY <3>1, <1>2 DEF RingsKept
    <3>2. CASE Use("fault")
      BY <3>2, <1>0, UseCounts DEF Kinds
    <3>3. QED
      BY <3>1, <3>2, <1>7 DEF SkipKey
  <2>8. QED
    BY <2>1, <2>2, <2>6, <2>7, PassStep
<1>8. CASE EndReconcile(n)
  <2>1. /\ rec' = [rec EXCEPT ![n] = Idle] /\ NoPut
        /\ UNCHANGED <<up, members, op, stray, dec, clock, acked, obsolete>>
    BY <1>8 DEF EndReconcile, NoPut
  <2>2. used' \in [Kinds -> Nat] /\ (RingsKept' => RingsKept)
    <3>1. CASE UNCHANGED used
      BY <3>1, <1>2 DEF RingsKept
    <3>2. CASE Use("fault")
      BY <3>2, <1>0, UseCounts DEF Kinds
    <3>3. QED
      BY <3>1, <3>2, <1>8 DEF EndReconcile
  <2>3. QED
    BY <2>1, <2>2, <1>2, PassStep
<1>9. QED
  BY <1>1, <1>3, <1>4, <1>5, <1>6, <1>7, <1>8

-----------------------------------------------------------------------------
(* Processes end and start.                                                *)

Requests == [node : Node, keys : SUBSET Key, entry : Entry]

\* What an operation, a pass or a handoff has sent is a set of requests.
LEMMA OutstandingType ==
  ASSUME TypeOK, NEW c \in Client
  PROVE  \A sent \in Outstanding(c) : sent \subseteq Requests
<1>1. CASE op[c].kind = "write"
  <2>1. op[c].entry \in Entry /\ op[c].todo \in SUBSET Node
    BY <1>1, WriteType
  <2>2. ASSUME NEW n \in op[c].todo
        PROVE  Request(n, ItemsFor(op[c], n), op[c].entry) \in Requests
    <3>1. n \in Node
      BY <2>1, <2>2
    <3>2. ItemsFor(op[c], n) \in SUBSET Key
      BY <1>1, <3>1, ItemsAreKeys
    <3>3. QED
      BY <2>1, <3>1, <3>2 DEF Request, Requests
  <2>3. QED
    BY <1>1, <2>2 DEF Outstanding
<1>2. CASE op[c].kind = "repair"
  <2>1. op[c].entry \in Entry /\ op[c].todo \in SUBSET Node /\ op[c].key \in Key
    BY <1>2, AnswerType
  <2>2. ASSUME NEW n \in op[c].todo
        PROVE  Request(n, {op[c].key}, op[c].entry) \in Requests
    BY <2>1, <2>2 DEF Request, Requests
  <2>3. QED
    BY <1>2, <2>2 DEF Outstanding
<1>3. CASE op[c].kind # "write" /\ op[c].kind # "repair"
  BY <1>3 DEF Outstanding
<1>4. QED
  BY <1>1, <1>2, <1>3

LEMMA HandoffType ==
  ASSUME TypeOK, NEW n \in Node, dec[n].kind # "idle"
  PROVE  /\ dec[n] \in Handoffs /\ dec[n].exits \in BOOLEAN /\ dec[n].local \in Table
         /\ dec[n].ring \in SUBSET Node /\ dec[n].todo \in SUBSET (Key \X Node)
         /\ \A k \in Key : dec[n].local[k] \in Entry /\ dec[n].local[k].ts \in Nat
         /\ dec[n].kind = "push" => dec[n].key \in Key /\ dec[n].target \in Node
<1>1. dec[n] \in Handoffs
  BY DEF TypeOK, Idle
<1>2. /\ dec[n].exits \in BOOLEAN /\ dec[n].local \in Table
      /\ dec[n].ring \in SUBSET Node /\ dec[n].todo \in SUBSET (Key \X Node)
      /\ dec[n].kind = "push" => dec[n].key \in Key /\ dec[n].target \in Node
  BY <1>1 DEF Handoffs
<1>3. QED
  BY <1>1, <1>2 DEF Table, Entry

LEMMA PushingType ==
  ASSUME TypeOK, NEW n \in Node
  PROVE  Pushing(n) \subseteq Requests
<1>1. CASE rec[n].kind = "bucket"
  <2>1. rec[n].peer \in Node /\ rec[n].key \in Key /\ rec[n].local[rec[n].key] \in Entry
    BY <1>1, PassType
  <2>2. QED
    BY <2>1 DEF Pushing, Request, Requests
<1>2. QED
  BY <1>1 DEF Pushing

LEMMA HandingOffType ==
  ASSUME TypeOK, NEW n \in Node
  PROVE  HandingOff(n) \subseteq Requests
<1>1. CASE dec[n].kind = "push"
  <2>1. dec[n].target \in Node /\ dec[n].key \in Key /\ dec[n].local[dec[n].key] \in Entry
    BY <1>1, HandoffType
  <2>2. QED
    BY <2>1 DEF HandingOff, Request, Requests
<1>2. QED
  BY <1>1 DEF HandingOff

\* A process that ends takes its operations, its pass and its handoff with it.
LEMMA StopInd ==
  ASSUME IndInv, NEW n \in Node, NEW unheard \in SUBSET Requests, Stop(n, unheard),
         Grows, store' \in [Node -> Table], regressed' \in SUBSET Key, used' \in [Kinds -> Nat],
         UNCHANGED <<members, clock, acked, obsolete>>
  PROVE  IndInv'
<1> DEFINE hosted == {c \in Client : op[c] # Idle /\ op[c].home = n}
<1>0. TypeOK
  BY DEF IndInv
<1>1. /\ up' = up \ {n} /\ op' = [c \in Client |-> IF c \in hosted THEN Idle ELSE op[c]]
      /\ rec' = [rec EXCEPT ![n] = Idle] /\ dec' = [dec EXCEPT ![n] = Idle]
  BY DEF Stop
<1>2. PICK sent :
        /\ \A c \in hosted : sent[c] \in Outstanding(c)
        /\ stray' = {r \in stray \cup (UNION {sent[c] : c \in hosted})
                                 \cup Pushing(n) \cup unheard : r.node # n}
  BY Zenon DEF Stop
<1>3. stray' \in SUBSET Requests
  <2>1. \A c \in hosted : sent[c] \subseteq Requests
    BY <1>0, <1>2, OutstandingType
  <2>2. Pushing(n) \subseteq Requests
    BY <1>0, PushingType
  <2>3. stray \subseteq Requests
    BY <1>0 DEF TypeOK, Requests
  <2> HIDE DEF hosted
  <2> DEFINE theirs == UNION {sent[c] : c \in hosted}
             all == stray \cup theirs \cup Pushing(n) \cup unheard
  <2>4. theirs \subseteq Requests
    BY <2>1
  <2>5. stray' = {r \in all : r.node # n}
    BY <1>2
  <2> HIDE DEF theirs
  <2>6. all \subseteq Requests
    BY <2>2, <2>3, <2>4
  <2> HIDE DEF all
  <2>7. QED
    BY <2>5, <2>6
<1> HIDE DEF hosted
<1>4. /\ op' \in [Client -> {Idle} \cup WriteOps \cup ReadOps \cup ReadAnswers]
      /\ \A c \in Client : op'[c] \in {op[c], Idle}
  BY <1>0, <1>1 DEF TypeOK
<1>5. /\ rec' \in [Node -> {Idle} \cup Passes] /\ dec' \in [Node -> {Idle} \cup Handoffs]
      /\ \A m \in Node : dec'[m] \in {dec[m], Idle}
  BY <1>0, <1>1 DEF TypeOK
<1>6. TypeOK'
  BY <1>0, <1>1, <1>3, <1>4, <1>5 DEF TypeOK, Requests
<1>7. QED
  BY <1>4, <1>5, <1>6, ByEnding

LEMMA ProcessesInd ==
  ASSUME IndInv, Processes
  PROVE  IndInv'
<1>0. TypeOK
  BY DEF IndInv
<1>1. PICK n \in Node : Crash(n) \/ Restart(n) \/ \E S \in SUBSET Node : SetMembers(n, S)
  BY DEF Processes
<1>2. CASE Crash(n)
  <2>1. used' \in [Kinds -> Nat] /\ (RingsKept' => RingsKept)
    BY <1>0, <1>2, UseCounts DEF Crash, Kinds
  <2>2. PICK unheard \in SUBSET Requests : unheard = HandingOff(n)
    BY <1>0, HandingOffType
  <2>3. /\ Stop(n, unheard)
        /\ UNCHANGED <<store, members, clock, acked, obsolete, regressed>>
    BY <1>2, <2>2 DEF Crash
  <2>4. Grows /\ store' \in [Node -> Table] /\ regressed' \in SUBSET Key
    BY <1>0, <2>1, <2>3, NoPutGrows DEF NoPut, TypeOK
  <2>5. QED
    BY <2>1, <2>3, <2>4, StopInd
<1>3. CASE Restart(n)
  <2>1. UNCHANGED <<store, members, op, stray, rec, dec, clock, acked, obsolete, regressed, used>>
        /\ up' = up \cup {n}
    BY <1>3 DEF Restart
  <2>2. TypeOK'
    BY <1>0, <2>1 DEF TypeOK
  <2>3. Grows
    BY <1>0, <2>1, NoPutGrows DEF NoPut, RingsKept
  <2>4. QED
    BY <2>1, <2>2, <2>3, ByEnding
<1>4. ASSUME NEW S \in SUBSET Node, SetMembers(n, S) PROVE IndInv'
  <2>1. /\ members' = [members EXCEPT ![n] = S] /\ Use("change")
        /\ UNCHANGED <<store, up, op, stray, rec, dec, clock, acked, obsolete, regressed>>
    BY <1>4 DEF SetMembers
  <2>2. used' \in [Kinds -> Nat] /\ ~RingsKept'
    BY <1>0, <2>1, UseCounts DEF Kinds
  <2>3. TypeOK'
    BY <1>0, <2>1, <2>2 DEF TypeOK
  <2>4. Grows
    BY <1>0, <2>1, <2>2, NoPutGrows DEF NoPut
  <2>5. RingsWhole' /\ QuorumHolds'
    BY <2>2 DEF RingsWhole, QuorumHolds, RingsKept
  <2>6. \A c \in Client : ClientInv(c)'
    BY <2>1, <2>3, <2>4, <1>0, ClientKept DEF IndInv, ClientInv
  <2>7. \A m \in Node : HandedOver(m)'
    BY <2>1, <2>3, <2>4, <1>0, HandedOverKept DEF IndInv
  <2>8. QED
    BY <2>3, <2>5, <2>6, <2>7 DEF IndInv, ClientInv
<1>5. QED
  BY <1>1, <1>2, <1>3, <1>4

-----------------------------------------------------------------------------
(* Handoffs.                                                               *)

\* A step of a handoff: what it comes to have gone through is with its target.
LEMMA HandoffStep ==
  ASSUME IndInv, NEW n \in Node, NEW d \in Handoffs, dec' = [dec EXCEPT ![n] = d],
         Grows, store' \in [Node -> Table], regressed' \in SUBSET Key,
         used' \in [Kinds -> Nat],
         \A kt \in Through(d) :
           kt[1] \notin regressed' => store'[kt[2]][kt[1]].ts >= d.local[kt[1]].ts,
         UNCHANGED <<up, members, op, stray, rec, clock, acked, obsolete>>
  PROVE  IndInv'
<1>1. TypeOK
  BY DEF IndInv
<1>2. dec' \in [Node -> {Idle} \cup Handoffs]
  BY <1>1 DEF TypeOK
<1>3. TypeOK'
  BY <1>1, <1>2 DEF TypeOK
<1>4. dec'[n] = d /\ \A m \in Node : m # n => dec'[m] = dec[m]
  BY <1>1 DEF TypeOK
<1>5. HandedOver(n)'
  BY <1>4 DEF HandedOver, Through
<1>6. QED
  BY <1>3, <1>4, <1>5, ByParts

LEMMA StartDecommissionInd ==
  ASSUME IndInv, NEW n \in Node, NEW exits \in BOOLEAN, StartDecommission(n, exits)
  PROVE  IndInv'
<1> DEFINE remaining == members[n] \ {n}
           todo == Pairs(store[n], remaining)
           d == [kind |-> "handoff", exits |-> exits, local |-> store[n], ring |-> remaining,
                 todo |-> todo]
<1>0. TypeOK
  BY DEF IndInv
<1>1. /\ dec' = [dec EXCEPT ![n] = d] /\ Use("decommission")
      /\ UNCHANGED <<store, up, members, op, stray, rec, clock, acked, obsolete, regressed>>
  BY DEF StartDecommission
<1>2. remaining \in SUBSET Node /\ store[n] \in Table
  BY <1>0 DEF TypeOK
<1>3. todo \in SUBSET (Key \X Node)
  BY <1>2 DEF Pairs
<1>4. used' \in [Kinds -> Nat] /\ (RingsKept' => RingsKept)
  BY <1>0, <1>1, UseCounts DEF Kinds
<1>5. Grows
  BY <1>0, <1>1, <1>4, NoPutGrows DEF NoPut
<1>6. Through(d) = {}
  BY DEF Through
<1> HIDE DEF todo, remaining
<1>7. d \in Handoffs
  BY <1>2, <1>3 DEF Handoffs
<1> HIDE DEF d
<1>8. QED
  BY <1>0, <1>1, <1>4, <1>5, <1>6, <1>7, HandoffStep DEF TypeOK

LEMMA CheckTargetInd ==
  ASSUME IndInv, NEW n \in Node, NEW k \in Key, NEW t \in Node, CheckTarget(n, k, t)
  PROVE  IndInv'
<1> DEFINE fresh == UpToDate(store[t][k], dec[n].local[k])
           kind == IF fresh THEN "handoff" ELSE "push"
           exits == dec[n].exits
           local == dec[n].local
           ring == dec[n].ring
           todo == dec[n].todo \ {<<k, t>>}
           d == [kind |-> kind, exits |-> exits, local |-> local, ring |-> ring, todo |-> todo,
                 key |-> k, target |-> t]
<1>0. TypeOK /\ HandedOver(n) /\ dec[n].kind = "handoff"
  BY DEF IndInv, CheckTarget
<1>1. /\ dec' = [dec EXCEPT ![n] = d]
      /\ UNCHANGED <<store, up, members, op, stray, rec, clock, acked, obsolete, regressed, used>>
  BY DEF CheckTarget
<1>2. /\ kind \in {"handoff", "push"} /\ exits \in BOOLEAN /\ local \in Table
      /\ ring \in SUBSET Node /\ todo \in SUBSET (Key \X Node)
  BY <1>0, HandoffType
<1>3. \A kt \in Through(d) : kt \in Through(dec[n]) \/ (kt = <<k, t>> /\ kind = "handoff")
  BY <1>0 DEF Through
<1>4. ASSUME NEW kt \in Through(d), kt[1] \notin regressed
      PROVE  store[kt[2]][kt[1]].ts >= local[kt[1]].ts
  <2>1. CASE kt \in Through(dec[n])
    BY <2>1, <1>0, <1>4 DEF HandedOver, Idle
  <2>2. CASE kt = <<k, t>> /\ kind = "handoff"
    BY <2>2 DEF UpToDate
  <2>3. QED
    BY <2>1, <2>2, <1>3
<1>5. Grows
  BY <1>0, <1>1, NoPutGrows DEF NoPut, RingsKept
<1> HIDE DEF fresh, kind, exits, local, ring, todo
<1>6. d \in Handoffs /\ d.local = local
  BY <1>2 DEF Handoffs
<1> HIDE DEF d
<1>7. \A kt \in Through(d) :
        kt[1] \notin regressed' => store'[kt[2]][kt[1]].ts >= d.local[kt[1]].ts
  BY <1>1, <1>4, <1>6
<1>8. QED
  BY <1>0, <1>1, <1>5, <1>6, <1>7, HandoffStep DEF TypeOK

\* The entry of a handoff is put on its target.
LEMMA HandoffPut ==
  ASSUME IndInv, NEW n \in Node, dec[n].kind = "push", RingsKept' => RingsKept,
         PutAll(dec[n].target, {dec[n].key}, dec[n].local[dec[n].key])
  PROVE  /\ store' \in [Node -> Table] /\ regressed' \in SUBSET Key /\ Grows
         /\ store'[dec[n].target][dec[n].key] = dec[n].local[dec[n].key]
<1> DEFINE ks == {dec[n].key}
           e == dec[n].local[dec[n].key]
           t == dec[n].target
<1>1. TypeOK
  BY DEF IndInv
<1>2. t \in Node /\ ks \in SUBSET Key /\ e \in Entry /\ dec[n].key \in ks
  BY <1>1, HandoffType
<1>3. PutAll(t, ks, e)
  OBVIOUS
<1>4. /\ store' \in [Node -> Table] /\ regressed' \in SUBSET Key /\ Grows
      /\ \A k \in ks : store'[t][k] = e
  <2> HIDE DEF t, ks, e
  <2>1. QED
    BY <1>1, <1>2, <1>3, PutAllGrows, PutGrows
<1>5. QED
  BY <1>2, <1>4

LEMMA PushTargetInd ==
  ASSUME IndInv, NEW n \in Node, PushTarget(n)
  PROVE  IndInv'
<1> DEFINE o == dec[n]
           d == [o EXCEPT !.kind = "handoff"]
<1>0. TypeOK /\ HandedOver(n) /\ o.kind = "push"
  BY DEF IndInv, PushTarget
<1>1. /\ o \in Handoffs /\ o.local \in Table
      /\ o.key \in Key /\ o.target \in Node
      /\ \A k \in Key : o.local[k].ts \in Nat
  BY <1>0, HandoffType
<1>2. /\ dec' = [dec EXCEPT ![n].kind = "handoff"]
      /\ PutAll(o.target, {o.key}, o.local[o.key])
      /\ UNCHANGED <<up, members, op, stray, rec, clock, acked, obsolete, used>>
  BY DEF PushTarget
<1>3. dec' = [dec EXCEPT ![n] = d]
  BY <1>0, <1>2 DEF TypeOK
<1>4. o \in [kind : {"handoff", "push"}, exits : BOOLEAN, local : Table, ring : SUBSET Node,
             todo : SUBSET (Key \X Node), key : Key, target : Node]
  BY <1>0, <1>1 DEF Handoffs
<1>5. /\ d \in Handoffs /\ d.local = o.local /\ d.ring = o.ring /\ d.todo = o.todo
      /\ d.kind = "handoff"
  <2> HIDE DEF o
  <2>1. d \in [kind : {"handoff", "push"}, exits : BOOLEAN, local : Table, ring : SUBSET Node,
               todo : SUBSET (Key \X Node), key : Key, target : Node]
    BY <1>4, Zenon
  <2>2. d.local = o.local /\ d.ring = o.ring /\ d.todo = o.todo /\ d.kind = "handoff"
    BY <1>4
  <2>3. QED
    BY <2>1, <2>2 DEF Handoffs
<1>6. RingsKept' => RingsKept
  BY <1>2 DEF RingsKept
<1>7. /\ store' \in [Node -> Table] /\ regressed' \in SUBSET Key /\ Grows
      /\ store'[o.target][o.key] = o.local[o.key]
  BY <1>0, <1>2, <1>6, HandoffPut
<1> HIDE DEF d
<1>8. \A kt \in Through(d) : kt \in Through(o) \/ kt = <<o.key, o.target>>
  BY <1>5 DEF Through
<1>9. ASSUME NEW kt \in Through(d), kt[1] \notin regressed'
      PROVE  store'[kt[2]][kt[1]].ts >= d.local[kt[1]].ts
  <2>1. CASE kt = <<o.key, o.target>>
    BY <2>1, <1>1, <1>5, <1>7
  <2>2. CASE kt \in Through(o)
    <3>1. kt[1] \in Key /\ kt[2] \in Node /\ kt[1] \notin regressed
      BY <2>2, <1>1, <1>7, <1>9, ThroughType DEF Grows
    <3>2. store[kt[2]][kt[1]].ts >= o.local[kt[1]].ts
      BY <2>2, <3>1, <1>0 DEF HandedOver, Idle
    <3>3. store'[kt[2]][kt[1]].ts >= store[kt[2]][kt[1]].ts
      BY <3>1, <1>7, <1>9 DEF Grows
    <3>4. /\ store[kt[2]][kt[1]].ts \in Nat /\ store'[kt[2]][kt[1]].ts \in Nat
          /\ o.local[kt[1]].ts \in Nat
      BY <3>1, <1>0, <1>1, <1>7 DEF TypeOK, Table, Entry
    <3>5. QED
      BY <3>2, <3>3, <3>4, <1>5
  <2>3. QED
    BY <2>1, <2>2, <1>8
<1> HIDE DEF o
<1>10. QED
  BY <1>0, <1>2, <1>3, <1>5, <1>7, <1>9, HandoffStep DEF TypeOK

\* The end of a handoff, with a last entry put or not.
LEMMA LeaveOrStayInd ==
  ASSUME IndInv, NEW n \in Node, NEW unheard \in SUBSET Requests, LeaveOrStay(n, unheard),
         Grows, store' \in [Node -> Table], regressed' \in SUBSET Key, used' \in [Kinds -> Nat],
         UNCHANGED <<members, clock, acked, obsolete>>
  PROVE  IndInv'
<1>0. TypeOK
  BY DEF IndInv
<1>1. CASE Stop(n, unheard)
  BY <1>1, StopInd
<1>2. CASE /\ dec' = [dec EXCEPT ![n] = Idle] /\ stray' = stray \cup unheard
           /\ UNCHANGED <<up, op, rec>>
  <2>1. dec' \in [Node -> {Idle} \cup Handoffs] /\ \A m \in Node : dec'[m] \in {dec[m], Idle}
    BY <1>0, <1>2 DEF TypeOK
  <2>2. stray' \in SUBSET Requests
    BY <1>0, <1>2 DEF TypeOK, Requests
  <2>3. TypeOK'
    BY <1>0, <1>2, <2>1, <2>2 DEF TypeOK, Requests
  <2>4. QED
    BY <1>2, <2>1, <2>3, ByEnding
<1>3. QED
  BY <1>1, <1>2 DEF LeaveOrStay

LEMMA HandoffEndsInd ==
  ASSUME IndInv, NEW n \in Node, FinishHandoff(n) \/ CheckFails(n) \/ PushFails(n)
  PROVE  IndInv'
<1>0. TypeOK
  BY DEF IndInv
<1>1. ASSUME NEW t, Unanswered(t)
      PROVE  used' \in [Kinds -> Nat] /\ (RingsKept' => RingsKept)
  <2>1. CASE UNCHANGED used
    BY <2>1, <1>0 DEF TypeOK, RingsKept
  <2>2. CASE Use("fault")
    BY <2>2, <1>0, UseCounts DEF Kinds
  <2>3. QED
    BY <1>1, <2>1, <2>2 DEF Unanswered
<1>2. used' \in [Kinds -> Nat] /\ (RingsKept' => RingsKept)
  <2>1. CASE FinishHandoff(n)
    BY <2>1, <1>0 DEF FinishHandoff, TypeOK, RingsKept
  <2>2. CASE CheckFails(n)
    <3>1. PICK kt \in dec[n].todo : Unanswered(kt[2])
      BY <2>2 DEF CheckFails
    <3>2. PICK t : t = kt[2]
      OBVIOUS
    <3>3. Unanswered(t)
      BY <3>1, <3>2
    <3>4. QED
      BY <3>3, <1>1
  <2>3. CASE PushFails(n)
    <3>1. PICK t : t = dec[n].target
      OBVIOUS
    <3>2. Unanswered(t)
      BY <2>3, <3>1 DEF PushFails, Unanswered
    <3>3. QED
      BY <3>2, <1>1
  <2>4. QED
    BY <2>1, <2>2, <2>3
<1>3. UNCHANGED <<members, clock, acked, obsolete>>
  BY DEF FinishHandoff, CheckFails, PushFails
<1>4. Grows /\ store' \in [Node -> Table] /\ regressed' \in SUBSET Key
  <2>1. CASE NoPut
    BY <2>1, <1>0, <1>2, NoPutGrows DEF NoPut, TypeOK
  <2>2. CASE PushFails(n) /\ ~NoPut
    BY <2>2, <1>2, HandoffPut DEF PushFails
  <2>3. QED
    BY <2>1, <2>2 DEF FinishHandoff, CheckFails, NoPut
<1>5. {} \in SUBSET Requests
  OBVIOUS
<1>6. CASE LeaveOrStay(n, {})
  BY <1>2, <1>3, <1>4, <1>5, <1>6, LeaveOrStayInd
<1>7. CASE LeaveOrStay(n, HandingOff(n))
  <2>1. PICK unheard \in SUBSET Requests : unheard = HandingOff(n)
    BY <1>0, HandingOffType
  <2>2. LeaveOrStay(n, unheard)
    BY <1>7, <2>1
  <2>3. QED
    BY <2>2, <1>2, <1>3, <1>4, LeaveOrStayInd
<1>8. QED
  BY <1>6, <1>7 DEF FinishHandoff, CheckFails, PushFails

-----------------------------------------------------------------------------
(* The theorems.                                                           *)

LEMMA NextIndInv == IndInv /\ [Next]_vars => IndInv'
<1> SUFFICES ASSUME IndInv, [Next]_vars PROVE IndInv'
  OBVIOUS
<1>1. CASE Coordinate
  <2>1. PICK c \in Client :
          \/ \E h \in Gateway, b \in Batches, t \in Deletes : StartWrite(c, h, b, t)
          \/ \E n \in Node : WriteApplied(c, n)
          \/ \E n \in Node : WriteRefused(c, n)
          \/ \E n \in Node : WriteBroken(c, n)
          \/ FinishWrite(c)
          \/ \E h \in Gateway, k \in Key, kind \in {"get", "scan"} : StartRead(c, h, k, kind)
          \/ \E n \in Node : ReadAnswered(c, n)
          \/ \E n \in Node : ReadRefused(c, n)
          \/ ReadFails(c)
          \/ FinishRead(c)
          \/ \E n \in Node : Repair(c, n)
          \/ \E n \in Node : RepairFails(c, n)
          \/ Return(c)
    BY <1>1 DEF Coordinate
  <2>2. QED
    BY <2>1, StartWriteInd, WriteAppliedInd, WriteFailsInd, FinishWriteInd, StartReadInd,
       ReadAnsweredInd, ReadRefusedInd, ReadEndsInd, FinishReadInd, RepairInd
<1>2. CASE AntiEntropy
  BY <1>2, AntiEntropyInd
<1>3. CASE Handoff
  <2>1. PICK n \in Node :
          \/ \E exits \in BOOLEAN : StartDecommission(n, exits)
          \/ \E k \in Key, t \in Node : CheckTarget(n, k, t)
          \/ PushTarget(n)
          \/ FinishHandoff(n)
          \/ CheckFails(n)
          \/ PushFails(n)
    BY <1>3 DEF Handoff
  <2>2. QED
    BY <2>1, StartDecommissionInd, CheckTargetInd, PushTargetInd, HandoffEndsInd
<1>4. CASE Processes
  BY <1>4, ProcessesInd
<1>5. CASE \E r \in stray : StrayApplied(r)
  BY <1>5, StrayAppliedInd
<1>6. CASE UNCHANGED vars
  <2>1. TypeOK /\ NoPut
        /\ UNCHANGED <<store, up, members, op, stray, rec, dec, clock, acked, obsolete,
                       regressed, used>>
    BY <1>6 DEF IndInv, vars, NoPut
  <2>2. TypeOK'
    BY <2>1 DEF TypeOK
  <2>3. Grows
    BY <2>1, NoPutGrows DEF RingsKept
  <2>4. QED
    BY <2>1, <2>2, <2>3, ByEnding
<1>7. QED
  BY <1>1, <1>2, <1>3, <1>4, <1>5, <1>6 DEF Next

(* The inductive invariant of replication: the parts that the three        *)
(* properties below need, for clusters, rings and batches of any size.     *)
THEOREM ReplicationIndInv == Spec => []IndInv
BY InitIndInv, NextIndInv, PTL DEF Spec

(* A quorum of a key's replicas keeps the newest acknowledged write of it, *)
(* through crashes, broken requests, repairs, anti-entropy and handoffs,   *)
(* until a put overwrites a newer entry or a ring changes                  *)
(* (Coordinator.write, WriteBatch, readRepair, Reconcile, Decommission).   *)
THEOREM AcknowledgedOnQuorum == Spec => []QuorumHolds
<1>1. IndInv => QuorumHolds
  BY DEF IndInv
<1>2. QED
  BY <1>1, ReplicationIndInv, PTL

(* A quorum read returns nothing older than what had been acknowledged     *)
(* when it began: its answers, collected one by one, meet the quorum that  *)
(* held the write (Coordinator.Get).                                       *)
THEOREM QuorumReadsFresh == Spec => []ReadsAreFresh
<1>1. IndInv => ReadsAreFresh
  BY DEF IndInv, ReadsAreFresh, ReadIsFresh, RingsKept
<1>2. QED
  BY <1>1, ReplicationIndInv, PTL

(* A handoff that ends without error has left every key that its node held *)
(* when it began with every replica of the ring without the node, at least *)
(* as new, whatever else writes to them meanwhile, until a put overwrites  *)
(* a newer entry of the key (Decommission).                                *)
THEOREM HandoffDelivers == Spec => []HandoffComplete
<1>1. ASSUME IndInv, NEW n \in Node, dec[n].kind = "handoff", dec[n].todo = {},
             NEW k \in Key, NEW t \in ReplicasFor(k, dec[n].ring),
             dec[n].local[k] # Absent, k \notin regressed
      PROVE  store[t][k].ts >= dec[n].local[k].ts
  <2>1. t \in dec[n].ring
    BY DEF ReplicasFor
  <2>2. <<k, t>> \in Through(dec[n])
    BY <1>1, <2>1 DEF Through, Pairs
  <2>3. HandedOver(n) /\ dec[n] # Idle
    BY <1>1 DEF IndInv, Idle
  <2>4. QED
    BY <1>1, <2>2, <2>3 DEF HandedOver
<1>2. IndInv => HandoffComplete
  BY <1>1 DEF HandoffComplete
<1>3. QED
  BY <1>2, ReplicationIndInv, PTL
=============================================================================
