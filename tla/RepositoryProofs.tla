-------------------------- MODULE RepositoryProofs --------------------------
(* That the slots of a round stay disjoint and within their text for every  *)
(* value of the constants: any number of goroutines, texts and proposals,   *)
(* batches that stop half-way, and deletions that overlap anything.         *)
EXTENDS Repository, FiniteSetTheorems, SequenceTheorems, TLAPS

-----------------------------------------------------------------------------
(* The inductive invariant.                                                *)

IsSeq(s) == \E S : s \in Seq(S)
Id(i) == i \in Nat /\ i < nextID

\* A batch will give k the value v; k has the value v, or will.
Puts(b, k, v) == \E i \in DOMAIN b : ~b[i].tombstone /\ b[i].key = k /\ b[i].val = v
Stored(k, v) == k \in DOMAIN db /\ db[k] = v
Written(k, v) == Stored(k, v) \/ \E p \in Proc : Puts(ops[p], k, v)

\* The content of text t as the store, a batch or a call knows it.
Proposing(c) ==
  c.pc \in {"superseded", "count", "opened"} \/ (c.pc \in {"pointer", "round"} /\ c.for = "propose")
CallContent(c, t, x) ==
  \/ Proposing(c) /\ c.text = t /\ c.content = x
  \/ c.pc = "tally" /\ c.text = t /\ c.old.content = x
HasContent(t, x) ==
  \/ \E v : Written(Text(t), v) /\ v.content = x
  \/ \E p \in Proc : CallContent(call[p], t, x)

\* The slots s of round r on text t as the store, a batch or a close knows them.
CallSlots(c, r, t, s) ==
  c.pc \in {"text", "tally"} /\ c.round = r /\ c.read.text = t /\ c.read.slots = s
HasSlots(r, t, s) ==
  \/ \E v : Written(Round(r), v) /\ v.text = t /\ v.slots = s
  \/ \E p \in Proc : CallSlots(call[p], r, t, s)

\* The pointer of text t leads to round r, or did when a call read it.
CallPoints(c, r, t) == c.pc \in {"round", "opened", "text", "tally"} /\ c.round = r /\ c.text = t
Points(r, t) == Written(CurrentRound(t), r) \/ \E p \in Proc : CallPoints(call[p], r, t)

Owner(r, t) == Points(r, t) \/ \E s : HasSlots(r, t, s)

Disjoint(s) ==
  \A i \in DOMAIN s : \A j \in DOMAIN s \ {i} : s[i].end <= s[j].start \/ s[j].end <= s[i].start
SlotsOK(s) == IsSeq(s) /\ (\A i \in DOMAIN s : s[i].start \in Int /\ s[i].end \in Int) /\ Disjoint(s)
Fits(s, x) == \A i \in DOMAIN s : ValidRange(s[i], x)

\* A text's content never changes, whoever knows it.
ContentsOK ==
  \A t, x : HasContent(t, x) => Id(t) /\ \A y : HasContent(t, y) => x = y

\* A round is of one text.
OwnersOK ==
  \A r, t : Owner(r, t) => Id(r) /\ Id(t) /\ \A u : Owner(r, u) => t = u

\* The slots of a round are disjoint and within its text, also as a close has
\* read them and as a batch will write them.
RoundsOK ==
  \A r, t, s : HasSlots(r, t, s) => SlotsOK(s) /\ \A x : HasContent(t, x) => Fits(s, x)

\* Records have their fields.
IsText(v) ==
  /\ v \in [content : {v.content}, previous : {v.previous}, createdBy : {v.createdBy}, tags : {v.tags}]
  /\ IsFiniteSet(v.tags)
IsRound(v) ==
  v \in [text : {v.text}, number : {v.number}, status : {v.status}, slots : {v.slots},
         scheduled : {v.scheduled}]
RecordOK(k, v) ==
  /\ k[1] = "text" => k = Text(k[2]) /\ IsText(v)
  /\ k[1] = "round" => k = Round(k[2]) /\ IsRound(v)
RecordsOK == \A k, v : Written(k, v) => RecordOK(k, v)

\* Calls have the fields they use next, and a deletion only deletes.
ProposeCall(c) ==
  /\ c \in [pc : {c.pc}, for : {"propose"}, user : {c.user}, text : {c.text}, round : {c.round},
            content : {c.content}, range : Proposals, number : {c.number}, slot : {c.slot}]
  /\ ValidRange(c.range, c.content)
RoundCall(c) ==
  c \in [pc : {c.pc}, for : {"schedule", "close"}, user : {c.user}, text : {c.text}, round : {c.round}]
VoteCall(c) ==
  c \in [pc : {c.pc}, user : {c.user}, fragment : {c.fragment}, text : {c.text}, slot : {c.slot}]
ReadCall(c) ==
  /\ c \in [pc : {c.pc}, user : {c.user}, text : {c.text}, round : {c.round}, read : {c.read}]
  /\ IsRound(c.read)
TallyCall(c) ==
  /\ c \in [pc : {c.pc}, user : {c.user}, text : {c.text}, round : {c.round}, read : {c.read},
            old : {c.old}, winners : {c.winners}]
  /\ IsRound(c.read) /\ IsText(c.old)
Erases(b) == IsSeq(b) /\ \A i \in DOMAIN b : b[i].tombstone
DeleteCall(c) ==
  /\ c \in [pc : {c.pc}, user : {c.user}, target : {c.target}, batch : {c.batch},
            scans : {c.scans}, then : {c.then}]
  /\ Erases(c.batch)
CallOK(c) ==
  /\ c.pc \in {"pointer", "round"} => ProposeCall(c) \/ RoundCall(c)
  /\ c.pc \in {"superseded", "count", "opened", "seeded"} => ProposeCall(c)
  /\ c.pc = "choice" => VoteCall(c)
  /\ c.pc = "text" => ReadCall(c)
  /\ c.pc = "tally" => TallyCall(c)
  /\ c.pc \in {"collect", "next"} => DeleteCall(c)

ShapesOK ==
  /\ nextID \in Nat /\ IsFiniteSet(DOMAIN db)
  /\ call = [p \in Proc |-> call[p]] /\ ops = [p \in Proc |-> ops[p]]
  /\ \A p \in Proc : IsSeq(ops[p]) /\ CallOK(call[p])
  /\ RecordsOK

RoundsInv == ShapesOK /\ ContentsOK /\ OwnersOK /\ RoundsOK

\* What was known of the contents and the owners of an id stays all there is to know.
Keeps ==
  /\ nextID' \in Nat /\ nextID <= nextID'
  /\ \A t, x : Id(t) /\ HasContent(t, x)' => HasContent(t, x)
  /\ \A r, t : Id(r) /\ Owner(r, t)' => Owner(r, t)
StepOK == RoundsInv' /\ Keeps

-----------------------------------------------------------------------------
(* Batches.                                                                *)

LEMMA SeqIs ==
  ASSUME NEW s, IsSeq(s)
  PROVE  Len(s) \in Nat /\ DOMAIN s = 1 .. Len(s)
BY DEF IsSeq

LEMMA EmptyIsSeq == IsSeq(<<>>) /\ \A k, v : ~Puts(<<>>, k, v)
<1>1. <<>> \in Seq({})
  OBVIOUS
<1>2. QED
  BY <1>1 DEF IsSeq, Puts

\* Of two batches in one, each put is one of the first or of the second.
LEMMA ConcatIs ==
  ASSUME NEW a, NEW b, IsSeq(a), IsSeq(b)
  PROVE  /\ IsSeq(a \o b)
         /\ \A k, v : Puts(a \o b, k, v) => Puts(a, k, v) \/ Puts(b, k, v)
         /\ Erases(a) /\ Erases(b) => Erases(a \o b)
<1>1. PICK S : a \in Seq(S)
  BY DEF IsSeq
<1>2. PICK T : b \in Seq(T)
  BY DEF IsSeq
<1>3. a \in Seq(S \cup T) /\ b \in Seq(S \cup T)
  BY <1>1, <1>2
<1> DEFINE c == a \o b
<1>4. c \in Seq(S \cup T) /\ Len(c) = Len(a) + Len(b) /\ Len(a) \in Nat /\ Len(b) \in Nat
  BY <1>3
<1>5. \A i \in 1 .. Len(c) : c[i] = IF i <= Len(a) THEN a[i] ELSE b[i - Len(a)]
  BY <1>3
<1> HIDE DEF c
<1>6. DOMAIN c = 1 .. Len(c) /\ DOMAIN a = 1 .. Len(a) /\ DOMAIN b = 1 .. Len(b)
  BY <1>3, <1>4
<1>7. \A i \in DOMAIN c : \/ i \in DOMAIN a /\ c[i] = a[i]
                          \/ i - Len(a) \in DOMAIN b /\ c[i] = b[i - Len(a)]
  BY <1>4, <1>5, <1>6
<1>8. IsSeq(c)
  BY <1>4 DEF IsSeq
<1>9. \A k, v : Puts(c, k, v) => Puts(a, k, v) \/ Puts(b, k, v)
  BY <1>7, Zenon DEF Puts
<1>10. Erases(a) /\ Erases(b) => Erases(c)
  BY <1>7, <1>8, Zenon DEF Erases
<1>11. QED
  BY <1>8, <1>9, <1>10 DEF c

\* What is left of a batch after its first operation.
LEMMA TailIs ==
  ASSUME NEW b, IsSeq(b), b # <<>>
  PROVE  /\ IsSeq(Tail(b)) /\ Head(b) = b[1] /\ 1 \in DOMAIN b
         /\ \A k, v : Puts(Tail(b), k, v) => Puts(b, k, v)
<1>1. PICK S : b \in Seq(S)
  BY DEF IsSeq
<1>2. /\ Tail(b) \in Seq(S) /\ Head(b) = b[1] /\ 1 \in DOMAIN b
      /\ \A i \in DOMAIN Tail(b) : i + 1 \in DOMAIN b /\ Tail(b)[i] = b[i + 1]
  BY <1>1
<1> DEFINE c == Tail(b)
<1> HIDE DEF c
<1>3. \A i \in DOMAIN c : i + 1 \in DOMAIN b /\ c[i] = b[i + 1]
  BY <1>2 DEF c
<1>4. \A k, v : Puts(c, k, v) => Puts(b, k, v)
  BY <1>3, Zenon DEF Puts
<1>5. QED
  BY <1>2, <1>4 DEF c, IsSeq

\* Operation o puts v under k.
IsPut(o, k, v) == ~o.tombstone /\ o.key = k /\ o.val = v

\* The puts of short batches.
LEMMA SingleIs ==
  ASSUME NEW w
  PROVE  IsSeq(<< w >>) /\ \A k, v : Puts(<< w >>, k, v) => IsPut(w, k, v)
<1>1. << w >> \in Seq({w}) /\ DOMAIN << w >> = {1}
  OBVIOUS
<1>2. \A i \in {1} : << w >>[i] = w
  OBVIOUS
<1>3. QED
  BY <1>1, <1>2, Zenon DEF IsSeq, Puts, IsPut

LEMMA PairIs ==
  ASSUME NEW w, NEW x
  PROVE  IsSeq(<< w, x >>) /\ \A k, v : Puts(<< w, x >>, k, v) => IsPut(w, k, v) \/ IsPut(x, k, v)
<1> DEFINE b == << w, x >>
<1>1. b \in Seq({w, x}) /\ \A i \in DOMAIN b : b[i] \in {w, x}
  OBVIOUS
<1> HIDE DEF b
<1>2. QED
  BY <1>1, Zenon DEF IsSeq, Puts, IsPut, b

LEMMA TripleIs ==
  ASSUME NEW w, NEW x, NEW y
  PROVE  /\ IsSeq(<< w, x, y >>)
         /\ \A k, v : Puts(<< w, x, y >>, k, v) => IsPut(w, k, v) \/ IsPut(x, k, v) \/ IsPut(y, k, v)
<1> DEFINE b == << w, x, y >>
<1>1. b \in Seq({w, x, y}) /\ \A i \in DOMAIN b : b[i] \in {w, x, y}
  OBVIOUS
<1> HIDE DEF b
<1>2. QED
  BY <1>1, Zenon DEF IsSeq, Puts, IsPut, b

LEMMA QuadrupleIs ==
  ASSUME NEW w, NEW x, NEW y, NEW z
  PROVE  /\ IsSeq(<< w, x, y, z >>)
         /\ \A k, v : Puts(<< w, x, y, z >>, k, v) =>
              IsPut(w, k, v) \/ IsPut(x, k, v) \/ IsPut(y, k, v) \/ IsPut(z, k, v)
<1> DEFINE b == << w, x, y, z >>
<1>1. b \in Seq({w, x, y, z}) /\ \A i \in DOMAIN b : b[i] \in {w, x, y, z}
  OBVIOUS
<1> HIDE DEF b
<1>2. QED
  BY <1>1, Zenon DEF IsSeq, Puts, IsPut, b

\* What a put puts; a deletion puts nothing.
LEMMA PutIs ==
  ASSUME NEW j, NEW w, NEW k, NEW v
  PROVE  (IsPut(Put(j, w), k, v) => k = j /\ v = w) /\ ~IsPut(Delete(j), k, v)
BY DEF IsPut, Put, Delete

\* A batch that touches no text, round or pointer.
Mild(b) == IsSeq(b) /\ \A k, v : Puts(b, k, v) => k[1] \notin {"text", "round", "currentround"}

LEMMA MildConcat ==
  ASSUME NEW a, NEW b, Mild(a), Mild(b)
  PROVE  Mild(a \o b)
<1>1. IsSeq(a) /\ IsSeq(b)
  BY DEF Mild
<1>2. IsSeq(a \o b) /\ \A k, v : Puts(a \o b, k, v) => Puts(a, k, v) \/ Puts(b, k, v)
  BY <1>1, ConcatIs
<1>3. QED
  BY <1>2, Zenon DEF Mild

LEMMA EachIndex ==
  ASSUME NEW n \in {1, 2, 4}, NEW m \in Nat, NEW i \in 1 .. n * m
  PROVE  (i - 1) \div n + 1 \in 1 .. m /\ ((i - 1) % n) + 1 \in 1 .. n
<1>1. CASE n = 1
  BY <1>1
<1>2. CASE n = 2
  BY <1>2
<1>3. CASE n = 4
  BY <1>3
<1>4. QED
  BY <1>1, <1>2, <1>3

LEMMA SetToSeqIs ==
  ASSUME NEW S, IsFiniteSet(S)
  PROVE  SetToSeq(S) \in Seq(S)
<1>1. Cardinality(S) \in Nat /\ ExistsBijection(1..Cardinality(S), S)
  BY FS_CardinalityType
<1>2. PICK f \in [1..Cardinality(S) -> S] : IsInjective(f)
  BY <1>1 DEF ExistsBijection, Bijection, Injection, IsInjective
<1>3. SetToSeq(S) \in [1..Cardinality(S) -> S]
  BY <1>2 DEF SetToSeq
<1>4. QED
  BY <1>1, <1>3

LEMMA SetToSeqsAre ==
  ASSUME NEW S, IsFiniteSet(S), NEW s \in SetToSeqs(S)
  PROVE  s \in Seq(S)
<1>1. Cardinality(S) \in Nat
  BY FS_CardinalityType
<1>2. s \in [1 .. Cardinality(S) -> S]
  BY DEF SetToSeqs
<1>3. QED
  BY <1>1, <1>2

LEMMA TagOpsAreMild ==
  ASSUME NEW t, NEW set, IsFiniteSet(set)
  PROVE  /\ Mild(TagOps(t, set))
         /\ \A i \in DOMAIN TagOps(t, set) :
              TagOps(t, set)[i].key[1] = "tagindex"
<1> DEFINE tags == SetToSeq(set)
           b == [i \in DOMAIN tags |-> Put(TagIndex(tags[i], t), t)]
<1>1. tags \in Seq(set) /\ DOMAIN tags = 1 .. Len(tags) /\ Len(tags) \in Nat
  BY SetToSeqIs
<1>2. b \in Seq({Put(TagIndex(tags[i], t), t) : i \in DOMAIN tags})
  BY <1>1
<1>3. \A i \in DOMAIN b : b[i].key[1] = "tagindex"
  BY DEF Put, TagIndex
<1>4. TagOps(t, set) = b
  BY DEF TagOps
<1>5. QED
  BY <1>2, <1>3, <1>4 DEF Mild, IsSeq, Puts

LEMMA MoveTagOpsAreMild ==
  ASSUME NEW t, NEW new, NEW set, IsFiniteSet(set)
  PROVE  /\ Mild(MoveTagOps(set, t, new))
         /\ \A i \in DOMAIN MoveTagOps(set, t, new) :
              MoveTagOps(set, t, new)[i].key[1] = "tagindex"
<1> DEFINE tags == SetToSeq(set)
           Op(g) == << Delete(TagIndex(g, t)), Put(TagIndex(g, new), new) >>
           n == IF tags = <<>> THEN 0 ELSE 2
           e(i) == Op(tags[(i - 1) \div n + 1])[((i - 1) % n) + 1]
           b == [i \in 1 .. n * Len(tags) |-> e(i)]
<1>1. tags \in Seq(set) /\ Len(tags) \in Nat
  BY SetToSeqIs
<1>2. MoveTagOps(set, t, new) = b
  BY DEF MoveTagOps, Each
<1>3. \A g : \A j \in 1 .. 2 : Op(g)[j].key[1] = "tagindex"
  BY DEF Put, Delete, TagIndex
<1>4. \A i \in 1 .. n * Len(tags) : n = 2 /\ ((i - 1) % n) + 1 \in 1 .. 2
  BY <1>1, EachIndex
<1> HIDE DEF Op, tags, n
<1>5. \A i \in 1 .. n * Len(tags) : e(i).key[1] = "tagindex"
  BY <1>3, <1>4
<1> HIDE DEF e
<1>6. n * Len(tags) \in Nat
  BY <1>1 DEF n
<1>7. b \in Seq({e(i) : i \in 1 .. n * Len(tags)})
  BY <1>6
<1>8. \A i \in DOMAIN b : b[i].key[1] = "tagindex"
  BY <1>5
<1>9. QED
  BY <1>2, <1>7, <1>8 DEF Mild, IsSeq, Puts

LEMMA MoveSubscriptionOpsAreMild ==
  ASSUME NEW t, NEW new, NEW users, IsSeq(users)
  PROVE  /\ Mild(MoveSubscriptionOps(users, t, new))
         /\ \A i \in DOMAIN MoveSubscriptionOps(users, t, new) :
              MoveSubscriptionOps(users, t, new)[i].key[1] \in {"subscription", "subscriptionindex"}
<1> DEFINE Op(u) == << Delete(Subscription(t, u)), Delete(SubscriptionIndex(u, t)),
                       Put(Subscription(new, u), u), Put(SubscriptionIndex(u, new), new) >>
           n == IF users = <<>> THEN 0 ELSE 4
           e(i) == Op(users[(i - 1) \div n + 1])[((i - 1) % n) + 1]
           b == [i \in 1 .. n * Len(users) |-> e(i)]
<1>1. Len(users) \in Nat
  BY SeqIs
<1>2. MoveSubscriptionOps(users, t, new) = b
  BY DEF MoveSubscriptionOps, Each
<1>3. \A u : \A j \in 1 .. 4 : Op(u)[j].key[1] \in {"subscription", "subscriptionindex"}
  BY DEF Put, Delete, Subscription, SubscriptionIndex
<1>4. \A i \in 1 .. n * Len(users) : n = 4 /\ ((i - 1) % n) + 1 \in 1 .. 4
  BY <1>1, EachIndex
<1> HIDE DEF Op, n
<1>5. \A i \in 1 .. n * Len(users) : e(i).key[1] \in {"subscription", "subscriptionindex"}
  BY <1>3, <1>4
<1> HIDE DEF e
<1>6. n * Len(users) \in Nat
  BY <1>1 DEF n
<1>7. b \in Seq({e(i) : i \in 1 .. n * Len(users)})
  BY <1>6
<1>8. \A i \in DOMAIN b : b[i].key[1] \in {"subscription", "subscriptionindex"}
  BY <1>5
<1>9. QED
  BY <1>2, <1>7, <1>8 DEF Mild, IsSeq, Puts

\* There are as many for each key.
LEMMA OpsForLength ==
  ASSUME NEW scan
  PROVE  \E m \in {0, 1, 2, 4} : \A k : Len(OpsFor(scan, k)) = m
                                       /\ \A j \in 1 .. m : OpsFor(scan, k)[j].tombstone
<1> DEFINE Erasing(m) == \A k : Len(OpsFor(scan, k)) = m
                                /\ \A j \in 1 .. m : OpsFor(scan, k)[j].tombstone
<1>1. CASE scan.what = "texts of user"
  <2>1. \A k : OpsFor(scan, k) = TextOps(k[2])
    BY <1>1 DEF OpsFor
  <2>2. \A t : Len(TextOps(t)) = 4 /\ \A j \in 1 .. 4 : TextOps(t)[j].tombstone
    BY DEF TextOps, Delete
  <2>3. Erasing(4)
    BY <2>1, <2>2, Zenon
  <2>4. QED
    BY <2>3
<1>2. CASE scan.what = "rounds"
  <2>1. \A k : OpsFor(scan, k) = RoundOps(db[k].text, k[2])
    BY <1>2 DEF OpsFor
  <2>2. Erasing(2)
    BY <2>1 DEF RoundOps, Delete
  <2>3. QED
    BY <2>2
<1>3. CASE scan.what \in {"fragments", "fragments of user", "ballots"}
  <2>1. \A k : OpsFor(scan, k) = <<>>
    BY <1>3, Zenon DEF OpsFor
  <2>2. Erasing(0)
    BY <2>1
  <2>3. QED
    BY <2>2
<1>4. CASE scan.what = "subscriptions"
  <2>1. \A k : OpsFor(scan, k) = << Delete(k), Delete(SubscriptionIndex(k[3], k[2])) >>
    BY <1>4 DEF OpsFor
  <2>2. Erasing(2)
    BY <2>1 DEF Delete
  <2>3. QED
    BY <2>2
<1>5. CASE scan.what = "subscriptions of user"
  <2>1. \A k : OpsFor(scan, k) = << Delete(k), Delete(Subscription(k[3], k[2])) >>
    BY <1>5 DEF OpsFor
  <2>2. Erasing(2)
    BY <2>1 DEF Delete
  <2>3. QED
    BY <2>2
<1>6. CASE scan.what \notin {"texts of user", "rounds", "fragments", "fragments of user", "ballots",
                             "subscriptions", "subscriptions of user"}
  <2>1. \A k : OpsFor(scan, k) = << Delete(k) >>
    BY <1>6 DEF OpsFor
  <2>2. Erasing(1)
    BY <2>1 DEF Delete
  <2>3. QED
    BY <2>2
<1>7. QED
  BY <1>1, <1>2, <1>3, <1>4, <1>5, <1>6

\* The operations for the keys that a scan of a deletion found.
LEMMA OpsForErase ==
  ASSUME NEW scan, NEW keys, IsSeq(keys)
  PROVE  Erases(Each(keys, LAMBDA k : OpsFor(scan, k)))
<1> DEFINE n == IF keys = <<>> THEN 0 ELSE Len(OpsFor(scan, keys[1]))
           e(i) == OpsFor(scan, keys[(i - 1) \div n + 1])[((i - 1) % n) + 1]
           b == [i \in 1 .. n * Len(keys) |-> e(i)]
<1>1. Len(keys) \in Nat
  BY SeqIs
<1>2. Each(keys, LAMBDA k : OpsFor(scan, k)) = b
  BY DEF Each
<1>3. \E m \in {0, 1, 2, 4} : \A k : Len(OpsFor(scan, k)) = m
                                     /\ \A j \in 1 .. m : OpsFor(scan, k)[j].tombstone
  BY OpsForLength
<1>4. PICK m \in {0, 1, 2, 4} : \A k : Len(OpsFor(scan, k)) = m
                                       /\ \A j \in 1 .. m : OpsFor(scan, k)[j].tombstone
  BY <1>3
<1>5. n \in {0, m}
  BY <1>4
<1> HIDE DEF n
<1>6. \A i \in 1 .. n * Len(keys) : n = m /\ ((i - 1) % n) + 1 \in 1 .. m
  <2> TAKE i \in 1 .. n * Len(keys)
  <2>1. n # 0
    BY <1>1
  <2>2. n = m /\ n \in {1, 2, 4}
    BY <1>5, <2>1
  <2>3. QED
    BY <1>1, <2>2, EachIndex
<1>7. \A i \in 1 .. n * Len(keys) : e(i).tombstone
  BY <1>4, <1>6
<1> HIDE DEF e
<1>8. n * Len(keys) \in Nat
  BY <1>1, <1>5
<1>9. b \in Seq({e(i) : i \in 1 .. n * Len(keys)})
  BY <1>8
<1>10. \A i \in DOMAIN b : b[i].tombstone
  BY <1>7
<1>11. QED
  BY <1>2, <1>9, <1>10 DEF Erases, IsSeq

LEMMA OpsBeforeErase == ASSUME NEW scan PROVE Erases(OpsBefore(scan))
<1>1. CASE scan.what \in {"votes", "ballots"}
  <2> DEFINE x == Delete(scan.of)
             y == Delete(Fragment(scan.of[4]))
  <2>0. OpsBefore(scan) = << x, y >> \/ OpsBefore(scan) = << y, x >>
    <3>1. CASE scan.what = "votes"
      BY <3>1 DEF OpsBefore
    <3>2. CASE scan.what = "ballots"
      BY <3>2 DEF OpsBefore
    <3>3. QED
      BY <1>1, <3>1, <3>2
  <2>1. x.tombstone /\ y.tombstone
    BY DEF Delete
  <2> HIDE DEF x, y
  <2> DEFINE b == OpsBefore(scan)
  <2> HIDE DEF b
  <2>a. b = << x, y >> \/ b = << y, x >>
    BY <2>0 DEF b
  <2>b. << x, y >> \in Seq({x, y}) /\ << y, x >> \in Seq({x, y})
    OBVIOUS
  <2>c. /\ \A i \in DOMAIN << x, y >> : << x, y >>[i] \in {x, y}
        /\ \A i \in DOMAIN << y, x >> : << y, x >>[i] \in {x, y}
    OBVIOUS
  <2>2. b \in Seq({x, y}) /\ \A i \in DOMAIN b : b[i] \in {x, y}
    BY <2>a, <2>b, <2>c, Zenon
  <2>3. QED
    BY <2>1, <2>2 DEF Erases, IsSeq, b
<1>2. CASE scan.what = "choice"
  <2>1. OpsBefore(scan) \in Seq({Delete(Vote(scan.of[4], scan.of[5]))})
    BY <1>2 DEF OpsBefore
  <2>2. \A i \in DOMAIN OpsBefore(scan) : OpsBefore(scan)[i].tombstone
    BY <2>1 DEF Delete
  <2>3. QED
    BY <2>1, <2>2 DEF Erases, IsSeq
<1>3. CASE scan.what \notin {"votes", "ballots", "choice"}
  <2>1. OpsBefore(scan) = <<>>
    BY <1>3 DEF OpsBefore
  <2>2. QED
    BY <2>1, EmptyIsSeq DEF Erases
<1>4. QED
  BY <1>1, <1>2, <1>3

LEMMA TextOpsErase ==
  ASSUME NEW t, NEW set, IsFiniteSet(set)
  PROVE  LET tags == SetToSeq(set)
         IN  Erases(TextOps(t) \o [i \in DOMAIN tags |-> Delete(TagIndex(tags[i], t))])
<1> DEFINE tags == SetToSeq(set)
           b == [i \in DOMAIN tags |-> Delete(TagIndex(tags[i], t))]
<1>1. tags \in Seq(set) /\ DOMAIN tags = 1 .. Len(tags) /\ Len(tags) \in Nat
  BY SetToSeqIs
<1>2. b \in Seq({Delete(TagIndex(tags[i], t)) : i \in DOMAIN tags})
  BY <1>1
<1>3. \A i \in DOMAIN b : b[i].tombstone
  BY DEF Delete
<1>4. Erases(b)
  BY <1>2, <1>3 DEF Erases, IsSeq
<1>5. TextOps(t) \in Seq({Delete(Text(t)), Delete(CurrentRound(t)), Delete(RoundCount(t)), Delete(SupersededBy(t))})
  BY DEF TextOps
<1>6. \A i \in DOMAIN TextOps(t) : TextOps(t)[i].tombstone
  BY DEF TextOps, Delete
<1>7. Erases(TextOps(t))
  BY <1>5, <1>6 DEF Erases, IsSeq
<1>8. QED
  BY <1>4, <1>7, ConcatIs DEF Erases

-----------------------------------------------------------------------------
(* What a step may add to what is known of contents, slots and pointers.   *)

\* Nothing.
LEMMA AddsNothing ==
  ASSUME ContentsOK, OwnersOK, RoundsOK, nextID \in Nat, nextID' \in Nat, nextID <= nextID',
         \A t, x : HasContent(t, x)' => HasContent(t, x),
         \A r, t, s : HasSlots(r, t, s)' => HasSlots(r, t, s),
         \A r, t : Points(r, t)' => Owner(r, t)
  PROVE  ContentsOK' /\ OwnersOK' /\ RoundsOK' /\ Keeps
<1>1. \A i : Id(i) => Id(i)'
  BY DEF Id
<1>2. \A r, t : Owner(r, t)' => Owner(r, t)
  BY Zenon DEF Owner
<1>3. ContentsOK'
  BY <1>1, Zenon DEF ContentsOK
<1>4. OwnersOK'
  BY <1>1, <1>2, Zenon DEF OwnersOK
<1>5. RoundsOK'
  <2> SUFFICES ASSUME NEW r, NEW t, NEW s, HasSlots(r, t, s)'
               PROVE  SlotsOK(s) /\ \A x : HasContent(t, x)' => Fits(s, x)
    BY Zenon DEF RoundsOK
  <2>1. HasSlots(r, t, s)
    OBVIOUS
  <2>2. QED
    BY <2>1, Zenon DEF RoundsOK
<1>6. Keeps
  BY <1>2, Zenon DEF Keeps
<1>7. QED
  BY <1>3, <1>4, <1>5, <1>6

\* A round with a new id and no slots, on a text that is known or new as well.
RoundAdded(r0, u0, x0) ==
  /\ nextID <= r0 /\ r0 < nextID' /\ u0 < nextID'
  /\ \A t, x : HasContent(t, x)' => HasContent(t, x) \/ (t = u0 /\ x = x0 /\ nextID <= u0)
  /\ \A r, t, s : HasSlots(r, t, s)' => HasSlots(r, t, s) \/ (r = r0 /\ t = u0 /\ s = <<>>)
  /\ \A r, t : Points(r, t)' => Owner(r, t) \/ (r = r0 /\ t = u0)

LEMMA AddsRound ==
  ASSUME ContentsOK, OwnersOK, RoundsOK, nextID \in Nat, nextID' \in Nat, nextID <= nextID',
         NEW r0 \in Nat, NEW u0 \in Nat, NEW x0, RoundAdded(r0, u0, x0)
  PROVE  ContentsOK' /\ OwnersOK' /\ RoundsOK' /\ Keeps
<1> USE DEF RoundAdded
<1>1. /\ \A i : Id(i) => Id(i)'
      /\ Id(r0)' /\ Id(u0)' /\ ~Id(r0) /\ (nextID <= u0 => ~Id(u0))
  BY DEF Id
<1>2. \A r, t : Owner(r, t)' => Owner(r, t) \/ (r = r0 /\ t = u0)
  <2> TAKE r, t
  <2> HAVE Owner(r, t)'
  <2>1. CASE Points(r, t)'
    BY <2>1
  <2>2. ASSUME NEW s, HasSlots(r, t, s)' PROVE Owner(r, t) \/ (r = r0 /\ t = u0)
    <3>1. HasSlots(r, t, s) \/ (r = r0 /\ t = u0)
      BY <2>2
    <3>2. QED
      BY <3>1, Zenon DEF Owner
  <2>3. QED
    BY <2>1, <2>2, Zenon DEF Owner
<1>3. \A t : ~Owner(r0, t)
  BY <1>1, Zenon DEF OwnersOK
<1>4. nextID <= u0 => (\A x : ~HasContent(u0, x)) /\ \A r : ~Owner(r, u0)
  BY <1>1, Zenon DEF OwnersOK, ContentsOK
<1>5. ContentsOK'
  <2> SUFFICES ASSUME NEW t, NEW x, HasContent(t, x)'
               PROVE  Id(t)' /\ \A y : HasContent(t, y)' => x = y
    BY Zenon DEF ContentsOK
  <2>1. CASE nextID <= u0 /\ t = u0
    <3>1. \A y : HasContent(t, y)' => y = x0
      BY <1>4, <2>1
    <3>2. QED
      BY <1>1, <2>1, <3>1
  <2>2. CASE ~(nextID <= u0 /\ t = u0)
    <3>1. \A y : HasContent(t, y)' => HasContent(t, y)
      BY <2>2, Zenon
    <3>2. QED
      BY <1>1, <3>1, Zenon DEF ContentsOK
  <2>3. QED
    BY <2>1, <2>2
<1>6. OwnersOK'
  <2> SUFFICES ASSUME NEW r, NEW t, Owner(r, t)'
               PROVE  Id(r)' /\ Id(t)' /\ \A u : Owner(r, u)' => t = u
    BY Zenon DEF OwnersOK
  <2>1. CASE r = r0
    <3>1. \A u : Owner(r, u)' => u = u0
      BY <1>2, <1>3, <2>1
    <3>2. QED
      BY <1>1, <2>1, <3>1
  <2>2. CASE r # r0
    <3>1. \A u : Owner(r, u)' => Owner(r, u)
      BY <1>2, <2>2, Zenon
    <3>2. QED
      BY <1>1, <3>1, Zenon DEF OwnersOK
  <2>3. QED
    BY <2>1, <2>2
<1>7. RoundsOK'
  <2> SUFFICES ASSUME NEW r, NEW t, NEW s, HasSlots(r, t, s)'
               PROVE  SlotsOK(s) /\ \A x : HasContent(t, x)' => Fits(s, x)
    BY Zenon DEF RoundsOK
  <2>1. CASE HasSlots(r, t, s)
    <3>1. Owner(r, t)
      BY <2>1, Zenon DEF Owner
    <3>2. \A x : HasContent(t, x)' => HasContent(t, x)
      BY <1>4, <3>1, Zenon
    <3>3. QED
      BY <2>1, <3>2, Zenon DEF RoundsOK
  <2>2. CASE s = <<>>
    BY <2>2, EmptyIsSeq DEF SlotsOK, Disjoint, Fits
  <2>3. QED
    BY <2>1, <2>2
<1>8. Keeps
  <2>1. \A t, x : Id(t) /\ HasContent(t, x)' => HasContent(t, x)
    BY <1>1
  <2>2. \A r, t : Id(r) /\ Owner(r, t)' => Owner(r, t)
    BY <1>1, <1>2
  <2>3. QED
    BY <2>1, <2>2, Zenon DEF Keeps
<1>9. QED
  BY <1>5, <1>6, <1>7, <1>8

\* Other slots of a round that is known.
SlotsAdded(r0, u0, s0) ==
  /\ Owner(r0, u0) /\ SlotsOK(s0)
  /\ \A x : HasContent(u0, x) => Fits(s0, x)
  /\ \A t, x : HasContent(t, x)' => HasContent(t, x)
  /\ \A r, t, s : HasSlots(r, t, s)' => HasSlots(r, t, s) \/ (r = r0 /\ t = u0 /\ s = s0)
  /\ \A r, t : Points(r, t)' => Owner(r, t)

LEMMA AddsSlots ==
  ASSUME ContentsOK, OwnersOK, RoundsOK, nextID \in Nat, nextID' \in Nat, nextID <= nextID',
         NEW r0, NEW u0, NEW s0, SlotsAdded(r0, u0, s0)
  PROVE  ContentsOK' /\ OwnersOK' /\ RoundsOK' /\ Keeps
<1> USE DEF SlotsAdded
<1>1. \A i : Id(i) => Id(i)'
  BY DEF Id
<1>2. \A r, t : Owner(r, t)' => Owner(r, t)
  BY Zenon DEF Owner
<1>3. ContentsOK'
  BY <1>1, Zenon DEF ContentsOK
<1>4. OwnersOK'
  BY <1>1, <1>2, Zenon DEF OwnersOK
<1>5. RoundsOK'
  <2> SUFFICES ASSUME NEW r, NEW t, NEW s, HasSlots(r, t, s)'
               PROVE  SlotsOK(s) /\ \A x : HasContent(t, x)' => Fits(s, x)
    BY Zenon DEF RoundsOK
  <2>1. CASE HasSlots(r, t, s)
    BY <2>1, Zenon DEF RoundsOK
  <2>2. CASE r = r0 /\ t = u0 /\ s = s0
    BY <2>2, Zenon
  <2>3. QED
    BY <2>1, <2>2
<1>6. Keeps
  BY <1>2, Zenon DEF Keeps
<1>7. QED
  BY <1>3, <1>4, <1>5, <1>6

-----------------------------------------------------------------------------
(* A step of the goroutine p that leaves the store alone: the call becomes  *)
(* c and what is left of the batch b.                                       *)

LEMMA OthersStay ==
  ASSUME NEW f, f = [p \in Proc |-> f[p]], NEW g, NEW p \in Proc, NEW x, g = [f EXCEPT ![p] = x]
  PROVE  g = [q \in Proc |-> g[q]] /\ g[p] = x /\ \A q \in Proc : q # p => g[q] = f[q]
OBVIOUS

Local(p, c, b) ==
  db' = db /\ call' = [call EXCEPT ![p] = c] /\ ops' = [ops EXCEPT ![p] = b]

BatchOK(b) == IsSeq(b) /\ \A k, v : Puts(b, k, v) => RecordOK(k, v)

LEMMA LocalStep ==
  ASSUME ShapesOK, nextID' \in Nat, NEW p \in Proc, NEW c, NEW b, Local(p, c, b), CallOK(c), BatchOK(b)
  PROVE  /\ ShapesOK'
         /\ \A k, v : Written(k, v)' => Written(k, v) \/ Puts(b, k, v)
         /\ \A t, x : HasContent(t, x)' => \/ HasContent(t, x) \/ CallContent(c, t, x)
                                           \/ \E v : Puts(b, Text(t), v) /\ v.content = x
         /\ \A r, t, s : HasSlots(r, t, s)' => \/ HasSlots(r, t, s) \/ CallSlots(c, r, t, s)
                                               \/ \E v : Puts(b, Round(r), v) /\ v.text = t /\ v.slots = s
         /\ \A r, t : Points(r, t)' => \/ Points(r, t) \/ CallPoints(c, r, t)
                                       \/ Puts(b, CurrentRound(t), r)
<1>1. /\ call' = [q \in Proc |-> call'[q]] /\ call'[p] = c /\ \A q \in Proc : q # p => call'[q] = call[q]
  BY OthersStay DEF Local, ShapesOK
<1>2. /\ ops' = [q \in Proc |-> ops'[q]] /\ ops'[p] = b /\ \A q \in Proc : q # p => ops'[q] = ops[q]
  BY OthersStay DEF Local, ShapesOK
<1>3. db' = db
  BY DEF Local
<1>4. \A k, v : Written(k, v)' => Written(k, v) \/ Puts(b, k, v)
  BY <1>2, <1>3, Zenon DEF Written, Stored
<1>5. RecordsOK'
  BY <1>4, Zenon DEF ShapesOK, RecordsOK, BatchOK
<1>6. \A q \in Proc : IsSeq(ops'[q]) /\ CallOK(call'[q])
  BY <1>1, <1>2, Zenon DEF ShapesOK, BatchOK
<1>7. ShapesOK'
  BY <1>1, <1>2, <1>3, <1>5, <1>6 DEF ShapesOK
<1>8. \A t, x : HasContent(t, x)' => \/ HasContent(t, x) \/ CallContent(c, t, x)
                                     \/ \E v : Puts(b, Text(t), v) /\ v.content = x
  BY <1>1, <1>4, Zenon DEF HasContent
<1>9. \A r, t, s : HasSlots(r, t, s)' => \/ HasSlots(r, t, s) \/ CallSlots(c, r, t, s)
                                         \/ \E v : Puts(b, Round(r), v) /\ v.text = t /\ v.slots = s
  BY <1>1, <1>4, Zenon DEF HasSlots
<1>10. \A r, t : Points(r, t)' => \/ Points(r, t) \/ CallPoints(c, r, t) \/ Puts(b, CurrentRound(t), r)
  BY <1>1, <1>4, Zenon DEF Points
<1>11. QED
  BY <1>4, <1>7, <1>8, <1>9, <1>10

\* The call and the batch say of contents, slots and pointers only what is known.
KnownCall(c) ==
  /\ CallOK(c)
  /\ \A t, x : CallContent(c, t, x) => HasContent(t, x)
  /\ \A r, t, s : CallSlots(c, r, t, s) => HasSlots(r, t, s)
  /\ \A r, t : CallPoints(c, r, t) => Owner(r, t)
KnownBatch(b) ==
  /\ BatchOK(b)
  /\ \A t, v : Puts(b, Text(t), v) => HasContent(t, v.content)
  /\ \A r, v : Puts(b, Round(r), v) => HasSlots(r, v.text, v.slots)
  /\ \A r, t : Puts(b, CurrentRound(t), r) => Owner(r, t)

LEMMA LocalQuiet ==
  ASSUME RoundsInv, nextID' \in Nat, nextID <= nextID',
         NEW p \in Proc, NEW c, NEW b, Local(p, c, b), KnownCall(c), KnownBatch(b)
  PROVE  StepOK
<1>1. ShapesOK /\ ContentsOK /\ OwnersOK /\ RoundsOK /\ nextID \in Nat
  BY DEF RoundsInv, ShapesOK
<1>2. CallOK(c) /\ BatchOK(b)
  BY DEF KnownCall, KnownBatch
<1>3. ShapesOK'
  BY <1>1, <1>2, LocalStep
<1>4. \A t, x : HasContent(t, x)' => HasContent(t, x)
  <2> TAKE t, x
  <2> HAVE HasContent(t, x)'
  <2>1. HasContent(t, x) \/ CallContent(c, t, x) \/ \E v : Puts(b, Text(t), v) /\ v.content = x
    BY <1>1, <1>2, LocalStep
  <2>2. QED
    BY <2>1, Zenon DEF KnownCall, KnownBatch
<1>5. \A r, t, s : HasSlots(r, t, s)' => HasSlots(r, t, s)
  <2> TAKE r, t, s
  <2> HAVE HasSlots(r, t, s)'
  <2>1. \/ HasSlots(r, t, s) \/ CallSlots(c, r, t, s)
        \/ \E v : Puts(b, Round(r), v) /\ v.text = t /\ v.slots = s
    BY <1>1, <1>2, LocalStep
  <2>2. QED
    BY <2>1, Zenon DEF KnownCall, KnownBatch
<1>6. \A r, t : Points(r, t)' => Owner(r, t)
  <2> TAKE r, t
  <2> HAVE Points(r, t)'
  <2>1. Points(r, t) \/ CallPoints(c, r, t) \/ Puts(b, CurrentRound(t), r)
    BY <1>1, <1>2, LocalStep
  <2>2. QED
    BY <2>1, Zenon DEF KnownCall, KnownBatch, Owner
<1>7. ContentsOK' /\ OwnersOK' /\ RoundsOK' /\ Keeps
  BY <1>1, <1>4, <1>5, <1>6, AddsNothing
<1>8. QED
  BY <1>3, <1>7 DEF RoundsInv, StepOK

\* A batch that touches no text, round or pointer says nothing of them.
LEMMA MildIs ==
  ASSUME NEW b, Mild(b)
  PROVE  /\ KnownBatch(b)
         /\ \A k, v : Puts(b, k, v) => RecordOK(k, v)
         /\ \A t, v : ~Puts(b, Text(t), v) /\ ~Puts(b, Round(t), v) /\ ~Puts(b, CurrentRound(t), v)
<1>1. \A t : Text(t)[1] = "text" /\ Round(t)[1] = "round" /\ CurrentRound(t)[1] = "currentround"
  BY DEF Text, Round, CurrentRound
<1>2. \A t, v : ~Puts(b, Text(t), v) /\ ~Puts(b, Round(t), v) /\ ~Puts(b, CurrentRound(t), v)
  BY <1>1, Zenon DEF Mild
<1>3. \A k, v : Puts(b, k, v) => RecordOK(k, v)
  BY Zenon DEF Mild, RecordOK
<1>4. QED
  BY <1>2, <1>3, Zenon DEF KnownBatch, BatchOK, Mild

LEMMA ErasesIsMild ==
  ASSUME NEW b, Erases(b)
  PROVE  Mild(b)
BY DEF Erases, Mild, Puts

\* What is left of a batch that is being written is known.
LEMMA OwnBatchIsKnown ==
  ASSUME RoundsInv, NEW p \in Proc
  PROVE  KnownBatch(ops[p]) /\ ops = [ops EXCEPT ![p] = ops[p]]
<1>1. IsSeq(ops[p]) /\ ops = [ops EXCEPT ![p] = ops[p]] /\ RecordsOK
  BY DEF RoundsInv, ShapesOK
<1>2. \A k, v : Puts(ops[p], k, v) => Written(k, v)
  BY Zenon DEF Written
<1>3. BatchOK(ops[p])
  BY <1>1, <1>2, Zenon DEF BatchOK, RecordsOK
<1>4. \A t, v : Puts(ops[p], Text(t), v) => HasContent(t, v.content)
  BY <1>2, Zenon DEF HasContent
<1>5. \A r, v : Puts(ops[p], Round(r), v) => HasSlots(r, v.text, v.slots)
  BY <1>2, Zenon DEF HasSlots
<1>6. \A r, t : Puts(ops[p], CurrentRound(t), r) => Owner(r, t)
  BY <1>2, Zenon DEF Owner, Points
<1>7. QED
  BY <1>1, <1>3, <1>4, <1>5, <1>6, Zenon DEF KnownBatch

LEMMA OwnCallIsKnown ==
  ASSUME RoundsInv, NEW p \in Proc
  PROVE  KnownCall(call[p])
<1>1. CallOK(call[p])
  BY DEF RoundsInv, ShapesOK
<1>2. QED
  BY <1>1, Zenon DEF KnownCall, HasContent, HasSlots, Owner, Points

\* A call that is over, or has only its last batch to write, says nothing.
Talking == {"pointer", "round", "superseded", "count", "opened", "seeded", "choice", "text", "tally",
            "collect", "next"}
LEMMA SilentIsKnown ==
  ASSUME NEW c, c.pc \notin Talking
  PROVE  KnownCall(c)
BY DEF Talking, KnownCall, CallOK, CallContent, CallSlots, CallPoints, Proposing

\* The kinds of steps: only the call goes on; only a mild batch begins.
LEMMA CallStep ==
  ASSUME RoundsInv, NEW p \in Proc, NEW c, db' = db, call' = [call EXCEPT ![p] = c], ops' = ops,
         nextID' = nextID, KnownCall(c)
  PROVE  StepOK
<1>1. Local(p, c, ops[p]) /\ KnownBatch(ops[p])
  BY OwnBatchIsKnown DEF Local
<1>2. nextID' \in Nat /\ nextID <= nextID'
  BY DEF RoundsInv, ShapesOK
<1>3. QED
  BY <1>1, <1>2, LocalQuiet

LEMMA MildStep ==
  ASSUME RoundsInv, NEW p \in Proc, NEW c, NEW b, Local(p, c, b), nextID' \in Nat, nextID <= nextID',
         KnownCall(c), Mild(b)
  PROVE  StepOK
BY LocalQuiet, MildIs

-----------------------------------------------------------------------------
(* The steps that begin or end calls.                                      *)

LEMMA IdleIsKnown == KnownCall(Idle)
<1>1. Idle.pc \notin Talking
  BY DEF Idle, Talking
<1>2. QED
  BY <1>1, SilentIsKnown

LEMMA EmptyIsMild == Mild(<<>>)
BY EmptyIsSeq DEF Mild

LEMMA ArrivesIs ==
  ASSUME RoundsInv
  PROVE  nextID \in Nat /\ nextID <= nextID
BY DEF RoundsInv, ShapesOK

\* A text that is there has the content it is stored with.
LEMMA TextIs ==
  ASSUME RoundsInv, NEW t, Has(Text(t))
  PROVE  HasContent(t, db[Text(t)].content) /\ IsText(db[Text(t)])
<1>1. Written(Text(t), db[Text(t)])
  BY Zenon DEF Written, Stored, Has
<1>2. Text(t)[1] = "text"
  BY DEF Text
<1>3. QED
  BY <1>1, <1>2, Zenon DEF HasContent, RoundsInv, ShapesOK, RecordsOK, RecordOK

LEMMA TextsAreThere ==
  ASSUME RoundsInv, NEW t \in Texts
  PROVE  Has(Text(t))
<1>1. PICK k \in DOMAIN db : k[1] = "text" /\ t = k[2]
  BY DEF Texts, KeysOf
<1>2. Written(k, db[k])
  BY Zenon DEF Written, Stored
<1>3. k = Text(k[2])
  BY <1>1, <1>2, Zenon DEF RoundsInv, ShapesOK, RecordsOK, RecordOK
<1>4. QED
  BY <1>1, <1>3 DEF Has

LEMMA RoundIs ==
  ASSUME RoundsInv, NEW r, Has(Round(r))
  PROVE  LET v == db[Round(r)] IN IsRound(v) /\ HasSlots(r, v.text, v.slots)
<1>1. Written(Round(r), db[Round(r)])
  BY Zenon DEF Written, Stored, Has
<1>2. Round(r)[1] = "round"
  BY DEF Round
<1>3. QED
  BY <1>1, <1>2, Zenon DEF HasSlots, RoundsInv, ShapesOK, RecordsOK, RecordOK

LEMMA CastVoteInv ==
  ASSUME RoundsInv, NEW p \in Proc, NEW u, NEW f, CastVote(p, u, f)
  PROVE  StepOK
<1> DEFINE c == [pc |-> "choice", user |-> u, fragment |-> f,
                 text |-> db[Fragment(f)].text, slot |-> db[Fragment(f)].slot]
<1>1. call' = [call EXCEPT ![p] = c] /\ db' = db /\ ops' = ops /\ nextID' = nextID
  BY DEF CastVote, Becomes
<1>2. c.pc = "choice" /\ VoteCall(c)
  BY DEF VoteCall
<1> HIDE DEF c
<1>3. KnownCall(c)
  BY <1>2 DEF KnownCall, CallOK, CallContent, CallSlots, CallPoints, Proposing
<1>4. QED
  BY <1>1, <1>3, CallStep

LEMMA ProposeEditInv ==
  ASSUME RoundsInv, NEW p \in Proc, NEW u, NEW t \in Texts, NEW range \in Proposals,
         ProposeEdit(p, u, t, range)
  PROVE  StepOK
<1> DEFINE x == db[Text(t)].content
           c == [pc |-> "pointer", for |-> "propose", user |-> u, text |-> t, round |-> 0,
                 content |-> x, range |-> range, number |-> 0, slot |-> 0]
<1>1. /\ call' = [call EXCEPT ![p] = c] /\ db' = db /\ ops' = ops /\ nextID' = nextID
      /\ ValidRange(range, x)
  BY DEF ProposeEdit, Becomes
<1>2. HasContent(t, x)
  BY TextIs, TextsAreThere
<1> HIDE DEF x
<1>3. c.pc = "pointer" /\ c.for = "propose" /\ c.text = t /\ c.content = x /\ ProposeCall(c)
  BY <1>1 DEF ProposeCall
<1> HIDE DEF c
<1>4. KnownCall(c)
  BY <1>2, <1>3 DEF KnownCall, CallOK, CallContent, CallSlots, CallPoints, Proposing
<1>5. QED
  BY <1>1, <1>4, CallStep

LEMMA RoundCallIsKnown ==
  ASSUME NEW c, c.pc = "pointer", RoundCall(c)
  PROVE  KnownCall(c)
<1>1. c.for \in {"schedule", "close"}
  BY DEF RoundCall
<1>2. QED
  BY <1>1 DEF KnownCall, CallOK, CallContent, CallSlots, CallPoints, Proposing

LEMMA StartRoundCallInv ==
  ASSUME RoundsInv, NEW p \in Proc, NEW u, NEW t,
         ScheduleRoundClose(p, u, t) \/ CloseRound(p, u, t) \/ CloseDue(p, t)
  PROVE  StepOK
<1> DEFINE Start(for, w) == [pc |-> "pointer", for |-> for, user |-> w, text |-> t, round |-> 0]
<1>1. PICK for \in {"schedule", "close"}, w \in {u, Worker} : call' = [call EXCEPT ![p] = Start(for, w)]
  <2>1. CASE ScheduleRoundClose(p, u, t)
    BY <2>1 DEF ScheduleRoundClose, Becomes
  <2>2. CASE CloseRound(p, u, t)
    BY <2>2 DEF CloseRound, StartClose, Becomes
  <2>3. CASE CloseDue(p, t)
    BY <2>3 DEF CloseDue, StartClose, Becomes
  <2>4. QED
    BY <2>1, <2>2, <2>3
<1> DEFINE c == [pc |-> "pointer", for |-> for, user |-> w, text |-> t, round |-> 0]
<1>2. db' = db /\ ops' = ops /\ nextID' = nextID
  BY DEF ScheduleRoundClose, CloseRound, CloseDue
<1>3. c.pc = "pointer" /\ RoundCall(c)
  BY DEF RoundCall
<1>4. call' = [call EXCEPT ![p] = c]
  BY <1>1
<1> HIDE DEF c
<1>5. QED
  BY <1>2, <1>3, <1>4, RoundCallIsKnown, CallStep

LEMMA SubscribeInv ==
  ASSUME RoundsInv, NEW p \in Proc, NEW u, NEW t, Subscribe(p, u, t) \/ Unsubscribe(p, u, t)
  PROVE  StepOK
<1>1. PICK c, b : /\ Local(p, c, b) /\ c.pc \in {"subscribed", "unsubscribed"} /\ nextID' = nextID
                  /\ \/ b = << Put(Subscription(t, u), u), Put(SubscriptionIndex(u, t), t) >>
                     \/ b = << Delete(Subscription(t, u)), Delete(SubscriptionIndex(u, t)) >>
  <2>1. CASE Subscribe(p, u, t)
    <3> DEFINE c == [pc |-> "subscribed", user |-> u]
               b == << Put(Subscription(t, u), u), Put(SubscriptionIndex(u, t), t) >>
    <3>1. Local(p, c, b) /\ c.pc = "subscribed" /\ nextID' = nextID
      BY <2>1 DEF Subscribe, Becomes, Local
    <3> HIDE DEF c
    <3>2. QED
      BY <3>1
  <2>2. CASE Unsubscribe(p, u, t)
    <3> DEFINE c == [pc |-> "unsubscribed", user |-> u]
               b == << Delete(Subscription(t, u)), Delete(SubscriptionIndex(u, t)) >>
    <3>1. Local(p, c, b) /\ c.pc = "unsubscribed" /\ nextID' = nextID
      BY <2>2 DEF Unsubscribe, Becomes, Local
    <3> HIDE DEF c
    <3>2. QED
      BY <3>1
  <2>3. QED
    BY <2>1, <2>2
<1>2. \A k, v : Puts(b, k, v) => k = Subscription(t, u) \/ k = SubscriptionIndex(u, t)
  <2>1. CASE b = << Put(Subscription(t, u), u), Put(SubscriptionIndex(u, t), t) >>
    <3>1. \A k, v : Puts(b, k, v) =>
            IsPut(Put(Subscription(t, u), u), k, v) \/ IsPut(Put(SubscriptionIndex(u, t), t), k, v)
      BY <2>1, PairIs
    <3>2. QED
      BY <3>1, PutIs
  <2>2. CASE b = << Delete(Subscription(t, u)), Delete(SubscriptionIndex(u, t)) >>
    <3>1. \A k, v : Puts(b, k, v) =>
            IsPut(Delete(Subscription(t, u)), k, v) \/ IsPut(Delete(SubscriptionIndex(u, t)), k, v)
      BY <2>2, PairIs
    <3>2. QED
      BY <3>1, PutIs
  <2>3. QED
    BY <1>1, <2>1, <2>2
<1>3. Mild(b)
  <2>1. Subscription(t, u)[1] = "subscription" /\ SubscriptionIndex(u, t)[1] = "subscriptionindex"
    BY DEF Subscription, SubscriptionIndex
  <2>2. IsSeq(b)
    BY <1>1, PairIs, Zenon
  <2>3. QED
    BY <1>2, <2>1, <2>2 DEF Mild
<1>4. KnownCall(c)
  BY <1>1, SilentIsKnown DEF Talking
<1>5. QED
  BY <1>1, <1>3, <1>4, ArrivesIs, MildStep

LEMMA DeleteCallIsKnown ==
  ASSUME NEW c, c.pc \in {"collect", "next", "deleted"}, DeleteCall(c)
  PROVE  KnownCall(c)
BY DEF KnownCall, CallOK, CallContent, CallSlots, CallPoints, Proposing

LEMMA StartDeleteInv ==
  ASSUME RoundsInv, NEW p \in Proc, NEW u, NEW t, (DeleteText(p, u, t) /\ t \in Texts) \/ DeleteUser(p, u, t)
  PROVE  StepOK
<1>1. PICK batch, scans, then :
        /\ StartDelete(p, u, t, batch, scans, then) /\ db' = db /\ ops' = ops /\ nextID' = nextID
        /\ Erases(batch)
  <2>1. CASE DeleteText(p, u, t) /\ t \in Texts
    <3>1. IsFiniteSet(db[Text(t)].tags)
      BY <2>1, TextIs, TextsAreThere DEF IsText
    <3> DEFINE set == db[Text(t)].tags
               tags == SetToSeq(set)
               batch == TextOps(t) \o [i \in DOMAIN tags |-> Delete(TagIndex(tags[i], t))]
    <3>2. Erases(batch)
      BY <3>1, TextOpsErase
    <3>3. /\ db' = db /\ ops' = ops /\ nextID' = nextID
          /\ \E scans, then : StartDelete(p, u, t, batch, scans, then)
      BY <2>1, Zenon DEF DeleteText
    <3> HIDE DEF batch
    <3>4. QED
      BY <3>2, <3>3, Zenon
  <2>2. CASE DeleteUser(p, u, t)
    <3>1. Erases(<<>>)
      BY EmptyIsSeq DEF Erases
    <3>2. QED
      BY <2>2, <3>1 DEF DeleteUser
  <2>3. QED
    BY <2>1, <2>2
<1> DEFINE c == [pc |-> "collect", user |-> u, target |-> t, batch |-> batch, scans |-> scans, then |-> then]
<1>2. call' = [call EXCEPT ![p] = c]
  BY <1>1 DEF StartDelete, Becomes
<1>3. c.pc = "collect" /\ DeleteCall(c)
  BY <1>1 DEF DeleteCall
<1> HIDE DEF c
<1>4. KnownCall(c)
  BY <1>3, DeleteCallIsKnown
<1>5. db' = db /\ ops' = ops /\ nextID' = nextID
  BY <1>1
<1>6. QED
  BY <1>2, <1>4, <1>5, CallStep

-----------------------------------------------------------------------------
(* The operations of a batch.                                              *)

LEMMA AfterIs ==
  ASSUME NEW o, db' = After(o), IsFiniteSet(DOMAIN db)
  PROVE  /\ \A k, v : Stored(k, v)' => Stored(k, v) \/ IsPut(o, k, v)
         /\ IsFiniteSet(DOMAIN db')
<1>1. CASE o.tombstone
  <2>1. DOMAIN db' = DOMAIN db \ {o.key} /\ \A k \in DOMAIN db' : db'[k] = db[k]
    BY <1>1 DEF After
  <2>2. IsFiniteSet(DOMAIN db')
    BY <2>1, FS_RemoveElement
  <2>3. QED
    BY <2>1, <2>2 DEF Stored
<1>2. CASE ~o.tombstone
  <2>1. /\ DOMAIN db' = DOMAIN db \cup {o.key}
        /\ \A k \in DOMAIN db' : db'[k] = IF k = o.key THEN o.val ELSE db[k]
    BY <1>2 DEF After
  <2>2. IsFiniteSet(DOMAIN db')
    BY <2>1, FS_AddElement
  <2>3. QED
    BY <1>2, <2>1, <2>2 DEF Stored, IsPut
<1>3. QED
  BY <1>1, <1>2

LEMMA ApplyOpInv ==
  ASSUME RoundsInv, NEW p \in Proc, ApplyOp(p)
  PROVE  StepOK
<1> DEFINE b == ops[p]
<1>1. ShapesOK /\ IsSeq(b) /\ b # <<>>
  BY DEF RoundsInv, ShapesOK, ApplyOp
<1>2. db' = After(b[1]) /\ ops' = [ops EXCEPT ![p] = Tail(b)] /\ 1 \in DOMAIN b /\ nextID' = nextID
  BY <1>1, TailIs DEF ApplyOp
<1>3. call' = [call EXCEPT ![p] = Idle] \/ call' = call
  BY DEF ApplyOp, Becomes
<1>4. /\ call' = [q \in Proc |-> call'[q]] /\ \A q \in Proc : call'[q] = call[q] \/ call'[q] = Idle
  <2>1. CASE call' = call
    BY <1>1, <2>1 DEF ShapesOK
  <2>2. CASE call' = [call EXCEPT ![p] = Idle]
    BY <1>1, <2>2, OthersStay DEF ShapesOK
  <2>3. QED
    BY <1>3, <2>1, <2>2
<1>5. /\ ops' = [q \in Proc |-> ops'[q]] /\ ops'[p] = Tail(b) /\ \A q \in Proc : q # p => ops'[q] = ops[q]
  BY <1>1, <1>2, OthersStay DEF ShapesOK
<1>6. IsSeq(Tail(b)) /\ \A k, v : Puts(Tail(b), k, v) => Puts(b, k, v)
  BY <1>1, TailIs
<1>7. /\ \A k, v : Stored(k, v)' => Stored(k, v) \/ IsPut(b[1], k, v)
      /\ IsFiniteSet(DOMAIN db')
  BY <1>1, <1>2, AfterIs DEF ShapesOK
<1>8. \A k, v : IsPut(b[1], k, v) => Puts(b, k, v)
  BY <1>2, Zenon DEF IsPut, Puts
<1>9. \A k, v : Written(k, v)' => Written(k, v)
  BY <1>5, <1>6, <1>7, <1>8, Zenon DEF Written
<1>10. CallOK(Idle) /\ (\A t, x : ~CallContent(Idle, t, x)) /\ (\A r, t, s : ~CallSlots(Idle, r, t, s))
       /\ \A r, t : ~CallPoints(Idle, r, t)
  BY DEF CallOK, CallContent, CallSlots, CallPoints, Proposing, Idle
<1>11. \A q \in Proc : IsSeq(ops'[q]) /\ CallOK(call'[q])
  BY <1>1, <1>4, <1>5, <1>6, <1>10 DEF ShapesOK
<1>12. RecordsOK'
  BY <1>1, <1>9, Zenon DEF ShapesOK, RecordsOK
<1>13. ShapesOK'
  BY <1>1, <1>2, <1>4, <1>5, <1>7, <1>11, <1>12 DEF ShapesOK
<1>14. \A t, x : HasContent(t, x)' => HasContent(t, x)
  BY <1>4, <1>9, <1>10, Zenon DEF HasContent
<1>15. \A r, t, s : HasSlots(r, t, s)' => HasSlots(r, t, s)
  BY <1>4, <1>9, <1>10, Zenon DEF HasSlots
<1>16. \A r, t : Points(r, t)' => Owner(r, t)
  BY <1>4, <1>9, <1>10, Zenon DEF Points, Owner
<1>17. nextID \in Nat /\ nextID' \in Nat /\ nextID <= nextID'
  BY <1>1, <1>2 DEF ShapesOK
<1>18. QED
  BY <1>13, <1>14, <1>15, <1>16, <1>17, AddsNothing DEF RoundsInv, StepOK

LEMMA FailsInv ==
  ASSUME RoundsInv, NEW p \in Proc, Fails(p)
  PROVE  StepOK
<1>1. Local(p, Idle, <<>>) /\ nextID' = nextID
  BY DEF Fails, Becomes, Local
<1>2. QED
  BY <1>1, IdleIsKnown, EmptyIsMild, ArrivesIs, MildStep

-----------------------------------------------------------------------------
(* The steps of a call.                                                    *)

LEMMA SameCall ==
  ASSUME RoundsInv, NEW p \in Proc
  PROVE  CallOK(call[p]) /\ call = [q \in Proc |-> call[q]]
BY DEF RoundsInv, ShapesOK

\* A proposal goes on without a round.
LEMMA ProposalGoesOn ==
  ASSUME NEW c, KnownCall(c), ProposeCall(c), Proposing(c), NEW pc \in {"superseded", "count"}
  PROVE  KnownCall([c EXCEPT !.pc = pc])
<1> DEFINE d == [c EXCEPT !.pc = pc]
<1>1. /\ d.pc = pc /\ d.text = c.text /\ d.content = c.content /\ d.range = c.range
      /\ c.range \in Proposals /\ ValidRange(c.range, c.content)
  BY DEF ProposeCall
<1>2. d \in [pc : {pc}, for : {"propose"}, user : {d.user}, text : {d.text}, round : {d.round},
             content : {d.content}, range : Proposals, number : {d.number}, slot : {d.slot}]
  BY DEF ProposeCall
<1> HIDE DEF d
<1>3. ProposeCall(d)
  BY <1>1, <1>2 DEF ProposeCall
<1>4. HasContent(c.text, c.content)
  BY Zenon DEF KnownCall, CallContent
<1>5. KnownCall(d)
  BY <1>1, <1>3, <1>4 DEF KnownCall, CallOK, CallContent, CallSlots, CallPoints, Proposing
<1>6. QED
  BY <1>5 DEF d

LEMMA NoRoundInv ==
  ASSUME RoundsInv, NEW p \in Proc, call[p].pc \in {"pointer", "round"}, NoRound(p),
         db' = db, ops' = ops, nextID' = nextID
  PROVE  StepOK
<1> DEFINE c == call[p]
<1>1. KnownCall(c)
  BY OwnCallIsKnown
<1>2. ProposeCall(c) \/ RoundCall(c)
  BY <1>1 DEF KnownCall, CallOK
<1>3. CASE c.for = "propose"
  <2>1. call' = [call EXCEPT ![p] = [c EXCEPT !.pc = "superseded"]]
    BY <1>3 DEF NoRound, Becomes
  <2>2. ProposeCall(c) /\ Proposing(c)
    BY <1>2, <1>3 DEF RoundCall, Proposing
  <2>3. KnownCall([c EXCEPT !.pc = "superseded"])
    BY <1>1, <2>2, ProposalGoesOn
  <2>4. QED
    BY <2>1, <2>3, CallStep
<1>4. CASE c.for # "propose"
  <2>1. call' = [call EXCEPT ![p] = Idle]
    BY <1>4 DEF NoRound, Becomes
  <2>2. QED
    BY <2>1, IdleIsKnown, CallStep
<1>5. QED
  BY <1>3, <1>4

\* A proposal or a close goes on with the round r it has found, or with none.
LEMMA ReadPointerInv ==
  ASSUME RoundsInv, NEW p \in Proc, ReadPointer(p)
  PROVE  StepOK
<1> DEFINE c == call[p]
<1>1. /\ c.pc = "pointer" /\ KnownCall(c) /\ CallOK(c)
      /\ db' = db /\ ops' = ops /\ nextID' = nextID
  BY OwnCallIsKnown DEF ReadPointer, At, KnownCall
<1>2. ProposeCall(c) \/ RoundCall(c)
  BY <1>1 DEF CallOK
<1>3. CASE Has(CurrentRound(c.text))
  <2> DEFINE r == db[CurrentRound(c.text)]
             d == [c EXCEPT !.pc = "round", !.round = r]
  <2>1. call' = [call EXCEPT ![p] = d]
    BY <1>3 DEF ReadPointer, Becomes
  <2>2. Owner(r, c.text)
    BY <1>3, Zenon DEF Owner, Points, Written, Stored, Has
  <2> HIDE DEF r, c
  <2>3. CASE ProposeCall(c)
    <3>1. /\ d.pc = "round" /\ d.for = "propose" /\ c.for = "propose" /\ d.text = c.text
          /\ d.content = c.content /\ d.round = r /\ d.range = c.range /\ c.range \in Proposals
          /\ ValidRange(c.range, c.content)
      BY <2>3 DEF ProposeCall
    <3>2. d \in [pc : {"round"}, for : {"propose"}, user : {d.user}, text : {d.text}, round : {d.round},
                 content : {d.content}, range : Proposals, number : {d.number}, slot : {d.slot}]
      BY <2>3 DEF ProposeCall
    <3> HIDE DEF d
    <3>3. ProposeCall(d)
      BY <3>1, <3>2 DEF ProposeCall
    <3>4. HasContent(c.text, c.content)
      BY <1>1, <3>1, Zenon DEF KnownCall, CallContent, Proposing
    <3>5. KnownCall(d)
      BY <2>2, <3>1, <3>3, <3>4 DEF KnownCall, CallOK, CallContent, CallSlots, CallPoints, Proposing
    <3>6. QED
      BY <1>1, <2>1, <3>5, CallStep
  <2>4. CASE RoundCall(c)
    <3>1. d.pc = "round" /\ d.for \in {"schedule", "close"} /\ d.text = c.text /\ d.round = r
      BY <2>4 DEF RoundCall
    <3>2. RoundCall(d)
      BY <2>4 DEF RoundCall
    <3> HIDE DEF d
    <3>3. KnownCall(d)
      BY <2>2, <3>1, <3>2 DEF KnownCall, CallOK, CallContent, CallSlots, CallPoints, Proposing
    <3>4. QED
      BY <1>1, <2>1, <3>3, CallStep
  <2>5. QED
    BY <1>2, <2>3, <2>4
<1>4. CASE NoRound(p)
  BY <1>1, <1>4, NoRoundInv
<1>5. QED
  BY <1>3, <1>4 DEF ReadPointer

LEMMA RoundGoneInv ==
  ASSUME RoundsInv, NEW p \in Proc, RoundGone(p)
  PROVE  StepOK
BY NoRoundInv DEF RoundGone, At

LEMMA CheckSupersededInv ==
  ASSUME RoundsInv, NEW p \in Proc, CheckSuperseded(p)
  PROVE  StepOK
<1> DEFINE c == call[p]
<1>1. /\ c.pc = "superseded" /\ KnownCall(c) /\ db' = db /\ ops' = ops /\ nextID' = nextID
  BY OwnCallIsKnown DEF CheckSuperseded, At
<1>2. ProposeCall(c) /\ Proposing(c)
  BY <1>1 DEF KnownCall, CallOK, Proposing
<1>3. KnownCall([c EXCEPT !.pc = "count"])
  BY <1>1, <1>2, ProposalGoesOn
<1>4. call' = [call EXCEPT ![p] = Idle] \/ call' = [call EXCEPT ![p] = [c EXCEPT !.pc = "count"]]
  BY DEF CheckSuperseded, Becomes
<1>5. QED
  BY <1>1, <1>3, <1>4, IdleIsKnown, CallStep

LEMMA AddFragmentInv ==
  ASSUME RoundsInv, NEW p \in Proc, ProposeCall(call[p]), NEW s, NEW id \in Nat, nextID <= id,
         AddFragment(p, s, id), db' = db
  PROVE  StepOK
<1> DEFINE c == call[p]
           d == [c EXCEPT !.pc = "proposed"]
           t == c.text
           v == [text |-> t, slot |-> s, author |-> c.user, content |-> Typed(id, c.range.length)]
           x == Put(Fragment(id), v)
           y == Put(FragmentIndex(t, s, id), id)
           b == << x, y >>
<1>1. d.pc = "proposed"
  BY DEF ProposeCall
<1>2. KnownCall(d)
  BY <1>1, SilentIsKnown DEF Talking
<1>3. Local(p, d, b)
  BY DEF AddFragment, WriteBatch, Local
<1>4. nextID' \in Nat /\ nextID <= nextID'
  <2>1. nextID' = id + 1 /\ nextID \in Nat
    BY DEF AddFragment, RoundsInv, ShapesOK
  <2>2. QED
    BY <2>1
<1>5. Mild(b)
  <2> HIDE DEF v, t
  <2>1. \A k, w : Puts(b, k, w) => IsPut(x, k, w) \/ IsPut(y, k, w)
    BY PairIs
  <2>2. \A k, w : Puts(b, k, w) => k = Fragment(id) \/ k = FragmentIndex(t, s, id)
    BY <2>1, PutIs
  <2>3. IsSeq(b)
    BY PairIs
  <2>4. Fragment(id)[1] = "fragment" /\ FragmentIndex(t, s, id)[1] = "fragmentindex"
    BY DEF Fragment, FragmentIndex
  <2> HIDE DEF b
  <2>5. QED
    BY <2>2, <2>3, <2>4 DEF Mild
<1> HIDE DEF b, d
<1>6. QED
  BY <1>2, <1>3, <1>4, <1>5, MildStep

LEMMA AddFirstFragmentInv ==
  ASSUME RoundsInv, NEW p \in Proc, AddFirstFragment(p)
  PROVE  StepOK
<1>1. ProposeCall(call[p])
  BY SameCall DEF AddFirstFragment, At, CallOK
<1>2. nextID \in Nat /\ nextID <= nextID /\ db' = db
  BY ArrivesIs DEF AddFirstFragment
<1>3. QED
  BY <1>1, <1>2, AddFragmentInv DEF AddFirstFragment

LEMMA ReadChoiceInv ==
  ASSUME RoundsInv, NEW p \in Proc, ReadChoice(p)
  PROVE  StepOK
<1> DEFINE c == call[p]
           d == [c EXCEPT !.pc = "voted"]
           f == c.fragment
           choice == UserChoice(c.text, c.slot, c.user)
           x == Put(Vote(f, c.user), c.user)
           y == Put(choice, f)
           b == VoteOps(f, choice, c.user)
<1>1. c.pc = "choice" /\ VoteCall(c) /\ nextID' = nextID /\ Local(p, d, b)
  BY SameCall DEF ReadChoice, At, CallOK, WriteBatch, Local
<1>2. d.pc = "voted"
  BY <1>1 DEF VoteCall
<1>3. KnownCall(d)
  BY <1>2, SilentIsKnown DEF Talking
<1>4. Mild(<< x, y >>)
  <2>1. \A k, w : Puts(<< x, y >>, k, w) => IsPut(x, k, w) \/ IsPut(y, k, w)
    BY PairIs
  <2>2. \A k, w : Puts(<< x, y >>, k, w) => k = Vote(f, c.user) \/ k = choice
    BY <2>1, PutIs
  <2>3. IsSeq(<< x, y >>)
    BY PairIs
  <2>4. Vote(f, c.user)[1] = "vote" /\ choice[1] = "uservote"
    BY DEF Vote, UserChoice
  <2>5. QED
    BY <2>2, <2>3, <2>4 DEF Mild
<1>5. Mild(b)
  <2> DEFINE e == << Delete(Vote(db[choice], c.user)) >>
  <2>1. b = << x, y >> \o e \/ b = << x, y >> \o <<>>
    BY DEF VoteOps
  <2>2. Mild(e)
    <3>1. IsSeq(e) /\ \A k, w : Puts(e, k, w) => IsPut(Delete(Vote(db[choice], c.user)), k, w)
      BY SingleIs
    <3>2. QED
      BY <3>1, PutIs DEF Mild
  <2> HIDE DEF b, e, x, y
  <2>3. QED
    BY <1>4, <2>1, <2>2, EmptyIsMild, MildConcat
<1> HIDE DEF b, d
<1>6. QED
  BY <1>1, <1>3, <1>5, ArrivesIs, MildStep

\* A record of a round that is put back with the same slots.
LEMMA PutBack ==
  ASSUME NEW r, NEW v, IsRound(v), HasSlots(r, v.text, v.slots)
  PROVE  KnownBatch(<< Put(Round(r), v) >>)
<1> DEFINE b == << Put(Round(r), v) >>
<1>1. IsSeq(b) /\ \A k, w : Puts(b, k, w) => IsPut(Put(Round(r), v), k, w)
  BY SingleIs
<1>2. \A k, w : Puts(b, k, w) => k = Round(r) /\ w = v
  BY <1>1, PutIs
<1> HIDE DEF b
<1>3. /\ \A q : Round(r) = Round(q) => q = r
      /\ \A q : Round(r) # Text(q) /\ Round(r) # CurrentRound(q)
      /\ Round(r)[1] = "round" /\ Round(r)[2] = r
  BY DEF Round, Text, CurrentRound
<1>4. RecordOK(Round(r), v)
  BY <1>3 DEF RecordOK
<1>5. BatchOK(b)
  BY <1>1, <1>2, <1>4 DEF BatchOK
<1>6. KnownBatch(b)
  BY <1>2, <1>3, <1>5 DEF KnownBatch
<1>7. QED
  BY <1>6 DEF b

LEMMA ScheduleInv ==
  ASSUME RoundsInv, NEW p \in Proc, Schedule(p)
  PROVE  StepOK
<1> DEFINE c == call[p]
           r == c.round
           old == db[Round(r)]
<1>1. /\ c.pc = "round" /\ c.for = "schedule" /\ Has(Round(r)) /\ db' = db /\ nextID' = nextID
      /\ RoundCall(c)
  BY SameCall DEF Schedule, At, AtRound, CallOK, ProposeCall
<1>2. CASE Ends(p)
  BY <1>1, <1>2, IdleIsKnown, CallStep DEF Ends, Becomes
<1>3. CASE ~Ends(p)
  <2> DEFINE v == [old EXCEPT !.scheduled = TRUE]
             d == [c EXCEPT !.pc = "scheduled"]
  <2>1. Local(p, d, << Put(Round(r), v) >>)
    BY <1>1, <1>3 DEF Schedule, WriteBatch, Local
  <2>2. IsRound(old) /\ HasSlots(r, old.text, old.slots)
    BY <1>1, RoundIs
  <2>3. d.pc = "scheduled"
    BY <1>1 DEF RoundCall
  <2>4. KnownCall(d)
    BY <2>3, SilentIsKnown DEF Talking
  <2> HIDE DEF old
  <2>5. v.text = old.text /\ v.slots = old.slots /\ IsRound(v)
    BY <2>2 DEF IsRound
  <2> HIDE DEF v, d
  <2>6. KnownBatch(<< Put(Round(r), v) >>)
    BY <2>2, <2>5, PutBack
  <2>7. QED
    BY <1>1, <2>1, <2>4, <2>6, ArrivesIs, LocalQuiet
<1>4. QED
  BY <1>2, <1>3

LEMMA ReadRoundInv ==
  ASSUME RoundsInv, NEW p \in Proc, ReadRound(p)
  PROVE  StepOK
<1> DEFINE c == call[p]
           round == db[Round(c.round)]
           d == [pc |-> "text", user |-> c.user, text |-> c.text, round |-> c.round, read |-> round]
<1>1. Has(Round(c.round)) /\ db' = db /\ ops' = ops /\ nextID' = nextID
  BY DEF ReadRound, AtRound
<1>2. call' = [call EXCEPT ![p] = Idle] \/ call' = [call EXCEPT ![p] = d]
  BY DEF ReadRound, Becomes
<1>3. /\ IsRound(round) /\ HasSlots(c.round, round.text, round.slots)
      /\ Owner(c.round, c.text)
  <2>1. c.pc = "round" /\ KnownCall(c)
    BY OwnCallIsKnown DEF ReadRound, AtRound, At
  <2>2. Owner(c.round, c.text)
    BY <2>1, Zenon DEF KnownCall, CallPoints
  <2>3. QED
    BY <1>1, <2>2, RoundIs
<1> HIDE DEF round
<1>4. d.pc = "text" /\ d.round = c.round /\ d.text = c.text /\ d.read = round /\ ReadCall(d)
  BY <1>3 DEF ReadCall
<1> HIDE DEF d
<1>5. KnownCall(d)
  BY <1>3, <1>4 DEF KnownCall, CallOK, CallContent, CallSlots, CallPoints, Proposing
<1>6. QED
  BY <1>1, <1>2, <1>5, IdleIsKnown, CallStep

LEMMA ReadTextInv ==
  ASSUME RoundsInv, NEW p \in Proc, ReadText(p)
  PROVE  StepOK
<1> DEFINE c == call[p]
           old == db[Text(c.text)]
           d == [pc |-> "tally", user |-> c.user, text |-> c.text, round |-> c.round,
                 read |-> c.read, old |-> old, winners |-> <<>>]
<1>1. c.pc = "text" /\ KnownCall(c) /\ db' = db /\ ops' = ops /\ nextID' = nextID
  BY OwnCallIsKnown DEF ReadText, At
<1>2. CASE ~Has(Text(c.text))
  <2>1. call' = [call EXCEPT ![p] = Idle]
    BY <1>2 DEF ReadText, Becomes
  <2>2. QED
    BY <1>1, <2>1, IdleIsKnown, CallStep
<1>3. CASE Has(Text(c.text))
  <2>1. call' = [call EXCEPT ![p] = d]
    BY <1>3 DEF ReadText, Becomes
  <2>2. IsText(old) /\ HasContent(c.text, old.content)
    BY <1>3, TextIs
  <2>3. ReadCall(c) /\ HasSlots(c.round, c.read.text, c.read.slots) /\ Owner(c.round, c.text)
    BY <1>1, Zenon DEF KnownCall, CallOK, CallSlots, CallPoints
  <2> HIDE DEF old, c
  <2>4. /\ d.pc = "tally" /\ d.round = c.round /\ d.read = c.read /\ d.text = c.text /\ d.old = old
        /\ TallyCall(d)
    BY <2>2, <2>3 DEF TallyCall, ReadCall
  <2> HIDE DEF d
  <2>5. KnownCall(d)
    BY <2>2, <2>3, <2>4 DEF KnownCall, CallOK, CallContent, CallSlots, CallPoints, Proposing
  <2>6. QED
    BY <1>1, <2>1, <2>5, CallStep
<1>4. QED
  BY <1>2, <1>3

LEMMA TallyInv ==
  ASSUME RoundsInv, NEW p \in Proc, Tally(p)
  PROVE  StepOK
<1> DEFINE c == call[p]
<1>1. c.pc = "tally" /\ KnownCall(c) /\ db' = db /\ ops' = ops /\ nextID' = nextID
  BY OwnCallIsKnown DEF Tally, At
<1>2. call' = [call EXCEPT ![p] = Idle] \/ \E w : call' = [call EXCEPT ![p] = [c EXCEPT !.winners = w]]
  <2>1. CASE Becomes(p, Idle)
    BY <2>1 DEF Becomes
  <2>2. CASE \E f : Becomes(p, [c EXCEPT !.winners = Append(@, db[Fragment(f)].content)])
    BY <2>2, Zenon DEF Becomes
  <2>3. QED
    BY <2>1, <2>2, Zenon DEF Tally
<1>3. ASSUME NEW w PROVE KnownCall([c EXCEPT !.winners = w])
  <2> DEFINE d == [c EXCEPT !.winners = w]
  <2>1. /\ TallyCall(c) /\ HasSlots(c.round, c.read.text, c.read.slots)
        /\ HasContent(c.text, c.old.content) /\ Owner(c.round, c.text)
    BY <1>1, Zenon DEF KnownCall, CallOK, CallSlots, CallContent, CallPoints
  <2>2. c.pc = "tally"
    BY <1>1
  <2> HIDE DEF c
  <2>3. /\ d.pc = "tally" /\ d.round = c.round /\ d.read = c.read /\ d.text = c.text /\ d.old = c.old
    BY <2>1, <2>2 DEF TallyCall
  <2>4. d \in [pc : {d.pc}, user : {d.user}, text : {d.text}, round : {d.round}, read : {d.read},
               old : {d.old}, winners : {d.winners}]
    BY <2>1 DEF TallyCall
  <2> HIDE DEF d
  <2>5. TallyCall(d)
    BY <2>1, <2>3, <2>4 DEF TallyCall
  <2>6. KnownCall(d)
    BY <2>1, <2>3, <2>5 DEF KnownCall, CallOK, CallContent, CallSlots, CallPoints, Proposing
  <2>7. QED
    BY <2>6 DEF d
<1>4. QED
  BY <1>1, <1>2, <1>3, IdleIsKnown, CallStep

LEMMA NextCascadeInv ==
  ASSUME RoundsInv, NEW p \in Proc, NextCascade(p)
  PROVE  StepOK
<1> DEFINE c == call[p]
           d == [c EXCEPT !.pc = "collect", !.scans = Head(c.then), !.then = Tail(c.then)]
<1>1. c.pc = "next" /\ db' = db /\ ops' = ops /\ nextID' = nextID /\ DeleteCall(c)
  BY SameCall DEF NextCascade, At, CallOK
<1>2. call' = [call EXCEPT ![p] = Idle] \/ call' = [call EXCEPT ![p] = d]
  BY DEF NextCascade, Becomes
<1>3. KnownCall(d)
  <2>1. d.pc = "collect" /\ d.batch = c.batch
    BY <1>1 DEF DeleteCall
  <2>2. d \in [pc : {d.pc}, user : {d.user}, target : {d.target}, batch : {d.batch},
               scans : {d.scans}, then : {d.then}]
    BY <1>1 DEF DeleteCall
  <2>3. Erases(c.batch)
    BY <1>1 DEF DeleteCall
  <2> HIDE DEF d
  <2>4. DeleteCall(d)
    BY <2>1, <2>2, <2>3 DEF DeleteCall
  <2>5. QED
    BY <2>1, <2>4, DeleteCallIsKnown
<1> HIDE DEF d
<1>4. QED
  BY <1>1, <1>2, <1>3, IdleIsKnown, CallStep

LEMMA TickInv ==
  ASSUME RoundsInv, UNCHANGED <<db, call, ops, nextID>>
  PROVE  StepOK
<1>1. nextID \in Nat /\ nextID' = nextID
  BY DEF RoundsInv, ShapesOK
<1>2. RoundsInv'
  BY DEF RoundsInv, ShapesOK, RecordsOK, ContentsOK, OwnersOK, RoundsOK, Owner, Points, HasSlots, HasContent,
         Written, Stored, Id
<1>3. Keeps
  BY <1>1 DEF Keeps, Owner, Points, HasSlots, HasContent, Written, Stored
<1>4. QED
  BY <1>2, <1>3 DEF StepOK

LEMMA FoundIsFinite ==
  ASSUME RoundsInv, NEW scan
  PROVE  IsFiniteSet(Found(scan))
<1>1. Found(scan) \subseteq DOMAIN db
  BY DEF Found, KeysOf, Has
<1>2. QED
  BY <1>1, FS_Subset DEF RoundsInv, ShapesOK

LEMMA CollectInv ==
  ASSUME RoundsInv, NEW p \in Proc, Collect(p)
  PROVE  StepOK
<1> DEFINE c == call[p]
           scan == Head(c.scans)
<1>1. c.pc = "collect" /\ db' = db /\ nextID' = nextID /\ DeleteCall(c) /\ ops[p] = <<>>
  BY SameCall DEF Collect, At, CallOK
<1>2. PICK keys \in SetToSeqs(Found(scan)) :
        LET batch == c.batch \o OpsBefore(scan) \o Each(keys, LAMBDA k : OpsFor(scan, k))
            scans == ScansFor(scan, keys) \o Tail(c.scans)
            after == IF c.target \in User THEN "next" ELSE "deleted"
        IN  IF scans = <<>>
              THEN /\ ops' = [ops EXCEPT ![p] = batch]
                   /\ Becomes(p, [c EXCEPT !.pc = after, !.batch = <<>>, !.scans = <<>>])
              ELSE /\ Becomes(p, [c EXCEPT !.batch = batch, !.scans = scans])
                   /\ UNCHANGED ops
  BY Zenon DEF Collect
<1> DEFINE each == Each(keys, LAMBDA k : OpsFor(scan, k))
           batch == c.batch \o OpsBefore(scan) \o each
           scans == ScansFor(scan, keys) \o Tail(c.scans)
           after == IF c.target \in User THEN "next" ELSE "deleted"
           last == [c EXCEPT !.pc = after, !.batch = <<>>, !.scans = <<>>]
           more == [c EXCEPT !.batch = batch, !.scans = scans]
<1>3. IsSeq(keys)
  BY FoundIsFinite, SetToSeqsAre DEF IsSeq
<1>4. Erases(each)
  <2> HIDE DEF scan
  <2>1. QED
    BY <1>3, OpsForErase DEF Each
<1> HIDE DEF each
<1>5. Erases(batch)
  <2>1. Erases(c.batch) /\ Erases(OpsBefore(scan))
    BY <1>1, OpsBeforeErase DEF DeleteCall
  <2>2. Erases(c.batch \o OpsBefore(scan))
    BY <2>1, ConcatIs DEF Erases
  <2>3. QED
    BY <1>4, <2>2, ConcatIs DEF Erases
<1>6. \/ call' = [call EXCEPT ![p] = last] /\ ops' = [ops EXCEPT ![p] = batch]
      \/ call' = [call EXCEPT ![p] = more] /\ ops' = ops
  BY <1>2, Zenon DEF Becomes, each
<1> HIDE DEF batch, scans
<1>7. CASE call' = [call EXCEPT ![p] = last] /\ ops' = [ops EXCEPT ![p] = batch]
  <2>1. last.pc \in {"collect", "next", "deleted"} /\ last.batch = <<>>
    BY <1>1 DEF DeleteCall
  <2>2. last \in [pc : {last.pc}, user : {last.user}, target : {last.target}, batch : {last.batch},
                  scans : {last.scans}, then : {last.then}]
    BY <1>1 DEF DeleteCall
  <2> HIDE DEF last
  <2>3. DeleteCall(last)
    BY <2>1, <2>2, EmptyIsSeq DEF DeleteCall, Erases
  <2>4. KnownCall(last)
    BY <2>1, <2>3, DeleteCallIsKnown
  <2>5. Local(p, last, batch)
    BY <1>1, <1>7 DEF Local
  <2>6. QED
    BY <1>1, <1>5, <2>4, <2>5, ErasesIsMild, ArrivesIs, MildStep
<1>8. CASE call' = [call EXCEPT ![p] = more] /\ ops' = ops
  <2>1. more.pc = "collect" /\ more.batch = batch
    BY <1>1 DEF DeleteCall
  <2>2. more \in [pc : {more.pc}, user : {more.user}, target : {more.target}, batch : {more.batch},
                  scans : {more.scans}, then : {more.then}]
    BY <1>1 DEF DeleteCall
  <2> HIDE DEF more
  <2>3. DeleteCall(more)
    BY <1>5, <2>1, <2>2 DEF DeleteCall
  <2>4. KnownCall(more)
    BY <2>1, <2>3, DeleteCallIsKnown
  <2>5. QED
    BY <1>1, <1>8, <2>4, CallStep
<1>9. QED
  BY <1>6, <1>7, <1>8

-----------------------------------------------------------------------------
(* The steps that open rounds and slots.                                   *)

\* A round without slots, as it is opened.
Opened(t, number) == [text |-> t, number |-> number, status |-> "open", slots |-> <<>>, scheduled |-> FALSE]

LEMMA OpenRoundOpsAre ==
  ASSUME NEW t, NEW r, NEW number
  PROVE  LET b == OpenRoundOps(t, r, number)
         IN  /\ BatchOK(b)
             /\ \A u, v : ~Puts(b, Text(u), v)
             /\ \A q, v : Puts(b, Round(q), v) => q = r /\ v.text = t /\ v.slots = <<>>
             /\ \A q, u : Puts(b, CurrentRound(u), q) => q = r /\ u = t
<1> DEFINE v0 == Opened(t, number)
           w == Put(Round(r), v0)
           x == Put(CurrentRound(t), r)
           y == Put(RoundCount(t), number)
           z == Put(RoundIndex(t, r), r)
           b == << w, x, y, z >>
<1>1. OpenRoundOps(t, r, number) = b
  BY DEF OpenRoundOps, Opened
<1>2. v0.text = t /\ v0.slots = <<>> /\ IsRound(v0)
  BY DEF IsRound, Opened
<1> HIDE DEF v0
<1>3. IsSeq(b) /\ \A k, v : Puts(b, k, v) => IsPut(w, k, v) \/ IsPut(x, k, v) \/ IsPut(y, k, v) \/ IsPut(z, k, v)
  BY QuadrupleIs
<1> HIDE DEF b
<1>4. \A k, v : Puts(b, k, v) => \/ k = Round(r) /\ v = v0
                                 \/ k = CurrentRound(t) /\ v = r
                                 \/ k = RoundCount(t)
                                 \/ k = RoundIndex(t, r)
  BY <1>3, PutIs
<1>5. /\ \A u : Text(u)[1] = "text" /\ Round(u)[1] = "round" /\ CurrentRound(u)[1] = "currentround"
      /\ \A u : Round(u)[2] = u /\ CurrentRound(u)[2] = u
      /\ RoundCount(t)[1] = "roundcount" /\ RoundIndex(t, r)[1] = "roundindex"
  BY DEF Text, Round, CurrentRound, RoundCount, RoundIndex
<1>6. \A k, v : Puts(b, k, v) => RecordOK(k, v)
  <2> TAKE k, v
  <2> HAVE Puts(b, k, v)
  <2>1. CASE k = Round(r) /\ v = v0
    BY <1>2, <1>5, <2>1 DEF RecordOK
  <2>2. CASE k = CurrentRound(t) \/ k = RoundCount(t) \/ k = RoundIndex(t, r)
    BY <1>5, <2>2 DEF RecordOK
  <2>3. QED
    BY <1>4, <2>1, <2>2
<1>7. \A u, v : ~Puts(b, Text(u), v)
  BY <1>4, <1>5
<1>8. \A q, v : Puts(b, Round(q), v) => q = r /\ v = v0
  BY <1>4, <1>5
<1>9. \A q, u : Puts(b, CurrentRound(u), q) => q = r /\ u = t
  BY <1>4, <1>5
<1>10. QED
  BY <1>1, <1>2, <1>3, <1>6, <1>7, <1>8, <1>9 DEF BatchOK

\* A proposal opens a round on a text that has none.
LEMMA OpenRoundInv ==
  ASSUME RoundsInv, NEW p \in Proc, OpenRound(p)
  PROVE  StepOK
<1> DEFINE c == call[p]
           t == c.text
           number == IF Has(RoundCount(t)) THEN db[RoundCount(t)] + 1 ELSE 1
           d == [c EXCEPT !.pc = "opened", !.round = nextID, !.number = number]
           b == OpenRoundOps(t, nextID, number)
<1>1. c.pc = "count" /\ KnownCall(c) /\ nextID' = nextID + 1 /\ Local(p, d, b)
  BY OwnCallIsKnown DEF OpenRound, At, Becomes, Local
<1>2. ProposeCall(c) /\ HasContent(t, c.content)
  BY <1>1, Zenon DEF KnownCall, CallOK, CallContent, Proposing
<1>3. ShapesOK /\ ContentsOK /\ OwnersOK /\ RoundsOK /\ nextID \in Nat
  BY DEF RoundsInv, ShapesOK
<1>4. Id(t)
  BY <1>2, <1>3, Zenon DEF ContentsOK
<1> HIDE DEF number, c
<1>5. /\ d.pc = "opened" /\ d.round = nextID /\ d.text = t /\ d.content = c.content
      /\ d.range = c.range /\ c.range \in Proposals /\ ValidRange(c.range, c.content)
  BY <1>2 DEF ProposeCall
<1>6. d \in [pc : {"opened"}, for : {"propose"}, user : {d.user}, text : {d.text}, round : {d.round},
             content : {d.content}, range : Proposals, number : {d.number}, slot : {d.slot}]
  BY <1>2 DEF ProposeCall
<1> HIDE DEF d, t
<1>7. CallOK(d)
  BY <1>5, <1>6 DEF ProposeCall, CallOK
<1>8. /\ BatchOK(b) /\ (\A u, v : ~Puts(b, Text(u), v))
      /\ \A q, v : Puts(b, Round(q), v) => q = nextID /\ v.text = t /\ v.slots = <<>>
      /\ \A q, u : Puts(b, CurrentRound(u), q) => q = nextID /\ u = t
  BY OpenRoundOpsAre
<1> HIDE DEF b
<1>9. nextID' \in Nat /\ nextID <= nextID' /\ nextID < nextID' /\ t \in Nat /\ t < nextID'
  BY <1>1, <1>3, <1>4 DEF Id
<1>10. ShapesOK'
  BY <1>1, <1>3, <1>7, <1>8, <1>9, LocalStep
<1>11. \A u, x : HasContent(u, x)' => HasContent(u, x)
  <2> TAKE u, x
  <2> HAVE HasContent(u, x)'
  <2>1. HasContent(u, x) \/ CallContent(d, u, x)
    BY <1>1, <1>3, <1>7, <1>8, <1>9, LocalStep
  <2>2. CASE CallContent(d, u, x)
    BY <1>2, <1>5, <2>2 DEF CallContent
  <2>3. QED
    BY <2>1, <2>2
<1>12. \A r, u, s : HasSlots(r, u, s)' => HasSlots(r, u, s) \/ (r = nextID /\ u = t /\ s = <<>>)
  <2> TAKE r, u, s
  <2> HAVE HasSlots(r, u, s)'
  <2>1. \/ HasSlots(r, u, s) \/ CallSlots(d, r, u, s)
        \/ \E v : Puts(b, Round(r), v) /\ v.text = u /\ v.slots = s
    BY <1>1, <1>3, <1>7, <1>8, <1>9, LocalStep
  <2>2. ~CallSlots(d, r, u, s)
    BY <1>5 DEF CallSlots
  <2>3. QED
    BY <1>8, <2>1, <2>2
<1>13. \A r, u : Points(r, u)' => Owner(r, u) \/ (r = nextID /\ u = t)
  <2> TAKE r, u
  <2> HAVE Points(r, u)'
  <2>1. Points(r, u) \/ CallPoints(d, r, u) \/ Puts(b, CurrentRound(u), r)
    BY <1>1, <1>3, <1>7, <1>8, <1>9, LocalStep
  <2>2. CASE Points(r, u)
    BY <2>2 DEF Owner
  <2>3. CASE CallPoints(d, r, u)
    BY <1>5, <2>3 DEF CallPoints
  <2>4. QED
    BY <1>8, <2>1, <2>2, <2>3
<1>14. ContentsOK' /\ OwnersOK' /\ RoundsOK' /\ Keeps
  <2>1. nextID <= nextID
    BY <1>3
  <2>2. RoundAdded(nextID, t, 0)
    BY <1>9, <1>11, <1>12, <1>13, <2>1, Zenon DEF RoundAdded
  <2>3. QED
    BY <1>3, <1>9, <2>2, AddsRound
<1>15. QED
  BY <1>10, <1>14 DEF RoundsInv, StepOK

\* A slot that touches none of the slots s fits in beside them.
LEMMA AppendIs ==
  ASSUME NEW s, SlotsOK(s), NEW slot, slot.start \in Int, slot.end \in Int,
         \A i \in DOMAIN s : ~Touches(s[i], slot)
  PROVE  /\ SlotsOK(Append(s, slot))
         /\ \A x : Fits(s, x) /\ ValidRange(slot, x) => Fits(Append(s, slot), x)
<1>1. PICK S : s \in Seq(S)
  BY DEF SlotsOK, IsSeq
<1>2. s \in Seq(S \cup {slot})
  BY <1>1
<1> DEFINE n == Len(s)
           a == Append(s, slot)
<1>3. n \in Nat /\ DOMAIN s = 1 .. n
  BY <1>1
<1>4. /\ a \in Seq(S \cup {slot}) /\ DOMAIN a = 1 .. n + 1 /\ a[n + 1] = slot
      /\ \A i \in 1 .. n : a[i] = s[i]
  BY <1>2
<1> HIDE DEF n, a
<1>5. \A i \in DOMAIN a : (a[i] = slot /\ i = n + 1) \/ (i \in DOMAIN s /\ a[i] = s[i])
  <2> TAKE i \in DOMAIN a
  <2>1. i \in 1 .. n + 1
    BY <1>4
  <2>2. CASE i = n + 1
    BY <1>4, <2>2
  <2>3. CASE i # n + 1
    <3>1. i \in 1 .. n
      BY <1>3, <2>1, <2>3
    <3>2. QED
      BY <1>3, <1>4, <3>1
  <2>4. QED
    BY <2>2, <2>3
<1>6. IsSeq(a)
  BY <1>4 DEF IsSeq
<1>7. \A i \in DOMAIN a : a[i].start \in Int /\ a[i].end \in Int
  BY <1>5 DEF SlotsOK
<1>8. \A i \in DOMAIN s : s[i].end <= slot.start \/ slot.end <= s[i].start
  BY DEF SlotsOK, Touches
<1>9. Disjoint(a)
  <2> SUFFICES ASSUME NEW i \in DOMAIN a, NEW j \in DOMAIN a, i # j
               PROVE  a[i].end <= a[j].start \/ a[j].end <= a[i].start
    BY DEF Disjoint
  <2>1. CASE i \in DOMAIN s /\ j \in DOMAIN s
    <3>1. a[i] = s[i] /\ a[j] = s[j]
      BY <1>3, <1>4, <2>1
    <3>2. QED
      BY <2>1, <3>1 DEF SlotsOK, Disjoint
  <2>2. CASE i \notin DOMAIN s
    <3>1. a[i] = slot /\ j \in DOMAIN s /\ a[j] = s[j]
      BY <1>5, <2>2
    <3>2. QED
      BY <1>8, <3>1
  <2>3. CASE j \notin DOMAIN s
    <3>1. a[j] = slot /\ i \in DOMAIN s /\ a[i] = s[i]
      BY <1>5, <2>3
    <3>2. QED
      BY <1>8, <3>1
  <2>4. QED
    BY <2>1, <2>2, <2>3
<1>10. \A x : Fits(s, x) /\ ValidRange(slot, x) => Fits(a, x)
  BY <1>5, Zenon DEF Fits
<1>11. QED
  BY <1>6, <1>7, <1>9, <1>10 DEF SlotsOK, a

\* What opening a slot writes.
LEMMA SeedOpsAre ==
  ASSUME NEW t, NEW content, NEW range, NEW s, NEW seed, NEW r, NEW round, IsRound(round)
  PROVE  LET b == SeedOps(t, content, range, s, seed, r, round)
             slot == [id |-> s, start |-> range.start, end |-> range.end, round |-> round.number]
         IN  /\ BatchOK(b)
             /\ \A u, v : ~Puts(b, Text(u), v) /\ ~Puts(b, CurrentRound(u), v)
             /\ \A q, v : Puts(b, Round(q), v) =>
                  q = r /\ v.text = round.text /\ v.slots = Append(round.slots, slot)
<1> DEFINE slot == [id |-> s, start |-> range.start, end |-> range.end, round |-> round.number]
           v0 == [round EXCEPT !.slots = Append(@, slot)]
           f0 == [text |-> t, slot |-> s, author |-> Seed, content |-> SubSeq(content, range.start + 1, range.end)]
           w == Put(Fragment(seed), f0)
           x == Put(FragmentIndex(t, s, seed), seed)
           y == Put(Round(r), v0)
           b == << w, x, y >>
<1>1. SeedOps(t, content, range, s, seed, r, round) = b
  BY DEF SeedOps
<1> HIDE DEF slot, f0
<1>2. v0.text = round.text /\ v0.slots = Append(round.slots, slot)
  BY DEF IsRound
<1>3. IsRound(v0)
  BY DEF IsRound
<1> HIDE DEF v0
<1>4. IsSeq(b) /\ \A k, v : Puts(b, k, v) => IsPut(w, k, v) \/ IsPut(x, k, v) \/ IsPut(y, k, v)
  BY TripleIs
<1> HIDE DEF b
<1>5. \A k, v : Puts(b, k, v) => \/ k = Fragment(seed)
                                 \/ k = FragmentIndex(t, s, seed)
                                 \/ k = Round(r) /\ v = v0
  BY <1>4, PutIs
<1>6. /\ \A u : Text(u)[1] = "text" /\ Round(u)[1] = "round" /\ CurrentRound(u)[1] = "currentround"
      /\ \A u : Round(u)[2] = u
      /\ Fragment(seed)[1] = "fragment" /\ FragmentIndex(t, s, seed)[1] = "fragmentindex"
  BY DEF Text, Round, CurrentRound, Fragment, FragmentIndex
<1>7. \A k, v : Puts(b, k, v) => RecordOK(k, v)
  <2> TAKE k, v
  <2> HAVE Puts(b, k, v)
  <2>1. CASE k = Round(r) /\ v = v0
    BY <1>3, <1>6, <2>1 DEF RecordOK
  <2>2. CASE k = Fragment(seed) \/ k = FragmentIndex(t, s, seed)
    BY <1>6, <2>2 DEF RecordOK
  <2>3. QED
    BY <1>5, <2>1, <2>2
<1>8. \A u, v : ~Puts(b, Text(u), v) /\ ~Puts(b, CurrentRound(u), v)
  BY <1>5, <1>6
<1>9. \A q, v : Puts(b, Round(q), v) => q = r /\ v = v0
  BY <1>5, <1>6
<1>10. QED
  BY <1>1, <1>2, <1>4, <1>7, <1>8, <1>9 DEF BatchOK, slot

\* The slots of round r as a proposal knows them, and its text.
LEMMA ResolveSlotInv ==
  ASSUME RoundsInv, NEW p \in Proc, ProposeCall(call[p]), HasContent(call[p].text, call[p].content),
         NEW r, Owner(r, call[p].text), NEW round, IsRound(round), round.text = call[p].text,
         SlotsOK(round.slots), \A x : HasContent(call[p].text, x) => Fits(round.slots, x),
         ResolveSlot(p, r, round), db' = db
  PROVE  StepOK
<1> DEFINE c == call[p]
           t == c.text
           range == c.range
           touched == {i \in DOMAIN round.slots : Touches(round.slots[i], range)}
           slot == [id |-> nextID, start |-> range.start, end |-> range.end, round |-> round.number]
           s0 == Append(round.slots, slot)
           d == [c EXCEPT !.pc = "seeded", !.round = r, !.slot = nextID]
           b == SeedOps(t, c.content, range, nextID, nextID + 1, r, round)
<1>1. ShapesOK /\ ContentsOK /\ OwnersOK /\ RoundsOK /\ nextID \in Nat
  BY DEF RoundsInv, ShapesOK
<1>2. CASE touched = {} /\ nextID' = nextID + 2 /\ ops' = [ops EXCEPT ![p] = b]
           /\ call' = [call EXCEPT ![p] = d]
  <2>1. Local(p, d, b) /\ nextID' \in Nat /\ nextID <= nextID'
    BY <1>1, <1>2 DEF Local
  <2>2. /\ range \in Proposals /\ ValidRange(range, c.content)
        /\ range.start \in Int /\ range.end \in Int
    BY ProposalsAssumption DEF ProposeCall
  <2>3. \A i \in DOMAIN round.slots : ~Touches(round.slots[i], range)
    BY <1>2
  <2>4. /\ BatchOK(b)
        /\ \A u, v : ~Puts(b, Text(u), v) /\ ~Puts(b, CurrentRound(u), v)
        /\ \A q, v : Puts(b, Round(q), v) => q = r /\ v.text = t /\ v.slots = s0
    BY SeedOpsAre
  <2> HIDE DEF b, c
  <2>5. d.pc = "seeded" /\ d.content = c.content /\ d.range = range
    BY DEF ProposeCall, c
  <2>6. d \in [pc : {"seeded"}, for : {"propose"}, user : {d.user}, text : {d.text}, round : {d.round},
               content : {d.content}, range : Proposals, number : {d.number}, slot : {d.slot}]
    BY DEF ProposeCall, c
  <2> HIDE DEF d, range, t
  <2>7. CallOK(d)
    BY <2>2, <2>5, <2>6 DEF ProposeCall, CallOK
  <2>8. /\ slot.start = range.start /\ slot.end = range.end
    OBVIOUS
  <2> HIDE DEF slot
  <2>9. \A i \in DOMAIN round.slots : ~Touches(round.slots[i], slot)
    BY <2>3, <2>8 DEF Touches
  <2>10. /\ SlotsOK(s0)
         /\ \A x : Fits(round.slots, x) /\ ValidRange(slot, x) => Fits(s0, x)
    BY <2>2, <2>8, <2>9, AppendIs
  <2> HIDE DEF s0
  <2>11. HasContent(t, c.content) /\ Owner(r, t) /\ \A x : HasContent(t, x) => Fits(round.slots, x)
    BY DEF t, c
  <2>12. \A x : HasContent(t, x) => Fits(s0, x)
    <3> TAKE x
    <3> HAVE HasContent(t, x)
    <3>1. x = c.content
      BY <1>1, <2>11 DEF ContentsOK
    <3>2. ValidRange(slot, x)
      BY <2>2, <2>8, <3>1 DEF ValidRange
    <3>3. QED
      BY <2>10, <2>11, <3>2
  <2>13. ShapesOK'
    BY <1>1, <2>1, <2>4, <2>7, LocalStep
  <2>14. \A u, x : HasContent(u, x)' => HasContent(u, x)
    <3> TAKE u, x
    <3> HAVE HasContent(u, x)'
    <3>1. HasContent(u, x) \/ CallContent(d, u, x)
      BY <1>1, <2>1, <2>4, <2>7, LocalStep
    <3>2. ~CallContent(d, u, x)
      BY <2>5 DEF CallContent, Proposing
    <3>3. QED
      BY <3>1, <3>2
  <2>15. \A q, u, s : HasSlots(q, u, s)' => HasSlots(q, u, s) \/ (q = r /\ u = t /\ s = s0)
    <3> TAKE q, u, s
    <3> HAVE HasSlots(q, u, s)'
    <3>1. \/ HasSlots(q, u, s) \/ CallSlots(d, q, u, s)
          \/ \E v : Puts(b, Round(q), v) /\ v.text = u /\ v.slots = s
      BY <1>1, <2>1, <2>4, <2>7, LocalStep
    <3>2. ~CallSlots(d, q, u, s)
      BY <2>5 DEF CallSlots
    <3>3. QED
      BY <2>4, <3>1, <3>2
  <2>16. \A q, u : Points(q, u)' => Owner(q, u)
    <3> TAKE q, u
    <3> HAVE Points(q, u)'
    <3>1. Points(q, u) \/ CallPoints(d, q, u)
      BY <1>1, <2>1, <2>4, <2>7, LocalStep
    <3>2. ~CallPoints(d, q, u)
      BY <2>5 DEF CallPoints
    <3>3. QED
      BY <3>1, <3>2 DEF Owner
  <2>17. SlotsAdded(r, t, s0)
    BY <2>10, <2>11, <2>12, <2>14, <2>15, <2>16, Zenon DEF SlotsAdded
  <2>18. ContentsOK' /\ OwnersOK' /\ RoundsOK' /\ Keeps
    BY <1>1, <2>1, <2>17, AddsSlots
  <2>19. QED
    BY <2>13, <2>18 DEF RoundsInv, StepOK
<1>3. ASSUME NEW s, AddFragment(p, s, nextID)
      PROVE  StepOK
  <2>1. nextID \in Nat /\ nextID <= nextID
    BY <1>1
  <2>2. QED
    BY <1>3, <2>1, AddFragmentInv
<1>4. CASE Ends(p) /\ nextID' = nextID
  BY <1>4, IdleIsKnown, CallStep DEF Ends, Becomes
<1>5. QED
  BY <1>2, <1>3, <1>4 DEF ResolveSlot, Becomes

LEMMA ResolveCurrentInv ==
  ASSUME RoundsInv, NEW p \in Proc, ResolveCurrent(p)
  PROVE  StepOK
<1> DEFINE c == call[p]
           r == c.round
           round == db[Round(r)]
<1>1. /\ c.pc = "round" /\ c.for = "propose" /\ Has(Round(r)) /\ KnownCall(c)
      /\ db' = db /\ ResolveSlot(p, r, round)
  BY OwnCallIsKnown DEF ResolveCurrent, AtRound, At
<1>2. ProposeCall(c)
  BY <1>1 DEF KnownCall, CallOK, RoundCall
<1>3. HasContent(c.text, c.content) /\ Owner(r, c.text)
  BY <1>1, Zenon DEF KnownCall, CallContent, CallPoints, Proposing
<1>4. IsRound(round) /\ HasSlots(r, round.text, round.slots)
  BY <1>1, RoundIs
<1>5. Owner(r, round.text)
  BY <1>4, Zenon DEF Owner
<1>6. round.text = c.text
  BY <1>3, <1>5, Zenon DEF RoundsInv, OwnersOK
<1>7. SlotsOK(round.slots) /\ \A x : HasContent(round.text, x) => Fits(round.slots, x)
  BY <1>4, Zenon DEF RoundsInv, RoundsOK
<1> HIDE DEF round, r
<1>8. QED
  BY <1>1, <1>2, <1>3, <1>4, <1>6, <1>7, ResolveSlotInv

LEMMA ResolveOpenedInv ==
  ASSUME RoundsInv, NEW p \in Proc, ResolveOpened(p)
  PROVE  StepOK
<1> DEFINE c == call[p]
           round == Opened(c.text, c.number)
<1>1. c.pc = "opened" /\ KnownCall(c) /\ db' = db /\ ResolveSlot(p, c.round, round)
  BY OwnCallIsKnown DEF ResolveOpened, At, Opened
<1>2. ProposeCall(c)
  BY <1>1 DEF KnownCall, CallOK
<1>3. HasContent(c.text, c.content) /\ Owner(c.round, c.text)
  BY <1>1, Zenon DEF KnownCall, CallContent, CallPoints, Proposing
<1>4. IsRound(round) /\ round.text = c.text /\ round.slots = <<>>
  BY DEF Opened, IsRound
<1>5. SlotsOK(<<>>) /\ \A x : Fits(<<>>, x)
  BY EmptyIsSeq DEF SlotsOK, Disjoint, Fits
<1> HIDE DEF round
<1>6. QED
  BY <1>1, <1>2, <1>3, <1>4, <1>5, ResolveSlotInv

\* A batch that writes a new text with the content x, and its first round.
ForksTo(b, x) ==
  /\ BatchOK(b)
  /\ \A u, v : Puts(b, Text(u), v) => u = nextID /\ v.content = x
  /\ \A r, v : Puts(b, Round(r), v) =>
       \/ HasSlots(r, v.text, v.slots)
       \/ r = nextID + 1 /\ v.text = nextID /\ v.slots = <<>>
  /\ \A r, u : Puts(b, CurrentRound(u), r) => r = nextID + 1 /\ u = nextID

LEMMA ForksToConcat ==
  ASSUME NEW a, NEW b, NEW x, ForksTo(a, x), ForksTo(b, x)
  PROVE  ForksTo(a \o b, x)
<1>1. IsSeq(a) /\ IsSeq(b)
  BY DEF ForksTo, BatchOK
<1> DEFINE c == a \o b
<1>2. IsSeq(c) /\ \A k, v : Puts(c, k, v) => Puts(a, k, v) \/ Puts(b, k, v)
  BY <1>1, ConcatIs
<1> HIDE DEF c
<1>3. BatchOK(c)
  BY <1>2, Zenon DEF ForksTo, BatchOK
<1>4. \A u, v : Puts(c, Text(u), v) => u = nextID /\ v.content = x
  BY <1>2, Zenon DEF ForksTo
<1>5. \A r, v : Puts(c, Round(r), v) =>
        HasSlots(r, v.text, v.slots) \/ (r = nextID + 1 /\ v.text = nextID /\ v.slots = <<>>)
  BY <1>2, Zenon DEF ForksTo
<1>6. \A r, u : Puts(c, CurrentRound(u), r) => r = nextID + 1 /\ u = nextID
  BY <1>2, Zenon DEF ForksTo
<1>7. QED
  BY <1>3, <1>4, <1>5, <1>6 DEF ForksTo, c

LEMMA MildForks ==
  ASSUME NEW b, Mild(b), NEW x
  PROVE  ForksTo(b, x)
BY MildIs, Zenon DEF ForksTo, KnownBatch

LEMMA OpenRoundForks ==
  ASSUME NEW number, NEW x
  PROVE  ForksTo(OpenRoundOps(nextID, nextID + 1, number), x)
<1> DEFINE b == OpenRoundOps(nextID, nextID + 1, number)
<1>1. /\ BatchOK(b) /\ (\A u, v : ~Puts(b, Text(u), v))
      /\ \A q, v : Puts(b, Round(q), v) => q = nextID + 1 /\ v.text = nextID /\ v.slots = <<>>
      /\ \A q, u : Puts(b, CurrentRound(u), q) => q = nextID + 1 /\ u = nextID
  BY OpenRoundOpsAre
<1> HIDE DEF b
<1>2. ForksTo(b, x)
  BY <1>1, Zenon DEF ForksTo
<1>3. QED
  BY <1>2 DEF b

LEMMA ForkStep ==
  ASSUME RoundsInv, NEW p \in Proc, NEW d, d.pc \notin Talking, NEW b, NEW x0, ForksTo(b, x0),
         Local(p, d, b), nextID' = nextID + 2
  PROVE  StepOK
<1>1. ShapesOK /\ ContentsOK /\ OwnersOK /\ RoundsOK /\ nextID \in Nat
  BY DEF RoundsInv, ShapesOK
<1>2. /\ CallOK(d) /\ (\A t, x : ~CallContent(d, t, x)) /\ (\A r, t, s : ~CallSlots(d, r, t, s))
      /\ \A r, t : ~CallPoints(d, r, t)
  BY DEF Talking, CallOK, CallContent, CallSlots, CallPoints, Proposing
<1>3. /\ nextID' \in Nat /\ nextID <= nextID' /\ nextID + 1 \in Nat
      /\ nextID <= nextID + 1 /\ nextID + 1 < nextID' /\ nextID < nextID' /\ nextID <= nextID
  BY <1>1
<1>4. BatchOK(b)
  BY DEF ForksTo
<1>5. ShapesOK'
  BY <1>1, <1>2, <1>3, <1>4, LocalStep
<1>6. \A t, x : HasContent(t, x)' => HasContent(t, x) \/ (t = nextID /\ x = x0 /\ nextID <= nextID)
  <2> TAKE t, x
  <2> HAVE HasContent(t, x)'
  <2>1. HasContent(t, x) \/ \E v : Puts(b, Text(t), v) /\ v.content = x
    BY <1>1, <1>2, <1>3, <1>4, LocalStep
  <2>2. QED
    BY <1>3, <2>1, Zenon DEF ForksTo
<1>7. \A r, t, s : HasSlots(r, t, s)' => HasSlots(r, t, s) \/ (r = nextID + 1 /\ t = nextID /\ s = <<>>)
  <2> TAKE r, t, s
  <2> HAVE HasSlots(r, t, s)'
  <2>1. HasSlots(r, t, s) \/ \E v : Puts(b, Round(r), v) /\ v.text = t /\ v.slots = s
    BY <1>1, <1>2, <1>3, <1>4, LocalStep
  <2>2. QED
    BY <2>1, Zenon DEF ForksTo
<1>8. \A r, t : Points(r, t)' => Owner(r, t) \/ (r = nextID + 1 /\ t = nextID)
  <2> TAKE r, t
  <2> HAVE Points(r, t)'
  <2>1. Points(r, t) \/ Puts(b, CurrentRound(t), r)
    BY <1>1, <1>2, <1>3, <1>4, LocalStep
  <2>2. QED
    BY <2>1, Zenon DEF ForksTo, Owner
<1>9. RoundAdded(nextID + 1, nextID, x0)
  BY <1>3, <1>6, <1>7, <1>8, Zenon DEF RoundAdded
<1>10. ContentsOK' /\ OwnersOK' /\ RoundsOK' /\ Keeps
  BY <1>1, <1>3, <1>9, AddsRound
<1>11. QED
  BY <1>5, <1>10 DEF RoundsInv, StepOK

LEMMA CreateTextInv ==
  ASSUME RoundsInv, NEW p \in Proc, NEW u, NEW tags \in TagSets, CreateText(p, u, tags)
  PROVE  StepOK
<1> DEFINE t == nextID
           x0 == Typed(t, Length)
           v0 == [content |-> x0, previous |-> 0, createdBy |-> u, tags |-> tags]
           w == Put(Text(t), v0)
           x == Put(Subscription(t, u), u)
           y == Put(SubscriptionIndex(u, t), t)
           a == << w, x, y >>
           o == OpenRoundOps(t, t + 1, 1)
           g == TagOps(t, tags)
           d == [pc |-> "created", user |-> u]
<1>1. Local(p, d, a \o o \o g) /\ nextID' = nextID + 2
  BY DEF CreateText, Becomes, Local
<1>2. d.pc \notin Talking
  BY DEF Talking
<1> HIDE DEF d, x0
<1>3. v0.content = x0 /\ IsText(v0)
  <2>1. IsFiniteSet(tags)
    BY TagsAssumption
  <2>2. QED
    BY <2>1 DEF IsText
<1> HIDE DEF v0
<1>4. IsSeq(a) /\ \A k, v : Puts(a, k, v) => IsPut(w, k, v) \/ IsPut(x, k, v) \/ IsPut(y, k, v)
  BY TripleIs
<1> HIDE DEF a
<1>5. \A k, v : Puts(a, k, v) => \/ k = Text(t) /\ v = v0
                                 \/ k = Subscription(t, u)
                                 \/ k = SubscriptionIndex(u, t)
  BY <1>4, PutIs
<1>6. /\ \A i : Text(i)[1] = "text" /\ Round(i)[1] = "round" /\ CurrentRound(i)[1] = "currentround"
      /\ \A i : Text(i)[2] = i
      /\ Subscription(t, u)[1] = "subscription" /\ SubscriptionIndex(u, t)[1] = "subscriptionindex"
  BY DEF Text, Round, CurrentRound, Subscription, SubscriptionIndex
<1>7. \A k, v : Puts(a, k, v) => RecordOK(k, v)
  <2> TAKE k, v
  <2> HAVE Puts(a, k, v)
  <2>1. CASE k = Text(t) /\ v = v0
    BY <1>3, <1>6, <2>1 DEF RecordOK
  <2>2. CASE k = Subscription(t, u) \/ k = SubscriptionIndex(u, t)
    BY <1>6, <2>2 DEF RecordOK
  <2>3. QED
    BY <1>5, <2>1, <2>2
<1>8. \A i, v : Puts(a, Text(i), v) => i = t /\ v.content = x0
  BY <1>3, <1>5, <1>6
<1>9. \A i, v : ~Puts(a, Round(i), v) /\ ~Puts(a, CurrentRound(i), v)
  BY <1>5, <1>6
<1>10. ForksTo(a, x0)
  BY <1>4, <1>7, <1>8, <1>9, Zenon DEF ForksTo, BatchOK
<1>11. ForksTo(o, x0)
  BY OpenRoundForks
<1>12. ForksTo(g, x0)
  BY TagsAssumption, TagOpsAreMild, MildForks
<1> HIDE DEF o, g
<1>13. ForksTo(a \o o \o g, x0)
  BY <1>10, <1>11, <1>12, ForksToConcat
<1> DEFINE b == a \o o \o g
<1> HIDE DEF b
<1>14. Local(p, d, b) /\ ForksTo(b, x0)
  BY <1>1, <1>13 DEF b
<1>15. QED
  BY <1>1, <1>2, <1>14, ForkStep

\* The users that a scan of the subscriptions finds, in an order.
LEMMA SubscribersAre ==
  ASSUME RoundsInv, NEW t, NEW users \in SetToSeqs(Subscribers(t))
  PROVE  IsSeq(users)
<1> DEFINE K == {k \in KeysOf("subscription") : k[2] = t}
<1>1. K \subseteq DOMAIN db
  BY DEF KeysOf
<1>2. IsFiniteSet(K)
  BY <1>1, FS_Subset DEF RoundsInv, ShapesOK
<1> HIDE DEF K
<1>3. IsFiniteSet({k[3] : k \in K})
  <2> DEFINE f == [k \in K |-> k[3]]
             T == {k[3] : k \in K}
  <2>1. f \in [K -> T] /\ \A x \in T : \E k \in K : f[k] = x
    OBVIOUS
  <2> HIDE DEF f, T
  <2>2. f \in Surjection(K, T)
    BY <2>1 DEF Surjection
  <2>3. IsFiniteSet(T)
    BY <1>2, <2>2, FS_Surjection
  <2>4. QED
    BY <2>3 DEF T
<1>4. IsFiniteSet(Subscribers(t))
  BY <1>3 DEF Subscribers, K
<1>5. QED
  BY <1>4, SetToSeqsAre DEF IsSeq

LEMMA ForkInv ==
  ASSUME RoundsInv, NEW p \in Proc, Fork(p)
  PROVE  StepOK
<1> DEFINE c == call[p]
           t == c.text
           new == nextID
           x0 == SpliceContent(c.old.content, c.read.slots, WinningContent(c))
           v0 == [c.old EXCEPT !.previous = t, !.content = x0]
           r0 == [c.read EXCEPT !.status = "closed"]
           w == Put(Text(new), v0)
           x == Put(Round(c.round), r0)
           y == Delete(CurrentRound(t))
           z == Put(SupersededBy(t), new)
           a == << w, x, y, z >>
           o == OpenRoundOps(new, new + 1, c.read.number + 1)
           g == MoveTagOps(c.old.tags, t, new)
           d == [c EXCEPT !.pc = "closed"]
<1>1. c.pc = "tally" /\ KnownCall(c) /\ nextID' = nextID + 2 /\ db' = db
  BY OwnCallIsKnown DEF Fork, At
<1>2. TallyCall(c) /\ HasSlots(c.round, c.read.text, c.read.slots)
  BY <1>1, Zenon DEF KnownCall, CallOK, CallSlots
<1>3. PICK users \in SetToSeqs(Subscribers(t)) :
        WriteBatch(p, "closed",
          << Put(Text(new), [c.old EXCEPT !.previous = t,
                               !.content = SpliceContent(@, c.read.slots, WinningContent(c))]),
             x, y, z >> \o o \o g \o MoveSubscriptionOps(users, t, new))
  BY DEF Fork, NextRoundOps
<1> DEFINE m == MoveSubscriptionOps(users, t, new)
<1>4. Local(p, d, a \o o \o g \o m)
  BY <1>1, <1>2, <1>3 DEF WriteBatch, Local, TallyCall, IsText
<1>5. d.pc = "closed"
  BY <1>2 DEF TallyCall
<1>6. d.pc \notin Talking
  BY <1>5 DEF Talking
<1>7. Mild(m)
  BY SubscribersAre, MoveSubscriptionOpsAreMild
<1>8. Mild(g)
  BY <1>2, MoveTagOpsAreMild DEF TallyCall, IsText
<1> HIDE DEF d, x0, m, g, c
<1>9. v0.content = x0 /\ IsText(v0)
  <2>1. IsText(c.old)
    BY <1>2 DEF TallyCall
  <2>2. v0.content = x0 /\ v0.tags = c.old.tags
    BY <2>1 DEF IsText
  <2>3. v0 \in [content : {v0.content}, previous : {v0.previous}, createdBy : {v0.createdBy}, tags : {v0.tags}]
    BY <2>1 DEF IsText
  <2> HIDE DEF v0
  <2>4. QED
    BY <2>1, <2>2, <2>3 DEF IsText
<1>10. r0.text = c.read.text /\ r0.slots = c.read.slots /\ IsRound(r0)
  <2>1. IsRound(c.read)
    BY <1>2 DEF TallyCall
  <2>2. QED
    BY <2>1 DEF IsRound
<1> HIDE DEF v0, r0
<1>11. /\ IsSeq(a)
       /\ \A k, v : Puts(a, k, v) => IsPut(w, k, v) \/ IsPut(x, k, v) \/ IsPut(y, k, v) \/ IsPut(z, k, v)
  BY QuadrupleIs
<1> HIDE DEF a
<1>12. \A k, v : Puts(a, k, v) => \/ k = Text(new) /\ v = v0
                                  \/ k = Round(c.round) /\ v = r0
                                  \/ k = SupersededBy(t)
  BY <1>11, PutIs
<1>13. /\ \A i : Text(i)[1] = "text" /\ Round(i)[1] = "round" /\ CurrentRound(i)[1] = "currentround"
       /\ \A i : Text(i)[2] = i /\ Round(i)[2] = i
       /\ SupersededBy(t)[1] = "supersededby"
  BY DEF Text, Round, CurrentRound, SupersededBy
<1>14. \A k, v : Puts(a, k, v) => RecordOK(k, v)
  <2> TAKE k, v
  <2> HAVE Puts(a, k, v)
  <2>1. CASE k = Text(new) /\ v = v0
    BY <1>9, <1>13, <2>1 DEF RecordOK
  <2>2. CASE k = Round(c.round) /\ v = r0
    BY <1>10, <1>13, <2>2 DEF RecordOK
  <2>3. CASE k = SupersededBy(t)
    BY <1>13, <2>3 DEF RecordOK
  <2>4. QED
    BY <1>12, <2>1, <2>2, <2>3
<1>15. \A i, v : Puts(a, Text(i), v) => i = new /\ v.content = x0
  BY <1>9, <1>12, <1>13
<1>16. \A i, v : Puts(a, Round(i), v) => HasSlots(i, v.text, v.slots)
  BY <1>2, <1>10, <1>12, <1>13
<1>17. \A i, v : ~Puts(a, CurrentRound(i), v)
  BY <1>12, <1>13
<1>18. ForksTo(a, x0)
  BY <1>11, <1>14, <1>15, <1>16, <1>17, Zenon DEF ForksTo, BatchOK
<1>19. ForksTo(o, x0)
  BY OpenRoundForks
<1>20. ForksTo(g, x0) /\ ForksTo(m, x0)
  BY <1>7, <1>8, MildForks
<1> HIDE DEF o
<1> DEFINE b == a \o o \o g \o m
<1>21. ForksTo(b, x0)
  BY <1>18, <1>19, <1>20, ForksToConcat
<1>22. Local(p, d, b)
  BY <1>4
<1> HIDE DEF b
<1>23. QED
  BY <1>1, <1>6, <1>21, <1>22, ForkStep

-----------------------------------------------------------------------------
(* The theorems.                                                           *)

LEMMA InitInv == Init => RoundsInv
<1> SUFFICES ASSUME Init
             PROVE  RoundsInv
  OBVIOUS
<1>1. nextID = 1 /\ DOMAIN db = {} /\ call = [p \in Proc |-> Idle] /\ ops = [p \in Proc |-> <<>>]
  BY DEF Init
<1>2. \A k, v : ~Written(k, v)
  BY <1>1, EmptyIsSeq DEF Written, Stored
<1>3. CallOK(Idle) /\ (\A t, x : ~CallContent(Idle, t, x)) /\ (\A r, t, s : ~CallSlots(Idle, r, t, s))
      /\ \A r, t : ~CallPoints(Idle, r, t)
  BY DEF CallOK, CallContent, CallSlots, CallPoints, Proposing, Idle
<1>4. \A p \in Proc : call[p] = Idle /\ ops[p] = <<>>
  BY <1>1
<1>5. ShapesOK
  <2>1. IsFiniteSet(DOMAIN db) /\ nextID \in Nat
    BY <1>1, FS_EmptySet
  <2>2. RecordsOK
    BY <1>2, Zenon DEF RecordsOK
  <2>3. \A p \in Proc : IsSeq(ops[p]) /\ CallOK(call[p])
    BY <1>3, <1>4, EmptyIsSeq
  <2>4. call = [p \in Proc |-> call[p]] /\ ops = [p \in Proc |-> ops[p]]
    BY <1>1
  <2>5. QED
    BY <2>1, <2>2, <2>3, <2>4 DEF ShapesOK
<1>6. \A t, x : ~HasContent(t, x)
  BY <1>2, <1>3, <1>4, Zenon DEF HasContent
<1>7. \A r, t, s : ~HasSlots(r, t, s)
  BY <1>2, <1>3, <1>4, Zenon DEF HasSlots
<1>8. \A r, t : ~Owner(r, t)
  BY <1>2, <1>3, <1>4, <1>7, Zenon DEF Owner, Points
<1>9. QED
  BY <1>5, <1>6, <1>7, <1>8, Zenon DEF RoundsInv, ContentsOK, OwnersOK, RoundsOK

LEMMA StepInv == RoundsInv /\ [Next]_vars => StepOK
<1> SUFFICES ASSUME RoundsInv, [Next]_vars
             PROVE  StepOK
  OBVIOUS
<1>1. CASE Calls
  <2>1. PICK p \in Proc, u \in User :
          \/ \E tags \in TagSets : CreateText(p, u, tags)
          \/ \E f \in {k[2] : k \in KeysOf("fragment")} : CastVote(p, u, f)
          \/ \E t \in Texts :
               \/ \E range \in Proposals : ProposeEdit(p, u, t, range)
               \/ ScheduleRoundClose(p, u, t)
               \/ CloseRound(p, u, t)
               \/ Subscribe(p, u, t)
               \/ DeleteText(p, u, t)
          \/ \E t \in Texts \cup {k[2] : k \in KeysOf("subscription")} : Unsubscribe(p, u, t)
          \/ \E victim \in User : DeleteUser(p, u, victim)
    BY <1>1, Zenon DEF Calls
  <2>2. ASSUME NEW tags \in TagSets, CreateText(p, u, tags) PROVE StepOK
    BY <2>2, CreateTextInv
  <2>3. ASSUME NEW f, CastVote(p, u, f) PROVE StepOK
    BY <2>3, CastVoteInv
  <2>4. ASSUME NEW t \in Texts, NEW range \in Proposals, ProposeEdit(p, u, t, range) PROVE StepOK
    BY <2>4, ProposeEditInv
  <2>5. ASSUME NEW t, ScheduleRoundClose(p, u, t) \/ CloseRound(p, u, t) PROVE StepOK
    BY <2>5, StartRoundCallInv
  <2>6. ASSUME NEW t, Subscribe(p, u, t) \/ Unsubscribe(p, u, t) PROVE StepOK
    BY <2>6, SubscribeInv
  <2>7. ASSUME NEW t, (DeleteText(p, u, t) /\ t \in Texts) \/ DeleteUser(p, u, t) PROVE StepOK
    BY <2>7, StartDeleteInv
  <2>8. QED
    BY <2>1, <2>2, <2>3, <2>4, <2>5, <2>6, <2>7, Zenon
<1>2. CASE Steps
  <2>1. PICK p \in Proc :
          \/ ApplyOp(p) \/ Fails(p) \/ ReadPointer(p) \/ CheckSuperseded(p) \/ OpenRound(p)
          \/ ResolveCurrent(p) \/ ResolveOpened(p) \/ AddFirstFragment(p) \/ ReadChoice(p)
          \/ Schedule(p) \/ (\E t \in due : CloseDue(p, t)) \/ RoundGone(p) \/ ReadRound(p)
          \/ ReadText(p) \/ Tally(p) \/ Fork(p) \/ Collect(p) \/ NextCascade(p)
    BY <1>2, Zenon DEF Steps
  <2>2. ASSUME NEW t, CloseDue(p, t) PROVE StepOK
    BY <2>2, StartRoundCallInv
  <2>3. CASE ApplyOp(p) \/ Fails(p) \/ ReadPointer(p) \/ CheckSuperseded(p) \/ OpenRound(p)
    BY <2>3, ApplyOpInv, FailsInv, ReadPointerInv, CheckSupersededInv, OpenRoundInv
  <2>4. CASE ResolveCurrent(p) \/ ResolveOpened(p) \/ AddFirstFragment(p) \/ ReadChoice(p) \/ Schedule(p)
    BY <2>4, ResolveCurrentInv, ResolveOpenedInv, AddFirstFragmentInv, ReadChoiceInv, ScheduleInv
  <2>5. CASE RoundGone(p) \/ ReadRound(p) \/ ReadText(p) \/ Tally(p) \/ Fork(p)
    BY <2>5, RoundGoneInv, ReadRoundInv, ReadTextInv, TallyInv, ForkInv
  <2>6. CASE Collect(p) \/ NextCascade(p)
    BY <2>6, CollectInv, NextCascadeInv
  <2>7. QED
    BY <2>1, <2>2, <2>3, <2>4, <2>5, <2>6, Zenon
<1>3. CASE Tick
  BY <1>3, TickInv DEF Tick
<1>4. CASE UNCHANGED vars
  BY <1>4, TickInv DEF vars
<1>5. QED
  BY <1>1, <1>2, <1>3, <1>4 DEF Next

LEMMA InvImpliesDisjoint == RoundsInv => SlotsDisjoint
<1> SUFFICES ASSUME RoundsInv, NEW k \in DOMAIN db, k[1] = "round", Has(Text(db[k].text)),
                    NEW i \in DOMAIN db[k].slots
             PROVE  /\ ValidRange(db[k].slots[i], db[Text(db[k].text)].content)
                    /\ \A j \in DOMAIN db[k].slots \ {i} :
                         \/ db[k].slots[i].end <= db[k].slots[j].start
                         \/ db[k].slots[j].end <= db[k].slots[i].start
  BY DEF SlotsDisjoint, KeysOf
<1>1. Written(k, db[k])
  BY Zenon DEF Written, Stored
<1>2. k = Round(k[2])
  BY <1>1, Zenon DEF RoundsInv, ShapesOK, RecordsOK, RecordOK
<1>3. HasSlots(k[2], db[k].text, db[k].slots)
  BY <1>1, <1>2 DEF HasSlots
<1>4. HasContent(db[k].text, db[Text(db[k].text)].content)
  BY TextIs
<1>5. SlotsOK(db[k].slots) /\ Fits(db[k].slots, db[Text(db[k].text)].content)
  BY <1>3, <1>4, Zenon DEF RoundsInv, RoundsOK
<1>6. QED
  BY <1>5, Zenon DEF SlotsOK, Disjoint, Fits

\* The slots that a close is about to replace are disjoint ranges of the text it has read.
SpliceIsInside ==
  \A p \in Proc : call[p].pc = "tally" =>
    LET slots == call[p].read.slots
    IN  \A i \in DOMAIN slots :
          /\ ValidRange(slots[i], call[p].old.content)
          /\ \A j \in DOMAIN slots \ {i} :
               slots[i].end <= slots[j].start \/ slots[j].end <= slots[i].start

LEMMA InvImpliesInside == RoundsInv => SpliceIsInside
<1> SUFFICES ASSUME RoundsInv, NEW p \in Proc, call[p].pc = "tally"
             PROVE  LET slots == call[p].read.slots
                    IN  \A i \in DOMAIN slots :
                          /\ ValidRange(slots[i], call[p].old.content)
                          /\ \A j \in DOMAIN slots \ {i} :
                               slots[i].end <= slots[j].start \/ slots[j].end <= slots[i].start
  BY Zenon DEF SpliceIsInside
<1> DEFINE c == call[p]
<1>1. /\ HasSlots(c.round, c.read.text, c.read.slots) /\ Owner(c.round, c.text)
      /\ HasContent(c.text, c.old.content)
  BY OwnCallIsKnown, Zenon DEF KnownCall, CallSlots, CallPoints, CallContent
<1>2. Owner(c.round, c.read.text)
  BY <1>1, Zenon DEF Owner
<1>3. c.read.text = c.text
  BY <1>1, <1>2, Zenon DEF RoundsInv, OwnersOK
<1>4. SlotsOK(c.read.slots) /\ Fits(c.read.slots, c.old.content)
  <2>1. HasContent(c.read.text, c.old.content)
    BY <1>1, <1>3
  <2>2. QED
    BY <1>1, <2>1, Zenon DEF RoundsInv, RoundsOK
<1>5. QED
  BY <1>4, Zenon DEF SlotsOK, Disjoint, Fits

(* However proposals, closes, schedules, deletions and batches that stop    *)
(* half-way interleave: a text's content never changes, a round is of one   *)
(* text, and its slots are disjoint and within that text, in the store, in  *)
(* what is still to be written and in what a close has read (resolveSlot,   *)
(* CloseRound, ScheduleRoundClose, WriteBatch).                             *)
THEOREM RoundsStayConsistent == Spec => []RoundsInv
<1>1. RoundsInv /\ [Next]_vars => RoundsInv'
  BY StepInv DEF StepOK
<1>2. QED
  BY InitInv, <1>1, PTL DEF Spec

(* "Slots within a round never overlap" (model.go), and they lie within     *)
(* their text, for any number of goroutines, texts and proposals.           *)
THEOREM SlotsNeverOverlap == Spec => []SlotsDisjoint
<1>1. RoundsInv => SlotsDisjoint
  BY InvImpliesDisjoint
<1>2. QED
  BY <1>1, RoundsStayConsistent, PTL

(* The round and the text that a close has read, at different moments and   *)
(* whatever was proposed, closed or deleted between them, agree: no slot    *)
(* makes spliceContent cut outside the text, nor twice at one place.        *)
THEOREM SpliceNeverCutsOutside == Spec => []SpliceIsInside
<1>1. RoundsInv => SpliceIsInside
  BY InvImpliesInside
<1>2. QED
  BY <1>1, RoundsStayConsistent, PTL
=============================================================================
