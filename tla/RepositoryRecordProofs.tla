----------------------- MODULE RepositoryRecordProofs -----------------------
(* That the records of a text that is there stay whole, for every value of  *)
(* the constants: a slot keeps its seed, a pointer or an index of rounds    *)
(* leads to a round, and a text that nothing supersedes has an open one,    *)
(* whatever batches interleave, stop half-way, or delete.                   *)
EXTENDS RepositoryProofs

-----------------------------------------------------------------------------
(* The inductive invariant.                                                *)

\* Operation i of batch b puts v under k, puts k, deletes k.
PutAt(b, i, k, v) == i \in DOMAIN b /\ ~b[i].tombstone /\ b[i].key = k /\ b[i].val = v
PutsAt(b, i, k) == i \in DOMAIN b /\ ~b[i].tombstone /\ b[i].key = k
EraseAt(b, i, k) == i \in DOMAIN b /\ b[i].tombstone /\ b[i].key = k

\* A batch will put k; k is there, or will be.
Pending(k) == \E p \in Proc : \E i : PutsAt(ops[p], i, k)
Coming(k) == Has(k) \/ Pending(k)
Live(t) == Coming(Text(t))
Closing(t) == Coming(SupersededBy(t))

\* The text is gone, or will be, when the batch b reaches operation i; at its end.
Falls(b, i, t) == ~Live(t) \/ \E j : j < i /\ EraseAt(b, j, Text(t))
Doomed(b, t) == Id(t) /\ (~Live(t) \/ \E j : EraseAt(b, j, Text(t)))

\* A slot of text t as the store, a batch or a close knows it, and its seed.
Slot(t, slot) == \E r, s : HasSlots(r, t, s) /\ \E i \in DOMAIN s : slot = s[i]
SeedKeys(t, slot) == {Fragment(slot.id + 1), FragmentIndex(t, slot.id, slot.id + 1)}
SeedContent(x, slot) == SubSeq(x, slot.start + 1, slot.end)
SeedOK(t, slot, w) ==
  w.author = Seed /\ \A x : HasContent(t, x) => w.content = SeedContent(x, slot)

\* Round r is one that the pointer or the index of text t leads to.
Marks(t, r) == Written(CurrentRound(t), r) \/ \E v : Written(RoundIndex(t, r), v)

\* The keys that must be there as long as text t is.
Needed(t, k) ==
  (\E r : Marks(t, r) /\ k = Round(r)) \/ (\E slot : Slot(t, slot) /\ k \in SeedKeys(t, slot))

\* The keys for which the record v under k needs to be there.
Rests(t, k, v, k2) ==
  \/ k = CurrentRound(t) /\ k2 = Round(v)
  \/ \E r : k = RoundIndex(t, r) /\ k2 = Round(r)
  \/ \E r : k = Round(r) /\ v.text = t /\ \E i \in DOMAIN v.slots : k2 \in SeedKeys(t, v.slots[i])

\* Keys are made as they should be, of ids that have been given.
Shaped(k) ==
  /\ k[1] = "currentround" => k = CurrentRound(k[2])
  /\ k[1] = "roundindex" => k = RoundIndex(k[2], k[3])
  /\ k[1] = "supersededby" => k = SupersededBy(k[2])
  /\ k[1] = "fragment" => k = Fragment(k[2])
  /\ k[1] = "fragmentindex" => k = FragmentIndex(k[2], k[3], k[4])
OldKey(k) ==
  /\ k[1] \in {"round", "fragment"} => Id(k[2])
  /\ k[1] = "fragmentindex" => Id(k[4])
KeysOK == \A k, v : Written(k, v) => Shaped(k) /\ OldKey(k)
NeedsOK == \A t, k : Needed(t, k) => Id(t) /\ OldKey(k)

\* A text is written once, by one operation of one batch.
TextOnce ==
  /\ \A t : Has(Text(t)) => ~Pending(Text(t))
  /\ \A t : \A p, q \in Proc : \A i, j :
       PutsAt(ops[p], i, Text(t)) /\ PutsAt(ops[q], j, Text(t)) => p = q /\ i = j

\* The seeds are what the text was, and the records of a key agree.
SeedsOK == \A t, slot, w : Slot(t, slot) /\ Written(Fragment(slot.id + 1), w) => SeedOK(t, slot, w)
SeedIndexOK ==
  \A t, s, f, v, u : Written(FragmentIndex(t, s, f), v) /\ Needed(u, Fragment(f)) => u = t
FragmentsOK ==
  \A t, s, f, v, w : Written(FragmentIndex(t, s, f), v) /\ Written(Fragment(f), w) => w.text = t /\ w.slot = s
RoundIndexOK == \A t, r, v, u : Written(RoundIndex(t, r), v) /\ Owner(r, u) => u = t
SupersededOK ==
  \A t, u : Written(SupersededBy(t), u) => Id(u) /\ \A v : Written(Text(u), v) => v.previous = t

\* What a record needs is there, or is written before it.
StoreRests ==
  \A t, k, v, k2 : Stored(k, v) /\ Rests(t, k, v, k2) /\ Live(t) => Has(k2)
BatchRests(b) ==
  \A t, i, k, v, k2 : PutAt(b, i, k, v) /\ Rests(t, k, v, k2) /\ Live(t) =>
    Has(k2) \/ \E j : j < i /\ PutsAt(b, j, k2)
CallRests(c) ==
  c.pc \in {"text", "tally"} =>
    \A t, k2 : Rests(t, Round(c.round), c.read, k2) /\ Live(t) => Has(k2)

\* What a text needs is only deleted after the text.
Careful(b) == \A i, k : EraseAt(b, i, k) => OldKey(k) /\ \A t : Needed(t, k) => Falls(b, i, t)
HeadCareful(b) ==
  \A i, t :
    /\ EraseAt(b, i, Text(t)) => Id(t) /\ ~Pending(Text(t))
    /\ EraseAt(b, i, SupersededBy(t)) => Id(t) /\ Falls(b, i, t)
    /\ EraseAt(b, i, CurrentRound(t)) => Id(t) /\ (interrupted \/ Closing(t) \/ Falls(b, i, t))
Safe(b) == Careful(b) /\ HeadCareful(b)

\* The scans that a deletion has still to make will only find such keys.
Loose(b, k) == OldKey(k) /\ \A t : Needed(t, k) => Doomed(b, t)
ScanOK(b, scan) ==
  /\ scan.what = "rounds" => \A t \in scan.of : Doomed(b, t)
  /\ scan.what = "fragments" => Doomed(b, scan.of)
  /\ scan.what \in {"votes", "ballots"} =>
       scan.of[1] = "fragmentindex" /\ Loose(b, scan.of) /\ Loose(b, Fragment(scan.of[4]))
  /\ scan.what = "fragments of user" => scan.of # Seed
ScansOK(b, scans) == IsSeq(scans) /\ \A i \in DOMAIN scans : ScanOK(b, scans[i])
Easy(scans) ==
  /\ IsSeq(scans) /\ scans # <<>>
  /\ \A i \in DOMAIN scans :
       /\ scans[i].what \notin {"rounds", "fragments", "votes", "ballots"}
       /\ scans[i].what = "fragments of user" => scans[i].of # Seed
DeletesOK(c) ==
  /\ c.pc = "collect" => Safe(c.batch) /\ ScansOK(c.batch, c.scans) /\ c.scans # <<>>
  /\ c.pc = "next" => c.batch = <<>>
  /\ c.pc \in {"collect", "next"} => IsSeq(c.then) /\ \A i \in DOMAIN c.then : Easy(c.then[i])

\* A text that nothing supersedes has a round, and only open ones.
OpenText(t) ==
  /\ Coming(CurrentRound(t))
  /\ \A r, v : Written(Round(r), v) /\ v.text = t => v.status = "open"
HeadsOK == ~interrupted => \A t : Live(t) => Closing(t) \/ OpenText(t)

BatchesOK ==
  \A p \in Proc :
    /\ BatchRests(ops[p]) /\ Safe(ops[p])
    /\ CallRests(call[p]) /\ DeletesOK(call[p])
    /\ call[p].pc = "idle" => ops[p] = <<>>
ValuesOK == SeedsOK /\ SeedIndexOK /\ FragmentsOK /\ RoundIndexOK /\ SupersededOK
WholeInv == KeysOK /\ NeedsOK /\ TextOnce /\ ValuesOK /\ StoreRests /\ BatchesOK /\ HeadsOK

-----------------------------------------------------------------------------
(* Keys.                                                                   *)

LEMMA KeyIs ==
  /\ \A a : Text(a)[1] = "text" /\ Text(a)[2] = a
  /\ \A a : Round(a)[1] = "round" /\ Round(a)[2] = a
  /\ \A a : CurrentRound(a)[1] = "currentround" /\ CurrentRound(a)[2] = a
  /\ \A a : RoundCount(a)[1] = "roundcount"
  /\ \A a, b : RoundIndex(a, b)[1] = "roundindex" /\ RoundIndex(a, b)[2] = a /\ RoundIndex(a, b)[3] = b
  /\ \A a : SupersededBy(a)[1] = "supersededby" /\ SupersededBy(a)[2] = a
  /\ \A a : Fragment(a)[1] = "fragment" /\ Fragment(a)[2] = a
  /\ \A a, b, c : FragmentIndex(a, b, c)[1] = "fragmentindex" /\ FragmentIndex(a, b, c)[2] = a
  /\ \A a, b, c : FragmentIndex(a, b, c)[3] = b /\ FragmentIndex(a, b, c)[4] = c
  /\ \A a, b : Vote(a, b)[1] = "vote" /\ Vote(a, b)[2] = a /\ Vote(a, b)[3] = b
  /\ \A a, b, c : UserChoice(a, b, c)[1] = "uservote"
  /\ \A a, b : Subscription(a, b)[1] = "subscription" /\ SubscriptionIndex(a, b)[1] = "subscriptionindex"
  /\ \A a, b : TagIndex(a, b)[1] = "tagindex"
BY DEF Text, Round, CurrentRound, RoundCount, RoundIndex, SupersededBy, Fragment, FragmentIndex, Vote,
       UserChoice, Subscription, SubscriptionIndex, TagIndex

\* The families of the keys this is about; the others are indexes that nothing rests on.
Families == {"text", "round", "currentround", "roundindex", "supersededby", "fragment", "fragmentindex"}

LEMMA NeededIs ==
  ASSUME NEW t, NEW k, Needed(t, k)
  PROVE  k[1] \in {"round", "fragment", "fragmentindex"}
<1>1. CASE \E r : Marks(t, r) /\ k = Round(r)
  BY <1>1, KeyIs
<1>2. CASE \E slot : Slot(t, slot) /\ k \in SeedKeys(t, slot)
  BY <1>2, KeyIs DEF SeedKeys
<1>3. QED
  BY <1>1, <1>2 DEF Needed

\* What a record needs, a text needs.
LEMMA RestsIsNeeded ==
  ASSUME NEW t, NEW k, NEW v, NEW k2, Rests(t, k, v, k2),
         Written(k, v) \/ \E r : k = Round(r) /\ HasSlots(r, v.text, v.slots)
  PROVE  Needed(t, k2)
<1>1. CASE k = CurrentRound(t) /\ k2 = Round(v)
  <2>1. Written(k, v)
    BY <1>1, KeyIs
  <2>2. QED
    BY <1>1, <2>1, Zenon DEF Needed, Marks
<1>2. ASSUME NEW r, k = RoundIndex(t, r), k2 = Round(r)
      PROVE  Needed(t, k2)
  <2>1. Written(k, v)
    BY <1>2, KeyIs
  <2>2. QED
    BY <1>2, <2>1, Zenon DEF Needed, Marks
<1>3. ASSUME NEW r, k = Round(r), v.text = t, NEW i \in DOMAIN v.slots, k2 \in SeedKeys(t, v.slots[i])
      PROVE  Needed(t, k2)
  <2>1. HasSlots(r, v.text, v.slots)
    <3>1. CASE Written(k, v)
      BY <1>3, <3>1, Zenon DEF HasSlots
    <3>2. CASE \E q : k = Round(q) /\ HasSlots(q, v.text, v.slots)
      <4>1. PICK q : k = Round(q) /\ HasSlots(q, v.text, v.slots)
        BY <3>2
      <4>2. q = r
        <5>1. Round(q)[2] = q /\ Round(r)[2] = r
          BY KeyIs
        <5>2. QED
          BY <1>3, <4>1, <5>1
      <4>3. QED
        BY <4>1, <4>2
    <3>3. QED
      BY <3>1, <3>2
  <2>2. Slot(t, v.slots[i])
    BY <1>3, <2>1, Zenon DEF Slot
  <2>3. QED
    BY <1>3, <2>2, Zenon DEF Needed
<1>4. QED
  BY <1>1, <1>2, <1>3, Zenon DEF Rests

-----------------------------------------------------------------------------
(* A step of p that leaves the store alone, with a new batch.              *)

New(i) == ~Id(i) /\ Id(i)'

\* What the batch puts is new, or says what was known.
FreshPut(b, k, v) ==
  /\ Shaped(k) /\ OldKey(k)'
  /\ \A t : k = Text(t) => New(t)
  /\ \A f : k = Fragment(f) => New(f)
  /\ \A t, s, f : k = FragmentIndex(t, s, f) => New(f)
  /\ \A t : k = CurrentRound(t) => New(v) /\ Id(t)'
  /\ \A t, r : k = RoundIndex(t, r) => New(r) /\ Id(t)' /\ Puts(b, CurrentRound(t), r)
  /\ \A t : k = SupersededBy(t) => New(v) /\ \A w : Puts(b, Text(v), w) => w.previous = t
FreshPuts(b) == \A k, v : Puts(b, k, v) => FreshPut(b, k, v)
OneText(b) == \A t, u, i, j : PutsAt(b, i, Text(t)) /\ PutsAt(b, j, Text(u)) => i = j
Agree(b) ==
  \A t, s, f, v, w : Puts(b, FragmentIndex(t, s, f), v) /\ Puts(b, Fragment(f), w) => w.text = t /\ w.slot = s

\* A new slot comes with its seed.
Seeds(b, t, slot) ==
  /\ New(slot.id + 1)
  /\ \A w : Puts(b, Fragment(slot.id + 1), w) => SeedOK(t, slot, w)
  /\ \A u, s, v : Puts(b, FragmentIndex(u, s, slot.id + 1), v) => u = t
SlotsFrom(b) ==
  \A r, v, i : Puts(b, Round(r), v) /\ i \in DOMAIN v.slots =>
    Id(v.text) /\ (Slot(v.text, v.slots[i]) \/ Seeds(b, v.text, v.slots[i]))
PutsRest(b) ==
  \A t, i, k, v, k2 : PutAt(b, i, k, v) /\ Rests(t, k, v, k2) =>
    (\E j : j < i /\ PutsAt(b, j, k2)) \/ (Id(t) /\ (Live(t) => Has(k2)))

\* A new text has a round; a round that closes is of a text that is superseded.
Opens(b) ==
  /\ \A t, v : Puts(b, Text(t), v) => \E w : Puts(b, CurrentRound(t), w)
  /\ \A r, v : Puts(b, Round(r), v) =>
       \/ v.status = "open"
       \/ \E w : Puts(b, SupersededBy(v.text), w)
       \/ \E w : Written(Round(r), w) /\ w.text = v.text /\ w.status = v.status
HeadCarefulNew(b) ==
  \A i, t :
    /\ EraseAt(b, i, Text(t)) => Id(t) /\ ~Pending(Text(t))
    /\ EraseAt(b, i, SupersededBy(t)) => Id(t) /\ Falls(b, i, t)
    /\ EraseAt(b, i, CurrentRound(t)) =>
         Id(t) /\ (interrupted \/ Closing(t) \/ (\E w : Puts(b, SupersededBy(t), w)) \/ Falls(b, i, t))

GoodBatch(b) ==
  /\ IsSeq(b) /\ FreshPuts(b) /\ OneText(b) /\ Agree(b) /\ SlotsFrom(b) /\ PutsRest(b) /\ Opens(b)
  /\ Careful(b) /\ HeadCarefulNew(b)
GoodCall(c) ==
  /\ \A r, t, s : CallSlots(c, r, t, s) => HasSlots(r, t, s)
  /\ CallRests(c) /\ DeletesOK(c)
GoodStep(p, c, b) ==
  /\ Local(p, c, b) /\ GoodBatch(b) /\ GoodCall(c)
  /\ c.pc = "idle" => b = <<>>
  /\ interrupted => interrupted'
  /\ ~interrupted' => ops[p] = <<>>

LEMMA LocalIs ==
  ASSUME RoundsInv, NEW p \in Proc, NEW c, NEW b, GoodStep(p, c, b)
  PROVE  /\ db' = db /\ call'[p] = c /\ ops'[p] = b
         /\ \A q \in Proc : q # p => call'[q] = call[q] /\ ops'[q] = ops[q]
         /\ \A k, v : Written(k, v)' => Written(k, v) \/ Puts(b, k, v)
         /\ \A r, t, s : HasSlots(r, t, s)' =>
              HasSlots(r, t, s) \/ \E v : Puts(b, Round(r), v) /\ v.text = t /\ v.slots = s
<1>1. /\ call'[p] = c /\ \A q \in Proc : q # p => call'[q] = call[q]
  BY OthersStay DEF GoodStep, Local, RoundsInv, ShapesOK
<1>2. /\ ops'[p] = b /\ \A q \in Proc : q # p => ops'[q] = ops[q]
  BY OthersStay DEF GoodStep, Local, RoundsInv, ShapesOK
<1>3. db' = db
  BY DEF GoodStep, Local
<1>4. \A k, v : Written(k, v)' => Written(k, v) \/ Puts(b, k, v)
  BY <1>2, <1>3, Zenon DEF Written, Stored
<1>5. \A r, t, s : HasSlots(r, t, s)' =>
        HasSlots(r, t, s) \/ \E v : Puts(b, Round(r), v) /\ v.text = t /\ v.slots = s
  <2> TAKE r, t, s
  <2> HAVE HasSlots(r, t, s)'
  <2>1. CASE \E v : Written(Round(r), v)' /\ v.text = t /\ v.slots = s
    BY <1>4, <2>1, Zenon DEF HasSlots
  <2>2. CASE \E q \in Proc : CallSlots(call'[q], r, t, s)
    BY <1>1, <2>2, Zenon DEF HasSlots, GoodStep, GoodCall
  <2>3. QED
    BY <2>1, <2>2, Zenon DEF HasSlots
<1>6. QED
  BY <1>1, <1>2, <1>3, <1>4, <1>5

LEMMA SameKey ==
  /\ \A a, b : Text(a) = Text(b) => a = b
  /\ \A a, b : Round(a) = Round(b) => a = b
  /\ \A a, b : CurrentRound(a) = CurrentRound(b) => a = b
  /\ \A a, b : SupersededBy(a) = SupersededBy(b) => a = b
  /\ \A a, b : Fragment(a) = Fragment(b) => a = b
  /\ \A a, b, c, d : RoundIndex(a, b) = RoundIndex(c, d) => a = c /\ b = d
  /\ \A a, b, c, d, e, f : FragmentIndex(a, b, c) = FragmentIndex(d, e, f) => a = d /\ b = e /\ c = f
BY DEF Text, Round, CurrentRound, SupersededBy, Fragment, RoundIndex, FragmentIndex

LEMMA PutsIs ==
  ASSUME NEW b
  PROVE  /\ \A k, v : Puts(b, k, v) => \E i : PutsAt(b, i, k)
         /\ \A i, k : PutsAt(b, i, k) => PutAt(b, i, k, b[i].val) /\ Puts(b, k, b[i].val)
         /\ \A i, k, v : PutAt(b, i, k, v) => Puts(b, k, v) /\ PutsAt(b, i, k)
         /\ \A k, v : Puts(b, k, v) => \E i : PutAt(b, i, k, v)
BY Zenon DEF Puts, PutsAt, PutAt

\* A text that is there or will be has an id.
LEMMA LiveIs ==
  ASSUME RoundsInv, NEW t, Live(t)
  PROVE  Id(t) /\ \E v : Written(Text(t), v)
<1>1. \E v : Written(Text(t), v)
  <2>1. CASE Has(Text(t))
    BY <2>1, Zenon DEF Has, Written, Stored
  <2>2. CASE Pending(Text(t))
    <3>1. PICK p, i : p \in Proc /\ PutsAt(ops[p], i, Text(t))
      BY <2>2 DEF Pending
    <3>2. Puts(ops[p], Text(t), ops[p][i].val)
      BY <3>1, PutsIs
    <3>3. QED
      BY <3>1, <3>2, Zenon DEF Written
  <2>3. QED
    BY <2>1, <2>2 DEF Live, Coming
<1>2. QED
  BY <1>1, Zenon DEF RoundsInv, ContentsOK, HasContent

LEMMA SlotIs ==
  ASSUME RoundsInv, NEW t, NEW slot, Slot(t, slot)
  PROVE  Id(t) /\ Needed(t, Fragment(slot.id + 1)) /\ Needed(t, FragmentIndex(t, slot.id, slot.id + 1))
<1>1. Id(t)
  BY Zenon DEF Slot, Owner, RoundsInv, OwnersOK
<1>2. Fragment(slot.id + 1) \in SeedKeys(t, slot) /\ FragmentIndex(t, slot.id, slot.id + 1) \in SeedKeys(t, slot)
  BY DEF SeedKeys
<1>3. QED
  BY <1>1, <1>2, Zenon DEF Needed

LEMMA LocalNeeds ==
  ASSUME RoundsInv, WholeInv, StepOK, NEW p \in Proc, NEW c, NEW b, GoodStep(p, c, b)
  PROVE  /\ \A i : Id(i) => Id(i)'
         /\ \A k : OldKey(k) => OldKey(k)'
         /\ \A t : Id(t) /\ Live(t)' => Live(t)
         /\ \A t : Id(t) /\ Pending(Text(t))' => Pending(Text(t))
         /\ \A t, slot : Slot(t, slot)' => Slot(t, slot) \/ (Id(t) /\ Seeds(b, t, slot))
         /\ \A t, r : Marks(t, r)' => Marks(t, r) \/ (New(r) /\ Id(t)')
         /\ \A t, k : Needed(t, k)' => Needed(t, k) \/ (~OldKey(k) /\ OldKey(k)' /\ Id(t)')
<1>1. \A i : Id(i) => Id(i)'
  BY DEF StepOK, Keeps, Id, RoundsInv, ShapesOK
<1>2. \A k : OldKey(k) => OldKey(k)'
  BY <1>1, Zenon DEF OldKey
<1>3. /\ db' = db /\ ops'[p] = b /\ \A q \in Proc : q # p => ops'[q] = ops[q]
  BY LocalIs
<1>4. /\ \A k, v : Written(k, v)' => Written(k, v) \/ Puts(b, k, v)
      /\ \A r, t, s : HasSlots(r, t, s)' =>
           HasSlots(r, t, s) \/ \E v : Puts(b, Round(r), v) /\ v.text = t /\ v.slots = s
  BY LocalIs
<1>5. FreshPuts(b) /\ SlotsFrom(b)
  BY DEF GoodStep, GoodBatch
<1>6. \A t : Id(t) /\ Pending(Text(t))' => Pending(Text(t))
  <2> SUFFICES ASSUME NEW t, Id(t), NEW q \in Proc, NEW i, PutsAt(ops'[q], i, Text(t))
               PROVE  Pending(Text(t))
    BY Zenon DEF Pending
  <2>1. CASE q = p
    <3>1. Puts(b, Text(t), b[i].val)
      BY <1>3, <2>1, PutsIs, Zenon
    <3>2. QED
      BY <1>5, <3>1, Zenon DEF FreshPuts, FreshPut, New
  <2>2. CASE q # p
    BY <1>3, <2>2, Zenon DEF Pending
  <2>3. QED
    BY <2>1, <2>2
<1>7. \A t : Id(t) /\ Live(t)' => Live(t)
  BY <1>3, <1>6, Zenon DEF Live, Coming, Has
<1>8. \A t, slot : Slot(t, slot)' => Slot(t, slot) \/ (Id(t) /\ Seeds(b, t, slot))
  <2> SUFFICES ASSUME NEW t, NEW slot, NEW r, NEW s, HasSlots(r, t, s)', NEW i \in DOMAIN s, slot = s[i]
               PROVE  Slot(t, slot) \/ (Id(t) /\ Seeds(b, t, slot))
    BY Zenon DEF Slot
  <2>1. CASE HasSlots(r, t, s)
    BY <2>1, Zenon DEF Slot
  <2>2. CASE \E v : Puts(b, Round(r), v) /\ v.text = t /\ v.slots = s
    BY <1>5, <2>2, Zenon DEF SlotsFrom
  <2>3. QED
    BY <1>4, <2>1, <2>2
<1>9. \A t, r : Marks(t, r)' => Marks(t, r) \/ (New(r) /\ Id(t)')
  <2> SUFFICES ASSUME NEW t, NEW r, Marks(t, r)'
               PROVE  Marks(t, r) \/ (New(r) /\ Id(t)')
    BY Zenon
  <2>1. CASE Written(CurrentRound(t), r)'
    BY <1>4, <1>5, <2>1, Zenon DEF Marks, FreshPuts, FreshPut
  <2>2. CASE \E v : Written(RoundIndex(t, r), v)'
    BY <1>4, <1>5, <2>2, Zenon DEF Marks, FreshPuts, FreshPut
  <2>3. QED
    BY <2>1, <2>2 DEF Marks
<1>10. \A t, k : Needed(t, k)' => Needed(t, k) \/ (~OldKey(k) /\ OldKey(k)' /\ Id(t)')
  <2> SUFFICES ASSUME NEW t, NEW k, Needed(t, k)'
               PROVE  Needed(t, k) \/ (~OldKey(k) /\ OldKey(k)' /\ Id(t)')
    BY Zenon
  <2>1. ASSUME NEW r, Marks(t, r)', k = Round(r)
        PROVE  Needed(t, k) \/ (~OldKey(k) /\ OldKey(k)' /\ Id(t)')
    <3>1. CASE Marks(t, r)
      BY <2>1, <3>1, Zenon DEF Needed
    <3>2. CASE New(r) /\ Id(t)'
      BY <2>1, <3>2, KeyIs DEF OldKey, New
    <3>3. QED
      BY <1>9, <2>1, <3>1, <3>2
  <2>2. ASSUME NEW slot, Slot(t, slot)', k \in SeedKeys(t, slot)
        PROVE  Needed(t, k) \/ (~OldKey(k) /\ OldKey(k)' /\ Id(t)')
    <3>1. CASE Slot(t, slot)
      BY <2>2, <3>1, Zenon DEF Needed
    <3>2. CASE Id(t) /\ Seeds(b, t, slot)
      <4>1. New(slot.id + 1) /\ Id(t)'
        BY <1>1, <3>2 DEF Seeds
      <4>2. k = Fragment(slot.id + 1) \/ k = FragmentIndex(t, slot.id, slot.id + 1)
        BY <2>2 DEF SeedKeys
      <4>3. QED
        BY <4>1, <4>2, KeyIs DEF OldKey, New
    <3>3. QED
      BY <1>8, <2>2, <3>1, <3>2
  <2>3. QED
    BY <2>1, <2>2, Zenon DEF Needed
<1>11. QED
  BY <1>1, <1>2, <1>6, <1>7, <1>8, <1>9, <1>10

LEMMA LocalKeys ==
  ASSUME RoundsInv, WholeInv, StepOK, NEW p \in Proc, NEW c, NEW b, GoodStep(p, c, b)
  PROVE  KeysOK' /\ NeedsOK' /\ TextOnce'
<1>1. /\ \A i : Id(i) => Id(i)'
      /\ \A k : OldKey(k) => OldKey(k)'
      /\ \A t, k : Needed(t, k)' => Needed(t, k) \/ (~OldKey(k) /\ OldKey(k)' /\ Id(t)')
  BY LocalNeeds
<1>2. /\ db' = db /\ ops'[p] = b /\ \A q \in Proc : q # p => ops'[q] = ops[q]
      /\ \A k, v : Written(k, v)' => Written(k, v) \/ Puts(b, k, v)
  BY LocalIs
<1>3. FreshPuts(b) /\ OneText(b)
  BY DEF GoodStep, GoodBatch
<1>4. KeysOK'
  BY <1>1, <1>2, <1>3, Zenon DEF KeysOK, WholeInv, FreshPuts, FreshPut
<1>5. NeedsOK'
  BY <1>1, Zenon DEF NeedsOK, WholeInv
<1>6. \A t, i : PutsAt(b, i, Text(t)) => ~Id(t)
  BY <1>3, PutsIs, Zenon DEF FreshPuts, FreshPut, New
<1>7. \A t : \A q \in Proc : \A i : PutsAt(ops[q], i, Text(t)) => Id(t)
  <2> SUFFICES ASSUME NEW t, NEW q \in Proc, NEW i, PutsAt(ops[q], i, Text(t))
               PROVE  Id(t)
    BY Zenon
  <2>1. Live(t)
    BY Zenon DEF Live, Coming, Pending
  <2>2. QED
    BY <2>1, LiveIs
<1>8. \A t : Has(Text(t))' => ~Pending(Text(t))'
  <2> SUFFICES ASSUME NEW t, Has(Text(t)), Pending(Text(t))'
               PROVE  FALSE
    BY <1>2, Zenon DEF Has
  <2>1. Id(t)
    BY LiveIs DEF Live, Coming
  <2>2. Pending(Text(t))
    BY <2>1, LocalNeeds
  <2>3. QED
    BY <2>2 DEF WholeInv, TextOnce
<1>9. ASSUME NEW t, NEW q \in Proc, NEW r \in Proc, NEW i, NEW j,
             PutsAt(ops'[q], i, Text(t)), PutsAt(ops'[r], j, Text(t))
      PROVE  q = r /\ i = j
  <2>1. CASE q = p /\ r = p
    BY <1>2, <1>3, <1>9, <2>1 DEF OneText
  <2>2. CASE q # p /\ r # p
    BY <1>2, <1>9, <2>2, Zenon DEF WholeInv, TextOnce
  <2>3. CASE (q = p /\ r # p) \/ (q # p /\ r = p)
    BY <1>2, <1>6, <1>7, <1>9, <2>3, Zenon
  <2>4. QED
    BY <2>1, <2>2, <2>3
<1>10. QED
  BY <1>4, <1>5, <1>8, <1>9, Zenon DEF TextOnce

LEMMA LocalValues ==
  ASSUME RoundsInv, WholeInv, StepOK, NEW p \in Proc, NEW c, NEW b, GoodStep(p, c, b)
  PROVE  ValuesOK'
<1>1. /\ \A i : Id(i) => Id(i)'
      /\ \A t, slot : Slot(t, slot)' => Slot(t, slot) \/ (Id(t) /\ Seeds(b, t, slot))
      /\ \A t, k : Needed(t, k)' => Needed(t, k) \/ (~OldKey(k) /\ OldKey(k)' /\ Id(t)')
  BY LocalNeeds
<1>2. \A k, v : Written(k, v)' => Written(k, v) \/ Puts(b, k, v)
  BY LocalIs
<1>3. FreshPuts(b) /\ Agree(b)
  BY DEF GoodStep, GoodBatch
<1>4. /\ \A t, x : Id(t) /\ HasContent(t, x)' => HasContent(t, x)
      /\ \A r, t : Id(r) /\ Owner(r, t)' => Owner(r, t)
      /\ OwnersOK'
  BY DEF StepOK, Keeps, RoundsInv
<1>5. KeysOK /\ NeedsOK /\ SeedsOK /\ SeedIndexOK /\ FragmentsOK /\ RoundIndexOK /\ SupersededOK
  BY DEF WholeInv, ValuesOK
<1>6. \A f : OldKey(Fragment(f)) => Id(f)
  BY KeyIs DEF OldKey
<1>7. \A f, w : /\ Written(Fragment(f), w) => Id(f)
                /\ Puts(b, Fragment(f), w) => ~Id(f)
  BY <1>3, <1>5, <1>6, Zenon DEF KeysOK, FreshPuts, FreshPut, New
<1>8. \A t, slot, w : SeedOK(t, slot, w) /\ Id(t) => SeedOK(t, slot, w)'
  BY <1>4, Zenon DEF SeedOK
<1>9. SeedsOK'
  <2> SUFFICES ASSUME NEW t, NEW slot, NEW w, Slot(t, slot)', Written(Fragment(slot.id + 1), w)'
               PROVE  SeedOK(t, slot, w)'
    BY Zenon DEF SeedsOK
  <2> DEFINE f == slot.id + 1
  <2> HIDE DEF f
  <2>1. Written(Fragment(f), w) \/ Puts(b, Fragment(f), w)
    BY <1>2 DEF f
  <2>2. CASE Slot(t, slot)
    <3>1. Id(t) /\ Needed(t, Fragment(f))
      BY <2>2, SlotIs DEF f
    <3>2. Id(f)
      BY <1>5, <1>6, <3>1 DEF NeedsOK
    <3>3. Written(Fragment(f), w)
      BY <1>7, <2>1, <3>2
    <3>4. SeedOK(t, slot, w)
      BY <1>5, <2>2, <3>3, Zenon DEF SeedsOK, f
    <3>5. QED
      BY <1>8, <3>1, <3>4
  <2>3. CASE Id(t) /\ Seeds(b, t, slot)
    <3>1. ~Id(f)
      BY <2>3 DEF Seeds, New, f
    <3>2. Puts(b, Fragment(f), w)
      BY <1>7, <2>1, <3>1
    <3>3. SeedOK(t, slot, w)
      BY <2>3, <3>2, Zenon DEF Seeds, f
    <3>4. QED
      BY <1>8, <2>3, <3>3
  <2>4. QED
    BY <1>1, <2>2, <2>3
<1>10. \A t, s, f, v : /\ Written(FragmentIndex(t, s, f), v) => Id(f)
                       /\ Puts(b, FragmentIndex(t, s, f), v) => ~Id(f)
  <2>1. \A t, s, f : OldKey(FragmentIndex(t, s, f)) => Id(f)
    BY KeyIs DEF OldKey
  <2>2. QED
    BY <1>3, <1>5, <2>1, Zenon DEF KeysOK, FreshPuts, FreshPut, New
<1>11. SeedIndexOK'
  <2> SUFFICES ASSUME NEW t, NEW s, NEW f, NEW v, NEW u,
                      Written(FragmentIndex(t, s, f), v)', Needed(u, Fragment(f))'
               PROVE  u = t
    BY Zenon DEF SeedIndexOK
  <2>1. CASE Id(f)
    <3>1. Written(FragmentIndex(t, s, f), v)
      BY <1>2, <1>10, <2>1, Zenon
    <3>2. OldKey(Fragment(f))
      BY <2>1, KeyIs DEF OldKey
    <3>3. Needed(u, Fragment(f))
      BY <1>1, <3>2, Zenon
    <3>4. QED
      BY <1>5, <3>1, <3>3, Zenon DEF SeedIndexOK
  <2>2. CASE ~Id(f)
    <3>1. Puts(b, FragmentIndex(t, s, f), v)
      BY <1>2, <1>10, <2>2, Zenon
    <3>2. PICK slot : Slot(u, slot)' /\ Fragment(f) \in SeedKeys(u, slot)
      <4>1. \A r : Fragment(f) # Round(r)
        <5>1. \A r : Round(r)[1] = "round" /\ Fragment(f)[1] = "fragment"
          BY KeyIs
        <5>2. QED
          BY <5>1
      <4>2. QED
        BY <4>1, Zenon DEF Needed
    <3>3. f = slot.id + 1
      <4>1. Fragment(f) = Fragment(slot.id + 1)
        BY <3>2, KeyIs DEF SeedKeys
      <4>2. QED
        BY <4>1, SameKey
    <3>4. ~Slot(u, slot)
      BY <1>5, <1>6, <2>2, <3>3, SlotIs DEF NeedsOK
    <3>5. Seeds(b, u, slot)
      BY <1>1, <3>2, <3>4, Zenon
    <3>6. QED
      BY <3>1, <3>3, <3>5, Zenon DEF Seeds
  <2>3. QED
    BY <2>1, <2>2
<1>12. FragmentsOK'
  <2> SUFFICES ASSUME NEW t, NEW s, NEW f, NEW v, NEW w,
                      Written(FragmentIndex(t, s, f), v)', Written(Fragment(f), w)'
               PROVE  w.text = t /\ w.slot = s
    BY Zenon DEF FragmentsOK
  <2>1. CASE Id(f)
    <3>1. Written(FragmentIndex(t, s, f), v)
      BY <1>2, <1>10, <2>1, Zenon
    <3>2. Written(Fragment(f), w)
      BY <1>2, <1>7, <2>1, Zenon
    <3>3. QED
      BY <1>5, <3>1, <3>2, Zenon DEF FragmentsOK
  <2>2. CASE ~Id(f)
    <3>1. Puts(b, FragmentIndex(t, s, f), v)
      BY <1>2, <1>10, <2>2, Zenon
    <3>2. Puts(b, Fragment(f), w)
      BY <1>2, <1>7, <2>2, Zenon
    <3>3. QED
      BY <1>3, <3>1, <3>2, Zenon DEF Agree
  <2>3. QED
    BY <2>1, <2>2
<1>13. RoundIndexOK'
  <2> SUFFICES ASSUME NEW t, NEW r, NEW v, NEW u, Written(RoundIndex(t, r), v)', Owner(r, u)'
               PROVE  u = t
    BY Zenon DEF RoundIndexOK
  <2>1. CASE Written(RoundIndex(t, r), v)
    <3>1. Needed(t, Round(r))
      BY <2>1, Zenon DEF Needed, Marks
    <3>2. Id(r)
      BY <1>5, <3>1, KeyIs DEF NeedsOK, OldKey
    <3>3. QED
      BY <1>4, <1>5, <2>1, <3>2, Zenon DEF RoundIndexOK
  <2>2. CASE Puts(b, RoundIndex(t, r), v)
    <3>1. Puts(b, CurrentRound(t), r)
      BY <1>3, <2>2, Zenon DEF FreshPuts, FreshPut
    <3>2. Written(CurrentRound(t), r)'
      <4>1. ops'[p] = b
        BY LocalIs
      <4>2. QED
        BY <3>1, <4>1, Zenon DEF Written
    <3>3. Owner(r, t)'
      BY <3>2, Zenon DEF Owner, Points
    <3>4. QED
      BY <1>4, <3>3, Zenon DEF OwnersOK
  <2>3. QED
    BY <1>2, <2>1, <2>2
<1>14. SupersededOK'
  <2> SUFFICES ASSUME NEW t, NEW u, Written(SupersededBy(t), u)'
               PROVE  Id(u)' /\ \A v : Written(Text(u), v)' => v.previous = t
    BY Zenon DEF SupersededOK
  <2>1. \A v : /\ Written(Text(u), v) => Id(u)
               /\ Puts(b, Text(u), v) => ~Id(u)
    BY <1>3, Zenon DEF FreshPuts, FreshPut, New, RoundsInv, ContentsOK, HasContent
  <2>2. CASE Written(SupersededBy(t), u)
    BY <1>1, <1>2, <1>5, <2>1, <2>2, Zenon DEF SupersededOK
  <2>3. CASE Puts(b, SupersededBy(t), u)
    BY <1>2, <1>3, <2>1, <2>3, Zenon DEF FreshPuts, FreshPut, New
  <2>4. QED
    BY <1>2, <2>2, <2>3
<1>15. QED
  BY <1>9, <1>11, <1>12, <1>13, <1>14 DEF ValuesOK

\* What was safe to delete stays so.
LEMMA LocalSafe ==
  ASSUME RoundsInv, WholeInv, StepOK, NEW p \in Proc, NEW c, NEW b, GoodStep(p, c, b)
  PROVE  /\ \A x, i, t : Id(t) /\ Falls(x, i, t) => Falls(x, i, t)'
         /\ \A x, t : Doomed(x, t) => Doomed(x, t)'
         /\ \A x, k : Loose(x, k) => Loose(x, k)'
         /\ \A x : Careful(x) => Careful(x)'
         /\ \A x : Safe(x) => Safe(x)'
         /\ \A k : Coming(k) => Coming(k)' \/ interrupted'
<1>1. /\ \A i : Id(i) => Id(i)'
      /\ \A k : OldKey(k) => OldKey(k)'
      /\ \A t : Id(t) /\ Live(t)' => Live(t)
      /\ \A t : Id(t) /\ Pending(Text(t))' => Pending(Text(t))
      /\ \A t, k : Needed(t, k)' => Needed(t, k) \/ (~OldKey(k) /\ OldKey(k)' /\ Id(t)')
  BY LocalNeeds
<1>2. \A t, k : Needed(t, k) => Id(t) /\ OldKey(k)
  BY DEF WholeInv, NeedsOK
<1>3. \A x, i, t : Id(t) /\ Falls(x, i, t) => Falls(x, i, t)'
  BY <1>1, Zenon DEF Falls
<1>4. \A x, t : Doomed(x, t) => Doomed(x, t)'
  BY <1>1, Zenon DEF Doomed
<1>5. \A x, k : Loose(x, k) => Loose(x, k)'
  BY <1>1, <1>4, Zenon DEF Loose
<1>6. \A x : Careful(x) => Careful(x)'
  BY <1>1, <1>2, <1>3, Zenon DEF Careful
<1>7. \A k : Coming(k) => Coming(k)' \/ interrupted'
  <2> SUFFICES ASSUME NEW k, Coming(k), ~interrupted'
               PROVE  Coming(k)'
    BY Zenon
  <2>1. db' = db /\ \A q \in Proc : q # p => ops'[q] = ops[q]
    BY LocalIs
  <2>2. ops[p] = <<>>
    BY DEF GoodStep
  <2>3. CASE Has(k)
    BY <2>1, <2>3, Zenon DEF Coming, Has
  <2>4. CASE Pending(k)
    <3>1. PICK q, i : q \in Proc /\ PutsAt(ops[q], i, k)
      BY <2>4 DEF Pending
    <3>2. q # p
      BY <2>2, <3>1 DEF PutsAt
    <3>3. PutsAt(ops'[q], i, k)
      BY <2>1, <3>1, <3>2
    <3>4. QED
      BY <3>1, <3>3, Zenon DEF Coming, Pending
  <2>5. QED
    BY <2>3, <2>4 DEF Coming
<1>8. interrupted => interrupted'
  BY DEF GoodStep
<1>9. \A x : HeadCareful(x) => HeadCareful(x)'
  <2> SUFFICES ASSUME NEW x, HeadCareful(x), NEW i, NEW t
               PROVE  /\ EraseAt(x, i, Text(t)) => Id(t)' /\ ~Pending(Text(t))'
                      /\ EraseAt(x, i, SupersededBy(t)) => Id(t)' /\ Falls(x, i, t)'
                      /\ EraseAt(x, i, CurrentRound(t)) =>
                           Id(t)' /\ (interrupted' \/ Closing(t)' \/ Falls(x, i, t)')
    BY Zenon DEF HeadCareful
  <2>1. EraseAt(x, i, Text(t)) => Id(t)' /\ ~Pending(Text(t))'
    BY <1>1, Zenon DEF HeadCareful
  <2>2. EraseAt(x, i, SupersededBy(t)) => Id(t)' /\ Falls(x, i, t)'
    BY <1>1, <1>3, Zenon DEF HeadCareful
  <2>3. EraseAt(x, i, CurrentRound(t)) => Id(t)' /\ (interrupted' \/ Closing(t)' \/ Falls(x, i, t)')
    BY <1>1, <1>3, <1>7, <1>8, Zenon DEF HeadCareful, Closing
  <2>4. QED
    BY <2>1, <2>2, <2>3
<1>10. \A x : Safe(x) => Safe(x)'
  BY <1>6, <1>9, Zenon DEF Safe
<1>11. QED
  BY <1>3, <1>4, <1>5, <1>6, <1>7, <1>10

LEMMA OwnCallIsGood ==
  ASSUME WholeInv, NEW p \in Proc
  PROVE  GoodCall(call[p])
BY Zenon DEF GoodCall, HasSlots, WholeInv, BatchesOK

LEMMA LocalCalls ==
  ASSUME RoundsInv, WholeInv, StepOK, NEW p \in Proc, NEW c, NEW b, GoodStep(p, c, b)
  PROVE  \A d : GoodCall(d) => CallRests(d)' /\ DeletesOK(d)'
<1> SUFFICES ASSUME NEW d, GoodCall(d)
             PROVE  CallRests(d)' /\ DeletesOK(d)'
  BY Zenon
<1>1. CallRests(d)'
  <2> SUFFICES ASSUME d.pc \in {"text", "tally"}, NEW t, NEW k2, Rests(t, Round(d.round), d.read, k2), Live(t)'
               PROVE  Has(k2)'
    BY Zenon DEF CallRests
  <2>1. d.read.text = t
    <3>1. \A a, e : Round(a) # CurrentRound(e) /\ \A f : Round(a) # RoundIndex(e, f)
      <4>1. \A a, e, f : /\ Round(a)[1] = "round" /\ CurrentRound(e)[1] = "currentround"
                         /\ RoundIndex(e, f)[1] = "roundindex"
        BY KeyIs
      <4>2. QED
        BY <4>1
    <3>2. QED
      BY <3>1, Zenon DEF Rests
  <2>2. HasSlots(d.round, t, d.read.slots)
    BY <2>1, Zenon DEF GoodCall, CallSlots
  <2>3. Id(t)
    <3>1. Owner(d.round, t)
      BY <2>2, Zenon DEF Owner
    <3>2. OwnersOK
      BY DEF RoundsInv
    <3>3. QED
      BY <3>1, <3>2, Zenon DEF OwnersOK
  <2>4. Live(t)
    BY <2>3, LocalNeeds
  <2>5. Has(k2)
    BY <2>4, Zenon DEF GoodCall, CallRests
  <2>6. db' = db
    BY LocalIs
  <2>7. QED
    BY <2>5, <2>6, Zenon DEF Has
<1>2. DeletesOK(d)'
  <2>1. /\ \A x, t : Doomed(x, t) => Doomed(x, t)'
        /\ \A x, k : Loose(x, k) => Loose(x, k)'
        /\ \A x : Safe(x) => Safe(x)'
    BY LocalSafe
  <2>2. \A x, scan : ScanOK(x, scan) => ScanOK(x, scan)'
    BY <2>1, Zenon DEF ScanOK
  <2>3. DeletesOK(d)
    BY DEF GoodCall
  <2>4. QED
    BY <2>1, <2>2, <2>3, Zenon DEF DeletesOK, ScansOK
<1>3. QED
  BY <1>1, <1>2

LEMMA LocalBatches ==
  ASSUME RoundsInv, WholeInv, StepOK, NEW p \in Proc, NEW c, NEW b, GoodStep(p, c, b)
  PROVE  StoreRests' /\ BatchesOK'
<1>1. /\ db' = db /\ call'[p] = c /\ ops'[p] = b
      /\ \A q \in Proc : q # p => call'[q] = call[q] /\ ops'[q] = ops[q]
  BY LocalIs
<1>2. /\ \A i : Id(i) => Id(i)'
      /\ \A t : Id(t) /\ Live(t)' => Live(t)
  BY LocalNeeds
<1>3. \A t, k, v, k2 : Written(k, v) /\ Rests(t, k, v, k2) => Id(t)
  BY RestsIsNeeded, Zenon DEF WholeInv, NeedsOK
<1>4. \A k, v : Stored(k, v) <=> Stored(k, v)'
  BY <1>1 DEF Stored
<1>5. StoreRests'
  <2> SUFFICES ASSUME NEW t, NEW k, NEW v, NEW k2, Stored(k, v), Rests(t, k, v, k2), Live(t)'
               PROVE  Has(k2)'
    BY <1>4, Zenon DEF StoreRests
  <2>1. Live(t)
    BY <1>2, <1>3, Zenon DEF Written
  <2>2. Has(k2)
    BY <2>1, Zenon DEF WholeInv, StoreRests
  <2>3. QED
    BY <1>1, <2>2, Zenon DEF Has
<1>6. ASSUME NEW q \in Proc, q # p
      PROVE  BatchRests(ops[q])'
  <2> DEFINE x == ops[q]
  <2>1. ops'[q] = x
    BY <1>1, <1>6
  <2>2. \A k, v : Puts(x, k, v) => Written(k, v)
    BY Zenon DEF Written
  <2>3. BatchRests(x)
    BY DEF WholeInv, BatchesOK
  <2> SUFFICES ASSUME NEW t, NEW i, NEW k, NEW v, NEW k2, PutAt(ops'[q], i, k, v), Rests(t, k, v, k2), Live(t)'
               PROVE  Has(k2)' \/ \E j : j < i /\ PutsAt(ops'[q], j, k2)
    BY Zenon DEF BatchRests
  <2>4. PutAt(x, i, k, v)
    BY <2>1
  <2>5. Written(k, v)
    BY <2>2, <2>4, PutsIs
  <2>6. Live(t)
    BY <1>2, <1>3, <2>5
  <2>7. Has(k2) \/ \E j : j < i /\ PutsAt(x, j, k2)
    BY <2>3, <2>4, <2>6, Zenon DEF BatchRests
  <2>8. QED
    BY <1>1, <2>1, <2>7 DEF Has
<1>7. BatchRests(ops[p])'
  <2> SUFFICES ASSUME NEW t, NEW i, NEW k, NEW v, NEW k2, PutAt(ops'[p], i, k, v), Rests(t, k, v, k2), Live(t)'
               PROVE  Has(k2)' \/ \E j : j < i /\ PutsAt(ops'[p], j, k2)
    BY Zenon DEF BatchRests
  <2>1. PutAt(b, i, k, v) /\ PutsRest(b)
    BY <1>1 DEF GoodStep, GoodBatch
  <2>2. (\E j : j < i /\ PutsAt(b, j, k2)) \/ (Id(t) /\ (Live(t) => Has(k2)))
    BY <2>1, Zenon DEF PutsRest
  <2>3. QED
    BY <1>1, <1>2, <2>2 DEF Has
<1>8. /\ \A x : Safe(x) => Safe(x)'
      /\ \A x : Careful(x) => Careful(x)'
      /\ \A x, i, t : Id(t) /\ Falls(x, i, t) => Falls(x, i, t)'
  BY LocalSafe
<1>9. HeadCareful(b)'
  <2> SUFFICES ASSUME NEW i, NEW t
               PROVE  /\ EraseAt(b, i, Text(t)) => Id(t)' /\ ~Pending(Text(t))'
                      /\ EraseAt(b, i, SupersededBy(t)) => Id(t)' /\ Falls(b, i, t)'
                      /\ EraseAt(b, i, CurrentRound(t)) =>
                           Id(t)' /\ (interrupted' \/ Closing(t)' \/ Falls(b, i, t)')
    BY Zenon DEF HeadCareful
  <2>1. HeadCarefulNew(b)
    BY DEF GoodStep, GoodBatch
  <2>2. EraseAt(b, i, Text(t)) => Id(t)' /\ ~Pending(Text(t))'
    BY <1>2, <2>1, LocalNeeds, Zenon DEF HeadCarefulNew
  <2>3. EraseAt(b, i, SupersededBy(t)) => Id(t)' /\ Falls(b, i, t)'
    BY <1>2, <1>8, <2>1, Zenon DEF HeadCarefulNew
  <2>4. (\E w : Puts(b, SupersededBy(t), w)) => Closing(t)'
    BY <1>1, PutsIs, Zenon DEF Closing, Coming, Pending
  <2>5. (interrupted => interrupted') /\ (Closing(t) => Closing(t)' \/ interrupted')
    BY LocalSafe, Zenon DEF GoodStep, Closing
  <2>6. EraseAt(b, i, CurrentRound(t)) => Id(t)' /\ (interrupted' \/ Closing(t)' \/ Falls(b, i, t)')
    BY <1>2, <1>8, <2>1, <2>4, <2>5, Zenon DEF HeadCarefulNew
  <2>7. QED
    BY <2>2, <2>3, <2>6
<1>10. Safe(b)'
  BY <1>8, <1>9, Zenon DEF Safe, GoodStep, GoodBatch
<1>11. ASSUME NEW q \in Proc
       PROVE  Safe(ops[q])' /\ CallRests(call[q])' /\ DeletesOK(call[q])' /\ (call'[q].pc = "idle" => ops'[q] = <<>>)
  <2>1. \A d : GoodCall(d) => CallRests(d)' /\ DeletesOK(d)'
    BY LocalCalls
  <2>2. CASE q = p
    BY <1>1, <1>10, <2>1, <2>2 DEF GoodStep
  <2>3. CASE q # p
    <3>1. Safe(ops[q]) /\ (call[q].pc = "idle" => ops[q] = <<>>)
      BY DEF WholeInv, BatchesOK
    <3>2. GoodCall(call[q])
      BY OwnCallIsGood
    <3>3. QED
      BY <1>1, <1>8, <2>1, <2>3, <3>1, <3>2
  <2>4. QED
    BY <2>2, <2>3
<1>12. QED
  BY <1>5, <1>6, <1>7, <1>11, Zenon DEF BatchesOK

LEMMA LocalHeads ==
  ASSUME RoundsInv, WholeInv, StepOK, NEW p \in Proc, NEW c, NEW b, GoodStep(p, c, b)
  PROVE  HeadsOK'
<1> SUFFICES ASSUME ~interrupted', NEW t, Live(t)', ~Closing(t)'
             PROVE  OpenText(t)'
  BY Zenon DEF HeadsOK
<1>1. /\ db' = db /\ ops'[p] = b
      /\ \A k, v : Written(k, v)' => Written(k, v) \/ Puts(b, k, v)
  BY LocalIs
<1>2. ~interrupted /\ (\A k : Coming(k) => Coming(k)')
  BY LocalSafe DEF GoodStep
<1>3. ~Closing(t)
  BY <1>2, Zenon DEF Closing
<1>4. Opens(b) /\ FreshPuts(b)
  BY DEF GoodStep, GoodBatch
<1>5. \A k, w : Puts(b, k, w) => Coming(k)'
  BY <1>1, PutsIs, Zenon DEF Coming, Pending
<1>6. CASE Live(t)
  <2>1. OpenText(t)
    BY <1>2, <1>3, <1>6 DEF WholeInv, HeadsOK
  <2>2. Coming(CurrentRound(t))'
    BY <1>2, <2>1 DEF OpenText
  <2>3. ASSUME NEW r, NEW v, Written(Round(r), v)', v.text = t
        PROVE  v.status = "open"
    <3>1. CASE Written(Round(r), v)
      BY <2>1, <2>3, <3>1, Zenon DEF OpenText
    <3>2. CASE Puts(b, Round(r), v)
      <4>1. \/ v.status = "open" \/ (\E w : Puts(b, SupersededBy(t), w))
            \/ \E w : Written(Round(r), w) /\ w.text = t /\ w.status = v.status
        BY <1>4, <2>3, <3>2 DEF Opens
      <4>2. ~\E w : Puts(b, SupersededBy(t), w)
        BY <1>5, Zenon DEF Closing
      <4>3. CASE \E w : Written(Round(r), w) /\ w.text = t /\ w.status = v.status
        BY <2>1, <4>3 DEF OpenText
      <4>4. QED
        BY <4>1, <4>2, <4>3
    <3>3. QED
      BY <1>1, <2>3, <3>1, <3>2
  <2>4. QED
    BY <2>2, <2>3, Zenon DEF OpenText
<1>7. CASE ~Live(t)
  <2>1. ~Id(t)
    BY <1>7, LocalNeeds
  <2>2. PICK v0 : Puts(b, Text(t), v0)
    <3>1. ~Has(Text(t))'
      BY <1>1, <1>7, Zenon DEF Has, Live, Coming
    <3>2. PICK q, i : q \in Proc /\ PutsAt(ops'[q], i, Text(t))
      BY <3>1, Zenon DEF Live, Coming, Pending
    <3>3. CASE q = p
      BY <1>1, <3>2, <3>3, PutsIs
    <3>4. CASE q # p
      <4>1. ops'[q] = ops[q]
        BY <3>2, <3>4, LocalIs
      <4>2. QED
        BY <1>7, <3>2, <4>1, Zenon DEF Live, Coming, Pending
    <3>5. QED
      BY <3>3, <3>4
  <2>3. Coming(CurrentRound(t))'
    BY <1>4, <1>5, <2>2, Zenon DEF Opens
  <2>4. ASSUME NEW r, NEW v, Written(Round(r), v)', v.text = t
        PROVE  v.status = "open"
    <3>1. \A w : Written(Round(r), w) => w.text # t
      <4>1. \A w : Written(Round(r), w) => HasSlots(r, w.text, w.slots)
        BY Zenon DEF HasSlots
      <4>2. QED
        BY <2>1, <4>1, Zenon DEF Owner, RoundsInv, OwnersOK
    <3>2. Puts(b, Round(r), v)
      BY <1>1, <2>4, <3>1
    <3>3. \/ v.status = "open" \/ (\E w : Puts(b, SupersededBy(t), w))
          \/ \E w : Written(Round(r), w) /\ w.text = t
      BY <1>4, <2>4, <3>2 DEF Opens
    <3>4. ~\E w : Puts(b, SupersededBy(t), w)
      BY <1>5, Zenon DEF Closing
    <3>5. QED
      BY <3>1, <3>3, <3>4
  <2>5. QED
    BY <2>3, <2>4, Zenon DEF OpenText
<1>8. QED
  BY <1>6, <1>7

LEMMA GoodStepInv ==
  ASSUME RoundsInv, WholeInv, StepOK, NEW p \in Proc, NEW c, NEW b, GoodStep(p, c, b)
  PROVE  WholeInv'
BY LocalKeys, LocalValues, LocalBatches, LocalHeads DEF WholeInv

-----------------------------------------------------------------------------
(* One operation of a batch.                                               *)

LEMMA TailShift ==
  ASSUME NEW b, IsSeq(b), b # <<>>
  PROVE  LET c == Tail(b)
         IN  /\ 1 \in DOMAIN b /\ Head(b) = b[1]
             /\ \A i, k, v : PutAt(c, i, k, v) => i \in Nat /\ PutAt(b, i + 1, k, v)
             /\ \A i, k : PutsAt(c, i, k) => i \in Nat /\ i + 1 # 1 /\ PutsAt(b, i + 1, k)
             /\ \A i, k : EraseAt(c, i, k) => i \in Nat /\ EraseAt(b, i + 1, k)
             /\ \A i, k : PutsAt(b, i, k) => i = 1 \/ (i - 1 \in Nat /\ PutsAt(c, i - 1, k))
             /\ \A i, k : EraseAt(b, i, k) => i = 1 \/ (i - 1 \in Nat /\ EraseAt(c, i - 1, k))
             /\ \A i, k : PutsAt(b, i, k) \/ EraseAt(b, i, k) => i \in Nat
<1>1. PICK S : b \in Seq(S)
  BY DEF IsSeq
<1> DEFINE c == Tail(b)
           n == Len(b)
<1>2. n \in Nat /\ n >= 1 /\ DOMAIN b = 1 .. n /\ DOMAIN c = 1 .. n - 1 /\ Head(b) = b[1]
  BY <1>1
<1>3. \A i \in 1 .. n - 1 : c[i] = b[i + 1]
  BY <1>1
<1> HIDE DEF c, n
<1>4. \A i \in DOMAIN c : i \in Nat /\ i + 1 # 1 /\ i + 1 \in DOMAIN b /\ c[i] = b[i + 1]
  BY <1>2, <1>3
<1>5. \A i \in DOMAIN b : i \in Nat /\ (i = 1 \/ (i - 1 \in Nat /\ i - 1 \in DOMAIN c /\ c[i - 1] = b[i]))
  <2> TAKE i \in DOMAIN b
  <2>1. CASE i = 1
    BY <2>1
  <2>2. CASE i # 1
    <3>1. i \in Nat /\ i - 1 \in 1 .. n - 1 /\ (i - 1) + 1 = i
      BY <1>2, <2>2
    <3>2. c[i - 1] = b[(i - 1) + 1]
      BY <1>3, <3>1
    <3>3. QED
      BY <1>2, <3>1, <3>2
  <2>3. QED
    BY <2>1, <2>2
<1>6. /\ \A i, k, v : PutAt(c, i, k, v) => i \in Nat /\ PutAt(b, i + 1, k, v)
      /\ \A i, k : PutsAt(c, i, k) => i \in Nat /\ i + 1 # 1 /\ PutsAt(b, i + 1, k)
      /\ \A i, k : EraseAt(c, i, k) => i \in Nat /\ EraseAt(b, i + 1, k)
  BY <1>4, Zenon DEF PutAt, PutsAt, EraseAt
<1>7. /\ \A i, k : PutsAt(b, i, k) => i = 1 \/ (i - 1 \in Nat /\ PutsAt(c, i - 1, k))
      /\ \A i, k : EraseAt(b, i, k) => i = 1 \/ (i - 1 \in Nat /\ EraseAt(c, i - 1, k))
      /\ \A i, k : PutsAt(b, i, k) \/ EraseAt(b, i, k) => i \in Nat
  BY <1>5, Zenon DEF PutsAt, EraseAt
<1>8. 1 \in DOMAIN b /\ Head(b) = b[1]
  BY <1>2
<1>9. QED
  BY <1>6, <1>7, <1>8 DEF c

\* What the step does to the batch, the store and the call.
LEMMA ApplyIs ==
  ASSUME RoundsInv, NEW p \in Proc, ApplyOp(p)
  PROVE  /\ IsSeq(ops[p]) /\ ops[p] # <<>> /\ ops'[p] = Tail(ops[p])
         /\ \A q \in Proc : q # p => ops'[q] = ops[q]
         /\ \A q \in Proc : call'[q] = call[q] \/ (call'[q] = Idle /\ ops'[q] = <<>>)
         /\ nextID' = nextID /\ interrupted' = interrupted
         /\ \A k : Has(k) => Has(k)' \/ EraseAt(ops[p], 1, k)
         /\ \A k : PutsAt(ops[p], 1, k) => Has(k)'
         /\ \A k : EraseAt(ops[p], 1, k) => ~Has(k)'
         /\ \A k, v : Stored(k, v)' => Stored(k, v) \/ PutAt(ops[p], 1, k, v)
<1> DEFINE b == ops[p]
           o == b[1]
<1>1. IsSeq(b) /\ b # <<>> /\ ops = [q \in Proc |-> ops[q]] /\ call = [q \in Proc |-> call[q]]
  BY DEF RoundsInv, ShapesOK, ApplyOp
<1>2. 1 \in DOMAIN b /\ Head(b) = o
  BY <1>1, TailShift
<1>3. db' = After(o) /\ ops' = [ops EXCEPT ![p] = Tail(b)] /\ nextID' = nextID /\ interrupted' = interrupted
  BY <1>2 DEF ApplyOp
<1>4. ops'[p] = Tail(b) /\ \A q \in Proc : q # p => ops'[q] = ops[q]
  BY <1>1, <1>3, OthersStay
<1>5. \A q \in Proc : call'[q] = call[q] \/ (call'[q] = Idle /\ ops'[q] = <<>>)
  <2>1. CASE UNCHANGED call
    BY <2>1
  <2>2. CASE Tail(b) = <<>> /\ call' = [call EXCEPT ![p] = Idle]
    <3>1. call'[p] = Idle /\ \A q \in Proc : q # p => call'[q] = call[q]
      BY <1>1, <2>2, OthersStay
    <3>2. QED
      BY <1>4, <2>2, <3>1
  <2>3. QED
    BY <2>1, <2>2 DEF ApplyOp, Becomes
<1> HIDE DEF o
<1>6. \A k : (Has(k) => Has(k)' \/ (o.tombstone /\ o.key = k)) /\ (~o.tombstone /\ o.key = k => Has(k)')
             /\ (o.tombstone /\ o.key = k => ~Has(k)')
  <2>1. CASE o.tombstone
    <3>1. DOMAIN db' = DOMAIN db \ {o.key}
      BY <1>3, <2>1 DEF After
    <3>2. QED
      BY <2>1, <3>1 DEF Has
  <2>2. CASE ~o.tombstone
    <3>1. DOMAIN db' = DOMAIN db \cup {o.key}
      BY <1>3, <2>2 DEF After
    <3>2. QED
      BY <2>2, <3>1 DEF Has
  <2>3. QED
    BY <2>1, <2>2
<1>7. \A k, v : Stored(k, v)' => Stored(k, v) \/ IsPut(o, k, v)
  BY <1>3, AfterIs DEF RoundsInv, ShapesOK
<1>8. /\ \A k : PutsAt(b, 1, k) <=> ~o.tombstone /\ o.key = k
      /\ \A k : EraseAt(b, 1, k) <=> o.tombstone /\ o.key = k
      /\ \A k, v : PutAt(b, 1, k, v) <=> IsPut(o, k, v)
  BY <1>2, Zenon DEF PutsAt, EraseAt, PutAt, IsPut, o
<1>9. QED
  BY <1>1, <1>3, <1>4, <1>5, <1>6, <1>7, <1>8

LEMMA ApplyNeeds ==
  ASSUME RoundsInv, WholeInv, NEW p \in Proc, ApplyOp(p)
  PROVE  /\ \A i : Id(i)' <=> Id(i)
         /\ \A k : OldKey(k)' <=> OldKey(k)
         /\ \A k, v : Written(k, v)' => Written(k, v)
         /\ \A t, slot : Slot(t, slot)' => Slot(t, slot)
         /\ \A t, k : Needed(t, k)' => Needed(t, k)
         /\ \A k : Pending(k)' => Pending(k)
         /\ \A k : Coming(k)' => Coming(k)
         /\ \A k : Coming(k) => Coming(k)' \/ EraseAt(ops[p], 1, k)
         /\ \A t : Live(t)' => Live(t)
         /\ \A t : EraseAt(ops[p], 1, Text(t)) => ~Live(t)'
<1> DEFINE b == ops[p]
<1>1. /\ IsSeq(b) /\ b # <<>> /\ ops'[p] = Tail(b)
      /\ \A q \in Proc : q # p => ops'[q] = ops[q]
      /\ \A q \in Proc : call'[q] = call[q] \/ call'[q] = Idle
      /\ nextID' = nextID
  BY ApplyIs
<1>2. /\ \A k : Has(k) => Has(k)' \/ EraseAt(b, 1, k)
      /\ \A k : PutsAt(b, 1, k) => Has(k)'
      /\ \A k : EraseAt(b, 1, k) => ~Has(k)'
      /\ \A k, v : Stored(k, v)' => Stored(k, v) \/ PutAt(b, 1, k, v)
  BY ApplyIs
<1>3. /\ \A i, k, v : PutAt(Tail(b), i, k, v) => PutAt(b, i + 1, k, v)
      /\ \A i, k : PutsAt(Tail(b), i, k) => PutsAt(b, i + 1, k)
      /\ \A i, k : PutsAt(b, i, k) => i = 1 \/ PutsAt(Tail(b), i - 1, k)
  BY <1>1, TailShift
<1>4. \A i : Id(i)' <=> Id(i)
  BY <1>1 DEF Id
<1>5. \A k : OldKey(k)' <=> OldKey(k)
  BY <1>4, Zenon DEF OldKey
<1>6. \A k, v : Puts(Tail(b), k, v) => Puts(b, k, v)
  BY <1>1, TailIs
<1>7. \A k, v : Written(k, v)' => Written(k, v)
  <2>1. \A k, v : PutAt(b, 1, k, v) => Puts(b, k, v)
    BY PutsIs
  <2>2. QED
    BY <1>1, <1>2, <1>6, <2>1, Zenon DEF Written
<1>8. \A r, t, s : HasSlots(r, t, s)' => HasSlots(r, t, s)
  <2>1. \A r, t, s : ~CallSlots(Idle, r, t, s)
    BY DEF CallSlots, Idle
  <2>2. QED
    BY <1>1, <1>7, <2>1, Zenon DEF HasSlots
<1>9. \A t, slot : Slot(t, slot)' => Slot(t, slot)
  BY <1>8, Zenon DEF Slot
<1>10. \A t, k : Needed(t, k)' => Needed(t, k)
  BY <1>7, <1>9, Zenon DEF Needed, Marks
<1>11. \A k : Pending(k)' => Pending(k)
  BY <1>1, <1>3, Zenon DEF Pending
<1>12. \A k : Has(k)' => Coming(k)
  <2> SUFFICES ASSUME NEW k, Has(k)'
               PROVE  Coming(k)
    BY Zenon
  <2>1. \E v : Stored(k, v)'
    BY Zenon DEF Stored, Has
  <2>2. PICK v : Stored(k, v) \/ PutAt(b, 1, k, v)
    BY <1>2, <2>1
  <2>3. CASE Stored(k, v)
    BY <2>3 DEF Stored, Coming, Has
  <2>4. CASE PutAt(b, 1, k, v)
    BY <2>4, PutsIs, Zenon DEF Coming, Pending
  <2>5. QED
    BY <2>2, <2>3, <2>4
<1>13. \A k : Coming(k)' => Coming(k)
  BY <1>11, <1>12, Zenon DEF Coming
<1>14. \A k : Coming(k) => Coming(k)' \/ EraseAt(b, 1, k)
  <2> SUFFICES ASSUME NEW k, Pending(k)
               PROVE  Coming(k)'
    BY <1>2, Zenon DEF Coming
  <2>1. PICK q, i : q \in Proc /\ PutsAt(ops[q], i, k)
    BY DEF Pending
  <2>2. CASE q = p
    <3>1. CASE i = 1
      BY <1>2, <2>1, <2>2, <3>1 DEF Coming
    <3>2. CASE i # 1
      <4>1. PutsAt(ops'[p], i - 1, k)
        BY <1>1, <1>3, <2>1, <2>2, <3>2
      <4>2. QED
        BY <4>1, Zenon DEF Coming, Pending
    <3>3. QED
      BY <3>1, <3>2
  <2>3. CASE q # p
    BY <1>1, <2>1, <2>3, Zenon DEF Coming, Pending
  <2>4. QED
    BY <2>2, <2>3
<1>15. \A t : Live(t)' => Live(t)
  BY <1>13, Zenon DEF Live
<1>16. \A t : EraseAt(b, 1, Text(t)) => ~Live(t)'
  <2> SUFFICES ASSUME NEW t, EraseAt(b, 1, Text(t))
               PROVE  ~Live(t)'
    BY Zenon
  <2>1. ~Pending(Text(t))
    BY Zenon DEF WholeInv, BatchesOK, Safe, HeadCareful
  <2>2. QED
    BY <1>2, <1>11, <2>1, Zenon DEF Live, Coming
<1>17. QED
  BY <1>4, <1>5, <1>7, <1>9, <1>10, <1>11, <1>13, <1>14, <1>15, <1>16

LEMMA ApplySafe ==
  ASSUME RoundsInv, WholeInv, NEW p \in Proc, ApplyOp(p)
  PROVE  /\ \A t : Falls(ops[p], 1, t) => ~Live(t)
         /\ \A x, i, t : Falls(x, i, t) => Falls(x, i, t)'
         /\ \A t : Closing(t) => Closing(t)' \/ ~Live(t)
         /\ \A x, t : Doomed(x, t) => Doomed(x, t)'
         /\ \A x, k : Loose(x, k) => Loose(x, k)'
         /\ \A x : Safe(x) => Safe(x)'
         /\ Safe(ops[p])'
<1> DEFINE b == ops[p]
<1>0. PICK c : c = Tail(b)
  OBVIOUS
<1>1. /\ \A i : Id(i)' <=> Id(i)
      /\ \A k : OldKey(k)' <=> OldKey(k)
      /\ \A t, k : Needed(t, k)' => Needed(t, k)
      /\ \A k : Pending(k)' => Pending(k)
      /\ \A k : Coming(k) => Coming(k)' \/ EraseAt(b, 1, k)
      /\ \A t : Live(t)' => Live(t)
      /\ \A t : EraseAt(b, 1, Text(t)) => ~Live(t)'
  BY ApplyNeeds
<1>2. IsSeq(b) /\ b # <<>> /\ ops'[p] = c /\ interrupted' = interrupted
  BY <1>0, ApplyIs
<1>3. /\ \A i, k : EraseAt(c, i, k) => i \in Nat /\ EraseAt(b, i + 1, k)
      /\ \A i, k : EraseAt(b, i, k) => i \in Nat /\ (i = 1 \/ (i - 1 \in Nat /\ EraseAt(c, i - 1, k)))
  BY <1>0, <1>2, TailShift
<1>4. Safe(b)
  BY DEF WholeInv, BatchesOK
<1> HIDE DEF b
<1>5. \A i, k : EraseAt(b, i, k) => ~(i < 1)
  <2> SUFFICES ASSUME NEW i, NEW k, EraseAt(b, i, k), i < 1
               PROVE  FALSE
    BY Zenon
  <2>1. i \in Nat /\ (i = 1 \/ i - 1 \in Nat)
    BY <1>3
  <2>2. QED
    BY <2>1
<1>6. \A t : Falls(b, 1, t) => ~Live(t)
  BY <1>5, Zenon DEF Falls
<1>7. \A x, i, t : Falls(x, i, t) => Falls(x, i, t)'
  BY <1>1, Zenon DEF Falls
<1>8. \A t : Closing(t) => Closing(t)' \/ ~Live(t)
  <2> SUFFICES ASSUME NEW t, EraseAt(b, 1, SupersededBy(t))
               PROVE  ~Live(t)
    BY <1>1, Zenon DEF Closing
  <2>1. Falls(b, 1, t)
    BY <1>4, Zenon DEF Safe, HeadCareful
  <2>2. QED
    BY <1>6, <2>1
<1>9. \A x, t : Doomed(x, t) => Doomed(x, t)'
  BY <1>1, Zenon DEF Doomed
<1>10. \A x, k : Loose(x, k) => Loose(x, k)'
  BY <1>1, <1>9, Zenon DEF Loose
<1>11. \A x : Careful(x) => Careful(x)'
  BY <1>1, <1>7, Zenon DEF Careful
<1>12. \A x, i, t : ~Live(t) => Falls(x, i, t)'
  BY <1>1, Zenon DEF Falls
<1>13. ASSUME NEW x, HeadCareful(x)
       PROVE  HeadCareful(x)'
  <2> SUFFICES ASSUME NEW i, NEW t
               PROVE  /\ EraseAt(x, i, Text(t)) => Id(t)' /\ ~Pending(Text(t))'
                      /\ EraseAt(x, i, SupersededBy(t)) => Id(t)' /\ Falls(x, i, t)'
                      /\ EraseAt(x, i, CurrentRound(t)) =>
                           Id(t)' /\ (interrupted' \/ Closing(t)' \/ Falls(x, i, t)')
    BY Zenon DEF HeadCareful
  <2>1. EraseAt(x, i, Text(t)) => Id(t)' /\ ~Pending(Text(t))'
    BY <1>1, <1>13, Zenon DEF HeadCareful
  <2>2. EraseAt(x, i, SupersededBy(t)) => Id(t)' /\ Falls(x, i, t)'
    BY <1>1, <1>7, <1>13, Zenon DEF HeadCareful
  <2>3. EraseAt(x, i, CurrentRound(t)) => Id(t)' /\ (interrupted' \/ Closing(t)' \/ Falls(x, i, t)')
    BY <1>1, <1>2, <1>7, <1>8, <1>12, <1>13, Zenon DEF HeadCareful
  <2>4. QED
    BY <2>1, <2>2, <2>3
<1>14. \A x : Safe(x) => Safe(x)'
  BY <1>11, <1>13, Zenon DEF Safe
<1>15. \A i, t : i \in Nat /\ Falls(b, i + 1, t) => Falls(c, i, t)'
  <2> SUFFICES ASSUME NEW i \in Nat, NEW t, NEW j, j < i + 1, EraseAt(b, j, Text(t))
               PROVE  Falls(c, i, t)'
    BY <1>12, Zenon DEF Falls
  <2>1. CASE j = 1
    BY <1>1, <2>1, Zenon DEF Falls
  <2>2. CASE j # 1
    <3>1. j \in Nat /\ j - 1 \in Nat /\ EraseAt(c, j - 1, Text(t))
      BY <1>3, <2>2
    <3>2. j - 1 < i
      BY <3>1
    <3>3. QED
      BY <3>1, <3>2, Zenon DEF Falls
  <2>3. QED
    BY <2>1, <2>2
<1>16. Careful(c)'
  <2> SUFFICES ASSUME NEW i, NEW k, EraseAt(c, i, k)
               PROVE  OldKey(k)' /\ \A t : Needed(t, k)' => Falls(c, i, t)'
    BY Zenon DEF Careful
  <2>1. i \in Nat /\ EraseAt(b, i + 1, k)
    BY <1>3
  <2>2. OldKey(k) /\ \A t : Needed(t, k) => Falls(b, i + 1, t)
    BY <1>4, <2>1, Zenon DEF Safe, Careful
  <2>3. QED
    BY <1>1, <1>15, <2>1, <2>2, Zenon
<1>17. HeadCareful(c)'
  <2> SUFFICES ASSUME NEW i, NEW t
               PROVE  /\ EraseAt(c, i, Text(t)) => Id(t)' /\ ~Pending(Text(t))'
                      /\ EraseAt(c, i, SupersededBy(t)) => Id(t)' /\ Falls(c, i, t)'
                      /\ EraseAt(c, i, CurrentRound(t)) =>
                           Id(t)' /\ (interrupted' \/ Closing(t)' \/ Falls(c, i, t)')
    BY Zenon DEF HeadCareful
  <2>1. HeadCareful(b)
    BY <1>4 DEF Safe
  <2>2. \A k : EraseAt(c, i, k) => i \in Nat /\ EraseAt(b, i + 1, k)
    BY <1>3
  <2>3. EraseAt(c, i, Text(t)) => Id(t)' /\ ~Pending(Text(t))'
    BY <1>1, <2>1, <2>2, Zenon DEF HeadCareful
  <2>4. EraseAt(c, i, SupersededBy(t)) => Id(t)' /\ Falls(c, i, t)'
    BY <1>1, <1>15, <2>1, <2>2, Zenon DEF HeadCareful
  <2>5. EraseAt(c, i, CurrentRound(t)) => Id(t)' /\ (interrupted' \/ Closing(t)' \/ Falls(c, i, t)')
    <3> SUFFICES ASSUME EraseAt(c, i, CurrentRound(t))
                 PROVE  Id(t)' /\ (interrupted' \/ Closing(t)' \/ Falls(c, i, t)')
      BY Zenon
    <3>1. i \in Nat /\ Id(t) /\ (interrupted \/ Closing(t) \/ Falls(b, i + 1, t))
      BY <2>1, <2>2, Zenon DEF HeadCareful
    <3>2. QED
      BY <1>1, <1>2, <1>8, <1>12, <1>15, <3>1, Zenon
  <2>6. QED
    BY <2>3, <2>4, <2>5
<1>18. Safe(ops[p])'
  BY <1>2, <1>16, <1>17 DEF Safe
<1>19. QED
  BY <1>6, <1>7, <1>8, <1>9, <1>10, <1>14, <1>18 DEF b

LEMMA ApplyKeys ==
  ASSUME RoundsInv, WholeInv, StepOK, NEW p \in Proc, ApplyOp(p)
  PROVE  KeysOK' /\ NeedsOK' /\ TextOnce' /\ ValuesOK'
<1> DEFINE b == ops[p]
<1>1. /\ \A i : Id(i)' <=> Id(i)
      /\ \A k : OldKey(k)' <=> OldKey(k)
      /\ \A k, v : Written(k, v)' => Written(k, v)
      /\ \A t, slot : Slot(t, slot)' => Slot(t, slot)
      /\ \A t, k : Needed(t, k)' => Needed(t, k)
      /\ \A k : Pending(k)' => Pending(k)
  BY ApplyNeeds
<1>2. /\ \A t, x : Id(t) /\ HasContent(t, x)' => HasContent(t, x)
      /\ \A r, t : Id(r) /\ Owner(r, t)' => Owner(r, t)
  BY DEF StepOK, Keeps, RoundsInv
<1>3. KeysOK' /\ NeedsOK'
  BY <1>1, Zenon DEF WholeInv, KeysOK, NeedsOK
<1>4. SeedsOK'
  <2>1. \A t, slot : Slot(t, slot) => Id(t)
    BY SlotIs
  <2>2. \A t, slot, w : Id(t) /\ SeedOK(t, slot, w) => SeedOK(t, slot, w)'
    BY <1>2, Zenon DEF SeedOK
  <2>3. QED
    BY <1>1, <2>1, <2>2, Zenon DEF WholeInv, ValuesOK, SeedsOK
<1>5. SeedIndexOK'
  BY <1>1, Zenon DEF WholeInv, ValuesOK, SeedIndexOK
<1>6. FragmentsOK'
  <2>1. FragmentsOK
    BY DEF WholeInv, ValuesOK
  <2> SUFFICES ASSUME NEW t, NEW s, NEW f, NEW v, NEW w,
                      Written(FragmentIndex(t, s, f), v)', Written(Fragment(f), w)'
               PROVE  w.text = t /\ w.slot = s
    BY Zenon DEF FragmentsOK
  <2>2. Written(FragmentIndex(t, s, f), v) /\ Written(Fragment(f), w)
    BY <1>1
  <2>3. QED
    BY <2>1, <2>2, Zenon DEF FragmentsOK
<1>7. RoundIndexOK'
  <2> SUFFICES ASSUME NEW t, NEW r, NEW v, NEW u, Written(RoundIndex(t, r), v), Owner(r, u)'
               PROVE  u = t
    BY <1>1, Zenon DEF RoundIndexOK
  <2>1. Needed(t, Round(r))
    BY Zenon DEF Needed, Marks
  <2>2. Id(r)
    BY <2>1, KeyIs DEF WholeInv, NeedsOK, OldKey
  <2>3. QED
    BY <1>2, <2>2, Zenon DEF WholeInv, ValuesOK, RoundIndexOK
<1>8. SupersededOK'
  BY <1>1, Zenon DEF WholeInv, ValuesOK, SupersededOK
<1>9. ops'[p] = Tail(b) /\ IsSeq(b) /\ b # <<>> /\ \A q \in Proc : q # p => ops'[q] = ops[q]
  BY ApplyIs
<1>10. \A i, k : PutsAt(Tail(b), i, k) => i \in Nat /\ i + 1 # 1 /\ PutsAt(b, i + 1, k)
  BY <1>9, TailShift
<1>11. \A t : \A q, r \in Proc : \A i, j :
         PutsAt(ops[q], i, Text(t)) /\ PutsAt(ops[r], j, Text(t)) => q = r /\ i = j
  BY DEF WholeInv, TextOnce
<1>12. ASSUME NEW t, NEW q \in Proc, NEW i, PutsAt(ops'[q], i, Text(t))
       PROVE  \/ q = p /\ i \in Nat /\ i + 1 # 1 /\ PutsAt(b, i + 1, Text(t))
              \/ q # p /\ PutsAt(ops[q], i, Text(t))
  BY <1>9, <1>10, <1>12, Zenon
<1>13. \A t : Has(Text(t))' => ~Pending(Text(t))'
  <2> SUFFICES ASSUME NEW t, Has(Text(t))', Pending(Text(t))'
               PROVE  FALSE
    BY Zenon
  <2>1. Pending(Text(t)) /\ ~Has(Text(t))
    BY <1>1, Zenon DEF WholeInv, TextOnce
  <2>2. PICK v : Stored(Text(t), v)'
    BY Zenon DEF Stored, Has
  <2>3. PutsAt(b, 1, Text(t))
    <3>1. ~Stored(Text(t), v)
      BY <2>1 DEF Stored, Has
    <3>2. PutAt(b, 1, Text(t), v)
      BY <2>2, <3>1, ApplyIs
    <3>3. QED
      BY <3>2, PutsIs
  <2>4. PICK q, i : q \in Proc /\ PutsAt(ops'[q], i, Text(t))
    BY Zenon DEF Pending
  <2>5. CASE q = p
    <3>1. i + 1 # 1 /\ PutsAt(b, i + 1, Text(t))
      BY <1>12, <2>4, <2>5
    <3>2. QED
      BY <1>11, <2>3, <3>1, Zenon
  <2>6. CASE q # p
    BY <1>11, <1>12, <2>3, <2>4, <2>6, Zenon
  <2>7. QED
    BY <2>5, <2>6
<1>14. ASSUME NEW t, NEW q \in Proc, NEW r \in Proc, NEW i, NEW j,
              PutsAt(ops'[q], i, Text(t)), PutsAt(ops'[r], j, Text(t))
       PROVE  q = r /\ i = j
  <2>1. \/ q = p /\ i \in Nat /\ PutsAt(b, i + 1, Text(t))
        \/ q # p /\ PutsAt(ops[q], i, Text(t))
    BY <1>12, <1>14
  <2>2. \/ r = p /\ j \in Nat /\ PutsAt(b, j + 1, Text(t))
        \/ r # p /\ PutsAt(ops[r], j, Text(t))
    BY <1>12, <1>14
  <2>3. CASE q = p /\ r = p
    <3>1. i \in Nat /\ j \in Nat /\ i + 1 = j + 1
      BY <1>11, <2>1, <2>2, <2>3
    <3>2. QED
      BY <2>3, <3>1
  <2>4. CASE q # p /\ r # p
    BY <1>11, <2>1, <2>2, <2>4, Zenon
  <2>5. CASE (q = p /\ r # p) \/ (q # p /\ r = p)
    BY <1>11, <2>1, <2>2, <2>5, Zenon
  <2>6. QED
    BY <2>3, <2>4, <2>5
<1>15. TextOnce'
  BY <1>13, <1>14, Zenon DEF TextOnce
<1>16. QED
  BY <1>3, <1>4, <1>5, <1>6, <1>7, <1>8, <1>15 DEF ValuesOK

LEMMA IdleIsFine == CallRests(Idle) /\ DeletesOK(Idle)
<1>1. Idle.pc = "idle"
  BY DEF Idle
<1>2. QED
  BY <1>1 DEF CallRests, DeletesOK

LEMMA ApplyBatches ==
  ASSUME RoundsInv, WholeInv, NEW p \in Proc, ApplyOp(p)
  PROVE  StoreRests' /\ BatchesOK'
<1> DEFINE b == ops[p]
<1>0. PICK c : c = Tail(b)
  OBVIOUS
<1>1. /\ IsSeq(b) /\ b # <<>> /\ ops'[p] = c
      /\ \A q \in Proc : q # p => ops'[q] = ops[q]
      /\ \A q \in Proc : call'[q] = call[q] \/ (call'[q] = Idle /\ ops'[q] = <<>>)
      /\ \A k : Has(k) => Has(k)' \/ EraseAt(b, 1, k)
      /\ \A k : PutsAt(b, 1, k) => Has(k)'
      /\ \A k, v : Stored(k, v)' => Stored(k, v) \/ PutAt(b, 1, k, v)
  BY <1>0, ApplyIs
<1>2. /\ \A t : Live(t)' => Live(t)
  BY ApplyNeeds
<1>3. /\ \A t : Falls(b, 1, t) => ~Live(t)
      /\ \A x, t : Doomed(x, t) => Doomed(x, t)'
      /\ \A x, k : Loose(x, k) => Loose(x, k)'
      /\ \A x : Safe(x) => Safe(x)'
      /\ Safe(ops[p])'
  BY ApplySafe
<1>4. /\ \A i, k, v : PutAt(c, i, k, v) => i \in Nat /\ PutAt(b, i + 1, k, v)
      /\ \A i, k : PutsAt(b, i, k) => i \in Nat /\ (i = 1 \/ (i - 1 \in Nat /\ PutsAt(c, i - 1, k)))
  BY <1>0, <1>1, TailShift
<1>5. BatchRests(b) /\ Safe(b)
  BY DEF WholeInv, BatchesOK
<1>6. \A k, v : PutAt(b, 1, k, v) => Written(k, v)
  BY PutsIs, Zenon DEF Written
<1> HIDE DEF b
<1>7. \A t, k : Needed(t, k) /\ Live(t) /\ Has(k) => Has(k)'
  BY <1>1, <1>3, <1>5, Zenon DEF Safe, Careful
<1>8. \A t, k, v, k2 : Written(k, v) /\ Rests(t, k, v, k2) => Needed(t, k2)
  BY RestsIsNeeded, Zenon
<1>9. StoreRests'
  <2> SUFFICES ASSUME NEW t, NEW k, NEW v, NEW k2, Stored(k, v)', Rests(t, k, v, k2), Live(t)'
               PROVE  Has(k2)'
    BY Zenon DEF StoreRests
  <2>1. Written(k, v) /\ Live(t)
    BY <1>1, <1>2, <1>6, Zenon DEF Written
  <2>2. Has(k2)
    <3>1. CASE Stored(k, v)
      BY <2>1, <3>1, Zenon DEF WholeInv, StoreRests
    <3>2. CASE PutAt(b, 1, k, v)
      <4>1. Has(k2) \/ \E j : j < 1 /\ PutsAt(b, j, k2)
        BY <1>5, <2>1, <3>2, Zenon DEF BatchRests
      <4>2. \A j : PutsAt(b, j, k2) => ~(j < 1)
        <5> SUFFICES ASSUME NEW j, PutsAt(b, j, k2), j < 1
                     PROVE  FALSE
          BY Zenon
        <5>1. j \in Nat /\ (j = 1 \/ j - 1 \in Nat)
          BY <1>4
        <5>2. QED
          BY <5>1
      <4>3. QED
        BY <4>1, <4>2
    <3>3. QED
      BY <1>1, <3>1, <3>2
  <2>3. QED
    BY <1>7, <1>8, <2>1, <2>2, Zenon
<1>10. BatchRests(ops[p])'
  <2> SUFFICES ASSUME NEW t, NEW i, NEW k, NEW v, NEW k2, PutAt(c, i, k, v), Rests(t, k, v, k2), Live(t)'
               PROVE  Has(k2)' \/ \E j : j < i /\ PutsAt(c, j, k2)
    BY <1>1, Zenon DEF BatchRests
  <2>1. i \in Nat /\ PutAt(b, i + 1, k, v)
    BY <1>4
  <2>2. Live(t) /\ Written(k, v)
    <3>1. Puts(b, k, v)
      BY <2>1, PutsIs
    <3>2. QED
      BY <1>2, <3>1, Zenon DEF Written, b
  <2>3. Has(k2) \/ \E j : j < i + 1 /\ PutsAt(b, j, k2)
    BY <1>5, <2>1, <2>2, Zenon DEF BatchRests
  <2>4. CASE Has(k2)
    BY <1>7, <1>8, <2>2, <2>4, Zenon
  <2>5. ASSUME NEW j, j < i + 1, PutsAt(b, j, k2)
        PROVE  Has(k2)' \/ \E n : n < i /\ PutsAt(c, n, k2)
    <3>1. CASE j = 1
      BY <1>1, <2>5, <3>1
    <3>2. CASE j # 1
      <4>1. j \in Nat /\ j - 1 \in Nat /\ PutsAt(c, j - 1, k2)
        BY <1>4, <2>5, <3>2
      <4>2. j - 1 < i
        BY <2>1, <2>5, <4>1
      <4>3. QED
        BY <4>1, <4>2
    <3>3. QED
      BY <3>1, <3>2
  <2>6. QED
    BY <2>3, <2>4, <2>5
<1>11. ASSUME NEW q \in Proc, q # p
       PROVE  BatchRests(ops[q])'
  <2>1. PICK x : x = ops[q]
    OBVIOUS
  <2>2. ops'[q] = x /\ BatchRests(x)
    BY <1>1, <1>11, <2>1 DEF WholeInv, BatchesOK
  <2> SUFFICES ASSUME NEW t, NEW i, NEW k, NEW v, NEW k2, PutAt(x, i, k, v), Rests(t, k, v, k2), Live(t)'
               PROVE  Has(k2)' \/ \E j : j < i /\ PutsAt(x, j, k2)
    BY <2>2, Zenon DEF BatchRests
  <2>3. Live(t) /\ Written(k, v)
    <3>1. Puts(x, k, v)
      BY PutsIs
    <3>2. QED
      BY <1>2, <2>1, <3>1, Zenon DEF Written
  <2>4. Has(k2) \/ \E j : j < i /\ PutsAt(x, j, k2)
    BY <2>2, <2>3, Zenon DEF BatchRests
  <2>5. QED
    BY <1>7, <1>8, <2>3, <2>4, Zenon
<1>12. ASSUME NEW q \in Proc
       PROVE  CallRests(call[q])'
  <2>1. PICK d : d = call[q]
    OBVIOUS
  <2>2. CallRests(d) /\ GoodCall(d)
    BY <2>1, OwnCallIsGood DEF WholeInv, BatchesOK
  <2>3. CallRests(d)'
    <3> SUFFICES ASSUME d.pc \in {"text", "tally"}, NEW t, NEW k2, Rests(t, Round(d.round), d.read, k2), Live(t)'
                 PROVE  Has(k2)'
      BY Zenon DEF CallRests
    <3>1. HasSlots(d.round, d.read.text, d.read.slots)
      BY <2>2, Zenon DEF GoodCall, CallSlots
    <3>2. Needed(t, k2)
      BY <3>1, RestsIsNeeded, Zenon
    <3>3. Has(k2)
      BY <1>2, <2>2, Zenon DEF CallRests
    <3>4. QED
      BY <1>2, <1>7, <3>2, <3>3, Zenon
  <2>4. CASE call'[q] = d
    BY <2>3, <2>4
  <2>5. CASE call'[q] = Idle
    BY <2>5 DEF CallRests, Idle
  <2>6. QED
    BY <1>1, <2>1, <2>4, <2>5
<1>13. ASSUME NEW q \in Proc
       PROVE  DeletesOK(call[q])'
  <2>1. PICK d : d = call[q]
    OBVIOUS
  <2>2. DeletesOK(d)
    BY <2>1 DEF WholeInv, BatchesOK
  <2>3. \A x, scan : ScanOK(x, scan) => ScanOK(x, scan)'
    BY <1>3, Zenon DEF ScanOK
  <2>4. DeletesOK(d)'
    BY <1>3, <2>2, <2>3, Zenon DEF DeletesOK, ScansOK
  <2>5. CASE call'[q] = d
    BY <2>4, <2>5
  <2>6. CASE call'[q] = Idle
    BY <2>6 DEF DeletesOK, Idle
  <2>7. QED
    BY <1>1, <2>1, <2>5, <2>6
<1>14. ASSUME NEW q \in Proc
       PROVE  Safe(ops[q])' /\ (call'[q].pc = "idle" => ops'[q] = <<>>)
  <2>1. Safe(ops[q]) /\ (call[q].pc = "idle" => ops[q] = <<>>)
    BY DEF WholeInv, BatchesOK
  <2>2. Safe(ops[q])'
    <3>1. CASE q = p
      BY <1>3, <3>1
    <3>2. CASE q # p
      BY <1>1, <1>3, <2>1, <3>2
    <3>3. QED
      BY <3>1, <3>2
  <2>3. call'[q].pc = "idle" => ops'[q] = <<>>
    <3>1. CASE q = p /\ call'[q] = call[q]
      BY <1>1, <2>1, <3>1 DEF b
    <3>2. CASE q # p /\ call'[q] = call[q]
      BY <1>1, <2>1, <3>2
    <3>3. QED
      BY <1>1, <3>1, <3>2
  <2>4. QED
    BY <2>2, <2>3
<1>15. BatchesOK'
  BY <1>10, <1>11, <1>12, <1>13, <1>14, Zenon DEF BatchesOK
<1>16. QED
  BY <1>9, <1>15

LEMMA ApplyHeads ==
  ASSUME RoundsInv, WholeInv, NEW p \in Proc, ApplyOp(p)
  PROVE  HeadsOK'
<1> SUFFICES ASSUME ~interrupted', NEW t, Live(t)', ~Closing(t)'
             PROVE  OpenText(t)'
  BY Zenon DEF HeadsOK
<1>1. ~interrupted /\ Live(t)
  BY ApplyIs, ApplyNeeds
<1>2. ~Closing(t)
  BY <1>1, ApplySafe
<1>3. OpenText(t)
  BY <1>1, <1>2 DEF WholeInv, HeadsOK
<1>4. Coming(CurrentRound(t))'
  <2>1. ~EraseAt(ops[p], 1, CurrentRound(t))
    <3>1. ~Falls(ops[p], 1, t)
      BY <1>1, ApplySafe
    <3>2. QED
      BY <1>1, <1>2, <3>1, Zenon DEF WholeInv, BatchesOK, Safe, HeadCareful
  <2>2. Coming(CurrentRound(t))
    BY <1>3 DEF OpenText
  <2>3. QED
    BY <2>1, <2>2, ApplyNeeds
<1>5. \A r, v : Written(Round(r), v)' => Written(Round(r), v)
  BY ApplyNeeds
<1>6. QED
  BY <1>3, <1>4, <1>5, Zenon DEF OpenText

LEMMA ApplyInv ==
  ASSUME RoundsInv, WholeInv, StepOK, NEW p \in Proc, ApplyOp(p)
  PROVE  WholeInv'
BY ApplyKeys, ApplyBatches, ApplyHeads DEF WholeInv

-----------------------------------------------------------------------------
(* Batches, operation by operation.                                        *)

\* The sequence c is a and then m.
Joins(c, a, m) ==
  /\ IsSeq(c) /\ Len(a) \in Nat
  /\ \A i \in DOMAIN c : \/ i \in DOMAIN a /\ c[i] = a[i]
                         \/ i - Len(a) \in DOMAIN m /\ c[i] = m[i - Len(a)] /\ i \in Nat /\ Len(a) < i
  /\ \A i \in DOMAIN a : i \in DOMAIN c /\ c[i] = a[i] /\ i \in Nat /\ i <= Len(a)
  /\ \A i \in DOMAIN m : i + Len(a) \in DOMAIN c /\ c[i + Len(a)] = m[i]

LEMMA JoinsAt ==
  ASSUME NEW a, NEW m, IsSeq(a), IsSeq(m)
  PROVE  Joins(a \o m, a, m)
<1>1. PICK S : a \in Seq(S)
  BY DEF IsSeq
<1>2. PICK T : m \in Seq(T)
  BY DEF IsSeq
<1>3. a \in Seq(S \cup T) /\ m \in Seq(S \cup T)
  BY <1>1, <1>2
<1> DEFINE c == a \o m
<1>4. c \in Seq(S \cup T) /\ Len(c) = Len(a) + Len(m) /\ Len(a) \in Nat /\ Len(m) \in Nat
  BY <1>3
<1>5. \A i \in 1 .. Len(c) : c[i] = IF i <= Len(a) THEN a[i] ELSE m[i - Len(a)]
  BY <1>3
<1> HIDE DEF c
<1>6. DOMAIN c = 1 .. Len(c) /\ DOMAIN a = 1 .. Len(a) /\ DOMAIN m = 1 .. Len(m)
  BY <1>3, <1>4
<1>7. \A i \in DOMAIN c : \/ i \in DOMAIN a /\ c[i] = a[i]
                          \/ i - Len(a) \in DOMAIN m /\ c[i] = m[i - Len(a)] /\ i \in Nat /\ Len(a) < i
  BY <1>4, <1>5, <1>6
<1>8. \A i \in DOMAIN a : i \in DOMAIN c /\ c[i] = a[i] /\ i \in Nat /\ i <= Len(a)
  BY <1>4, <1>5, <1>6
<1>9. \A i \in DOMAIN m : i + Len(a) \in DOMAIN c /\ c[i + Len(a)] = m[i]
  <2> TAKE i \in DOMAIN m
  <2>1. i \in Nat /\ i >= 1 /\ i + Len(a) \in 1 .. Len(c) /\ ~(i + Len(a) <= Len(a)) /\ (i + Len(a)) - Len(a) = i
    BY <1>4, <1>6
  <2>2. QED
    BY <1>5, <1>6, <2>1
<1>10. IsSeq(c)
  BY <1>4 DEF IsSeq
<1>11. QED
  BY <1>4, <1>7, <1>8, <1>9, <1>10 DEF c, Joins

LEMMA ConcatAt ==
  ASSUME NEW a, NEW m, IsSeq(a), IsSeq(m)
  PROVE  LET c == a \o m
         IN  /\ IsSeq(c) /\ Len(a) \in Nat
             /\ \A i \in DOMAIN c : \/ i \in DOMAIN a /\ c[i] = a[i]
                                    \/ i - Len(a) \in DOMAIN m /\ c[i] = m[i - Len(a)] /\ i \in Nat /\ Len(a) < i
             /\ \A i \in DOMAIN a : i \in DOMAIN c /\ c[i] = a[i] /\ i \in Nat /\ i <= Len(a)
             /\ \A i \in DOMAIN m : i + Len(a) \in DOMAIN c /\ c[i + Len(a)] = m[i]
<1> DEFINE c == a \o m
<1>1. Joins(c, a, m)
  BY JoinsAt
<1> HIDE DEF c
<1>2. /\ IsSeq(c) /\ Len(a) \in Nat
      /\ \A i \in DOMAIN c : \/ i \in DOMAIN a /\ c[i] = a[i]
                             \/ i - Len(a) \in DOMAIN m /\ c[i] = m[i - Len(a)] /\ i \in Nat /\ Len(a) < i
      /\ \A i \in DOMAIN a : i \in DOMAIN c /\ c[i] = a[i] /\ i \in Nat /\ i <= Len(a)
      /\ \A i \in DOMAIN m : i + Len(a) \in DOMAIN c /\ c[i + Len(a)] = m[i]
  BY <1>1 DEF Joins
<1>3. QED
  BY <1>2 DEF c

\* A batch that only touches indexes on which nothing rests.
Plain(m) == IsSeq(m) /\ \A i \in DOMAIN m : m[i].key[1] \notin Families
Extends(b, a) ==
  /\ IsSeq(b)
  /\ \A i, k, v : k[1] \in Families => (PutAt(b, i, k, v) <=> PutAt(a, i, k, v))
  /\ \A i, k : k[1] \in Families => (EraseAt(b, i, k) <=> EraseAt(a, i, k))

LEMMA PlainExtends ==
  ASSUME NEW a, NEW m, IsSeq(a), Plain(m)
  PROVE  Extends(a \o m, a)
<1> DEFINE c == a \o m
<1>1. /\ IsSeq(c)
      /\ \A i \in DOMAIN c : \/ i \in DOMAIN a /\ c[i] = a[i]
                             \/ i - Len(a) \in DOMAIN m /\ c[i] = m[i - Len(a)]
      /\ \A i \in DOMAIN a : i \in DOMAIN c /\ c[i] = a[i]
  <2>1. IsSeq(a) /\ IsSeq(m)
    BY DEF Plain
  <2> HIDE DEF c
  <2>2. /\ IsSeq(c) /\ Len(a) \in Nat
        /\ \A i \in DOMAIN c : \/ i \in DOMAIN a /\ c[i] = a[i]
                               \/ i - Len(a) \in DOMAIN m /\ c[i] = m[i - Len(a)] /\ i \in Nat /\ Len(a) < i
        /\ \A i \in DOMAIN a : i \in DOMAIN c /\ c[i] = a[i] /\ i \in Nat /\ i <= Len(a)
    BY <2>1, ConcatAt DEF c
  <2>3. QED
    BY <2>2, Zenon
<1> HIDE DEF c
<1>2. \A i \in DOMAIN c : i \in DOMAIN a \/ c[i].key[1] \notin Families
  BY <1>1, Zenon DEF Plain
<1>3. \A i, k, v : k[1] \in Families => (PutAt(c, i, k, v) <=> PutAt(a, i, k, v))
  BY <1>1, <1>2, Zenon DEF PutAt
<1>4. \A i, k : k[1] \in Families => (EraseAt(c, i, k) <=> EraseAt(a, i, k))
  BY <1>1, <1>2, Zenon DEF EraseAt
<1>5. QED
  BY <1>1, <1>3, <1>4 DEF Extends, c

LEMMA ExtendsOn ==
  ASSUME NEW a, NEW b, NEW c, Extends(a, b), Extends(b, c)
  PROVE  Extends(a, c)
BY Zenon DEF Extends

LEMMA PlainConcat ==
  ASSUME NEW a, NEW m, Plain(a), Plain(m)
  PROVE  Plain(a \o m)
<1> DEFINE c == a \o m
<1>1. /\ IsSeq(c)
      /\ \A i \in DOMAIN c : \/ i \in DOMAIN a /\ c[i] = a[i]
                             \/ i - Len(a) \in DOMAIN m /\ c[i] = m[i - Len(a)]
  <2>1. IsSeq(a) /\ IsSeq(m)
    BY DEF Plain
  <2>2. QED
    BY <2>1, ConcatAt
<1> HIDE DEF c
<1>2. Plain(c)
  BY <1>1, Zenon DEF Plain
<1>3. QED
  BY <1>2 DEF c

\* The operations of short batches.
IsErase(o, k) == o.tombstone /\ o.key = k
Does(b, i, o) == i \in DOMAIN b /\ b[i] = o

LEMMA OneAt ==
  ASSUME NEW w
  PROVE  LET b == << w >>
         IN  IsSeq(b) /\ Does(b, 1, w) /\ \A i \in DOMAIN b : i = 1 /\ b[i] = w
<1>1. << w >> \in Seq({w}) /\ DOMAIN << w >> = {1} /\ << w >>[1] = w
  OBVIOUS
<1>2. QED
  BY <1>1 DEF IsSeq, Does

LEMMA TwoAt ==
  ASSUME NEW w, NEW x
  PROVE  LET b == << w, x >>
         IN  /\ IsSeq(b) /\ Does(b, 1, w) /\ Does(b, 2, x)
             /\ \A i \in DOMAIN b : (i = 1 /\ b[i] = w) \/ (i = 2 /\ b[i] = x)
<1> DEFINE b == << w, x >>
<1>1. b \in Seq({w, x}) /\ DOMAIN b = {1, 2} /\ b[1] = w /\ b[2] = x
  OBVIOUS
<1> HIDE DEF b
<1>2. QED
  BY <1>1 DEF IsSeq, Does, b

LEMMA ThreeAt ==
  ASSUME NEW w, NEW x, NEW y
  PROVE  LET b == << w, x, y >>
         IN  /\ IsSeq(b) /\ Len(b) = 3 /\ Does(b, 1, w) /\ Does(b, 2, x) /\ Does(b, 3, y)
             /\ \A i \in DOMAIN b : (i = 1 /\ b[i] = w) \/ (i = 2 /\ b[i] = x) \/ (i = 3 /\ b[i] = y)
<1> DEFINE b == << w, x, y >>
<1>1. b \in Seq({w, x, y}) /\ Len(b) = 3 /\ DOMAIN b = {1, 2, 3} /\ b[1] = w /\ b[2] = x /\ b[3] = y
  OBVIOUS
<1> HIDE DEF b
<1>2. QED
  BY <1>1 DEF IsSeq, Does, b

LEMMA FourAt ==
  ASSUME NEW w, NEW x, NEW y, NEW z
  PROVE  LET b == << w, x, y, z >>
         IN  /\ IsSeq(b) /\ Len(b) = 4 /\ Does(b, 1, w) /\ Does(b, 2, x) /\ Does(b, 3, y) /\ Does(b, 4, z)
             /\ \A i \in DOMAIN b : \/ (i = 1 /\ b[i] = w) \/ (i = 2 /\ b[i] = x) \/ (i = 3 /\ b[i] = y)
                                    \/ (i = 4 /\ b[i] = z)
<1> DEFINE b == << w, x, y, z >>
<1>1. /\ b \in Seq({w, x, y, z}) /\ Len(b) = 4 /\ DOMAIN b = {1, 2, 3, 4}
      /\ b[1] = w /\ b[2] = x /\ b[3] = y /\ b[4] = z
  OBVIOUS
<1> HIDE DEF b
<1>2. QED
  BY <1>1 DEF IsSeq, Does, b

\* What a put puts, and what a deletion deletes.
LEMMA OpIs ==
  /\ \A j, w : ~Put(j, w).tombstone /\ Put(j, w).key = j /\ Put(j, w).val = w
  /\ \A j : Delete(j).tombstone /\ Delete(j).key = j
BY DEF Put, Delete

LEMMA FreshKinds ==
  ASSUME NEW b, NEW v
  PROVE  /\ \A k : k[1] \notin Families => FreshPut(b, k, v)
         /\ \A t : New(t) => FreshPut(b, Text(t), v)
         /\ \A r : Id(r)' => FreshPut(b, Round(r), v)
         /\ \A f : New(f) => FreshPut(b, Fragment(f), v)
         /\ \A t, s, f : New(f) => FreshPut(b, FragmentIndex(t, s, f), v)
         /\ \A t : New(v) /\ Id(t)' => FreshPut(b, CurrentRound(t), v)
         /\ \A t, r : New(r) /\ Id(t)' /\ Puts(b, CurrentRound(t), r) => FreshPut(b, RoundIndex(t, r), v)
         /\ \A t : New(v) /\ (\A w : Puts(b, Text(v), w) => w.previous = t) => FreshPut(b, SupersededBy(t), v)
<1> USE DEF FreshPut, Shaped, OldKey, New
<1>1. ASSUME NEW k, k[1] \notin Families PROVE FreshPut(b, k, v)
  BY <1>1 DEF Families, Text, Round, CurrentRound, RoundIndex, SupersededBy, Fragment, FragmentIndex
<1>2. ASSUME NEW t, New(t) PROVE FreshPut(b, Text(t), v)
  BY <1>2 DEF Text, Round, CurrentRound, RoundIndex, SupersededBy, Fragment, FragmentIndex
<1>3. ASSUME NEW r, Id(r)' PROVE FreshPut(b, Round(r), v)
  BY <1>3 DEF Text, Round, CurrentRound, RoundIndex, SupersededBy, Fragment, FragmentIndex
<1>4. ASSUME NEW f, New(f) PROVE FreshPut(b, Fragment(f), v)
  BY <1>4 DEF Text, Round, CurrentRound, RoundIndex, SupersededBy, Fragment, FragmentIndex
<1>5. ASSUME NEW t, NEW s, NEW f, New(f) PROVE FreshPut(b, FragmentIndex(t, s, f), v)
  BY <1>5 DEF Text, Round, CurrentRound, RoundIndex, SupersededBy, Fragment, FragmentIndex
<1>6. ASSUME NEW t, New(v), Id(t)' PROVE FreshPut(b, CurrentRound(t), v)
  BY <1>6 DEF Text, Round, CurrentRound, RoundIndex, SupersededBy, Fragment, FragmentIndex
<1>7. ASSUME NEW t, NEW r, New(r), Id(t)', Puts(b, CurrentRound(t), r) PROVE FreshPut(b, RoundIndex(t, r), v)
  <2>1. /\ \A a, d : RoundIndex(t, r) = RoundIndex(a, d) => a = t /\ d = r
        /\ RoundIndex(t, r)[1] = "roundindex" /\ RoundIndex(t, r)[2] = t /\ RoundIndex(t, r)[3] = r
    BY SameKey, KeyIs
  <2>2. /\ \A a : RoundIndex(t, r) # Text(a) /\ RoundIndex(t, r) # Fragment(a)
        /\ \A a : RoundIndex(t, r) # CurrentRound(a) /\ RoundIndex(t, r) # SupersededBy(a)
        /\ \A a, d, e : RoundIndex(t, r) # FragmentIndex(a, d, e)
    BY DEF Text, CurrentRound, RoundIndex, SupersededBy, Fragment, FragmentIndex
  <2>3. QED
    BY <1>7, <2>1, <2>2
<1>8. ASSUME NEW t, New(v), \A w : Puts(b, Text(v), w) => w.previous = t PROVE FreshPut(b, SupersededBy(t), v)
  <2>1. /\ \A a : SupersededBy(t) = SupersededBy(a) => a = t
        /\ SupersededBy(t)[1] = "supersededby" /\ SupersededBy(t)[2] = t
    BY SameKey, KeyIs
  <2>2. /\ \A a : SupersededBy(t) # Text(a) /\ SupersededBy(t) # Fragment(a)
        /\ \A a : SupersededBy(t) # CurrentRound(a)
        /\ \A a, d, e : SupersededBy(t) # FragmentIndex(a, d, e) /\ SupersededBy(t) # RoundIndex(a, d)
    BY DEF Text, CurrentRound, RoundIndex, SupersededBy, Fragment, FragmentIndex
  <2>3. QED
    BY <1>8, <2>1, <2>2
<1> HIDE DEF FreshPut, Shaped, OldKey, New
<1>9. QED
  BY <1>1, <1>2, <1>3, <1>4, <1>5, <1>6, <1>7, <1>8

-----------------------------------------------------------------------------
(* The batches that open a round: for a proposal, with a new text, and with *)
(* the fork of a text whose round is closed.                                *)

\* What a close of round q of text u, with the fork x, relies on.
Closes(u, q, y, x) ==
  /\ Id(u) /\ Id(q) /\ x.previous = u /\ y.text = u
  /\ \A i \in DOMAIN y.slots : Slot(u, y.slots[i])
  /\ \A k2 : Live(u) /\ Rests(u, Round(q), y, k2) => Has(k2)

\* Round r opens on text t, after n operations.
Opening(b, n, t, r, w) ==
  /\ PutAt(b, n + 1, Round(r), w) /\ PutAt(b, n + 2, CurrentRound(t), r) /\ PutAt(b, n + 4, RoundIndex(t, r), r)
  /\ w.text = t /\ w.status = "open" /\ w.slots = <<>>

\* The batch is made of that, the new text and what closes the other round.
OpeningPut(n, t, r, w, x, q, y, u, closes, i, k, v) ==
  \/ i = n + 1 /\ k = Round(r) /\ v = w
  \/ i = n + 2 /\ k = CurrentRound(t) /\ v = r
  \/ i = n + 4 /\ k = RoundIndex(t, r) /\ v = r
  \/ New(t) /\ i = 1 /\ k = Text(t) /\ v = x
  \/ closes /\ k = Round(q) /\ v = y
  \/ closes /\ k = SupersededBy(u) /\ v = t
OpeningOnly(b, n, t, r, w, x, q, y, u, closes) ==
  /\ IsSeq(b)
  /\ \A i, k, v : k[1] \in Families /\ PutAt(b, i, k, v) => OpeningPut(n, t, r, w, x, q, y, u, closes, i, k, v)
  /\ \A i, k : k[1] \in Families /\ EraseAt(b, i, k) => closes /\ k = CurrentRound(u)
  /\ closes => Puts(b, SupersededBy(u), t) /\ New(t) /\ Closes(u, q, y, x)

LEMMA FamiliesAre ==
  /\ \A a : Text(a)[1] \in Families /\ Round(a)[1] \in Families /\ CurrentRound(a)[1] \in Families
  /\ \A a : SupersededBy(a)[1] \in Families /\ Fragment(a)[1] \in Families
  /\ \A a, b : RoundIndex(a, b)[1] \in Families
  /\ \A a, b, c : FragmentIndex(a, b, c)[1] \in Families
  /\ \A t, k : Needed(t, k) => k[1] \in Families
<1>1. \A t, k : Needed(t, k) => k[1] \in Families
  BY NeededIs DEF Families
<1>2. QED
  BY <1>1, KeyIs DEF Families

\* The record of a round is the only one whose slots it rests on.
LEMMA RestsIs ==
  ASSUME NEW t, NEW v, NEW k2
  PROVE  /\ \A r : Rests(t, Round(r), v, k2) =>
              v.text = t /\ \E i \in DOMAIN v.slots : k2 \in SeedKeys(t, v.slots[i])
         /\ \A u : Rests(t, CurrentRound(u), v, k2) => t = u /\ k2 = Round(v)
         /\ \A u, r : Rests(t, RoundIndex(u, r), v, k2) => t = u /\ k2 = Round(r)
         /\ \A k : Rests(t, k, v, k2) => k[1] \in {"round", "currentround", "roundindex"}
<1>1. /\ \A a : Round(a)[1] = "round" /\ CurrentRound(a)[1] = "currentround"
      /\ \A a, b : RoundIndex(a, b)[1] = "roundindex"
  BY KeyIs
<1>2. \A r : Rests(t, Round(r), v, k2) => v.text = t /\ \E i \in DOMAIN v.slots : k2 \in SeedKeys(t, v.slots[i])
  BY <1>1 DEF Rests
<1>3. \A u : Rests(t, CurrentRound(u), v, k2) => t = u /\ k2 = Round(v)
  BY <1>1, SameKey DEF Rests
<1>4. \A u, r : Rests(t, RoundIndex(u, r), v, k2) => t = u /\ k2 = Round(r)
  BY <1>1, SameKey DEF Rests
<1>5. \A k : Rests(t, k, v, k2) => k[1] \in {"round", "currentround", "roundindex"}
  BY <1>1 DEF Rests
<1>6. QED
  BY <1>2, <1>3, <1>4, <1>5

LEMMA OpeningFresh ==
  ASSUME NEW b, NEW n \in Nat, NEW t, NEW r, NEW w, NEW x, NEW q, NEW y, NEW u, NEW closes,
         New(r), Id(t)', \A i : Id(i) => Id(i)',
         Opening(b, n, t, r, w), OpeningOnly(b, n, t, r, w, x, q, y, u, closes)
  PROVE  FreshPuts(b) /\ OneText(b) /\ Agree(b) /\ SlotsFrom(b)
<1>1. \A i, k, v : k[1] \in Families /\ PutAt(b, i, k, v) => OpeningPut(n, t, r, w, x, q, y, u, closes, i, k, v)
  BY DEF OpeningOnly
<1>2. Puts(b, CurrentRound(t), r)
  BY PutsIs, Zenon DEF Opening
<1>3. closes => New(t) /\ Closes(u, q, y, x)
  BY DEF OpeningOnly
<1>4. \A a, i, v : PutAt(b, i, Text(a), v) => i = 1 /\ a = t /\ v = x
  <2> SUFFICES ASSUME NEW a, NEW i, NEW v, PutAt(b, i, Text(a), v)
               PROVE  i = 1 /\ a = t /\ v = x
    BY Zenon
  <2>1. OpeningPut(n, t, r, w, x, q, y, u, closes, i, Text(a), v)
    BY <1>1, FamiliesAre, Zenon
  <2>2. /\ Text(a) # Round(r) /\ Text(a) # CurrentRound(t) /\ Text(a) # RoundIndex(t, r)
        /\ Text(a) # Round(q) /\ Text(a) # SupersededBy(u)
    BY DEF Text, Round, CurrentRound, RoundIndex, SupersededBy
  <2>3. QED
    BY <2>1, <2>2, SameKey DEF OpeningPut
<1>5. ASSUME NEW k, NEW v, Puts(b, k, v)
      PROVE  FreshPut(b, k, v)
  <2>1. CASE k[1] \notin Families
    BY <2>1, FreshKinds
  <2>2. CASE k[1] \in Families
    <3>1. PICK i : PutAt(b, i, k, v)
      BY <1>5, PutsIs
    <3>2. OpeningPut(n, t, r, w, x, q, y, u, closes, i, k, v)
      BY <1>1, <2>2, <3>1
    <3>3. CASE k = Round(r)
      BY <3>3, FreshKinds DEF New
    <3>4. CASE k = CurrentRound(t) /\ v = r
      BY <3>4, FreshKinds
    <3>5. CASE k = RoundIndex(t, r)
      BY <1>2, <3>5, FreshKinds
    <3>6. CASE New(t) /\ k = Text(t)
      BY <3>6, FreshKinds
    <3>7. CASE closes /\ k = Round(q)
      <4>1. Id(q)'
        BY <1>3, <3>7 DEF Closes
      <4>2. QED
        BY <3>7, <4>1, FreshKinds
    <3>8. CASE closes /\ k = SupersededBy(u) /\ v = t
      <4>1. New(t) /\ x.previous = u
        BY <1>3, <3>8 DEF Closes
      <4>2. \A z : Puts(b, Text(t), z) => z = x
        <5>1. \A z : Puts(b, Text(t), z) => \E j : PutAt(b, j, Text(t), z)
          BY PutsIs
        <5>2. QED
          BY <1>4, <5>1
      <4>3. QED
        BY <3>8, <4>1, <4>2, FreshKinds
    <3>9. QED
      BY <3>2, <3>3, <3>4, <3>5, <3>6, <3>7, <3>8 DEF OpeningPut
  <2>3. QED
    BY <2>1, <2>2
<1>6. OneText(b)
  <2> SUFFICES ASSUME NEW a, NEW e, NEW i, NEW j, PutsAt(b, i, Text(a)), PutsAt(b, j, Text(e))
               PROVE  i = j
    BY Zenon DEF OneText
  <2>1. PutAt(b, i, Text(a), b[i].val) /\ PutAt(b, j, Text(e), b[j].val)
    BY PutsIs
  <2>2. QED
    BY <1>4, <2>1
<1>7. Agree(b)
  <2> SUFFICES ASSUME NEW a, NEW s, NEW f, NEW v, Puts(b, FragmentIndex(a, s, f), v)
               PROVE  FALSE
    BY Zenon DEF Agree
  <2>1. PICK i : PutAt(b, i, FragmentIndex(a, s, f), v)
    BY PutsIs
  <2>2. OpeningPut(n, t, r, w, x, q, y, u, closes, i, FragmentIndex(a, s, f), v)
    BY <1>1, <2>1, FamiliesAre, Zenon
  <2>3. QED
    BY <2>2 DEF OpeningPut, Text, Round, CurrentRound, RoundIndex, SupersededBy, FragmentIndex
<1>8. SlotsFrom(b)
  <2> SUFFICES ASSUME NEW a, NEW v, NEW j, Puts(b, Round(a), v), j \in DOMAIN v.slots
               PROVE  Id(v.text) /\ (Slot(v.text, v.slots[j]) \/ Seeds(b, v.text, v.slots[j]))
    BY Zenon DEF SlotsFrom
  <2>1. PICK i : PutAt(b, i, Round(a), v)
    BY PutsIs
  <2>2. OpeningPut(n, t, r, w, x, q, y, u, closes, i, Round(a), v)
    BY <1>1, <2>1, FamiliesAre, Zenon
  <2>3. v = w \/ (closes /\ v = y)
    BY <2>2 DEF OpeningPut, Text, Round, CurrentRound, RoundIndex, SupersededBy
  <2>4. v # w
    <3>1. w.slots = <<>>
      BY DEF Opening
    <3>2. QED
      BY <3>1
  <2>5. QED
    BY <1>3, <2>3, <2>4 DEF Closes
<1>9. QED
  BY <1>5, <1>6, <1>7, <1>8 DEF FreshPuts

LEMMA OpeningGood ==
  ASSUME NEW b, NEW n \in Nat, NEW t, NEW r, NEW w, NEW x, NEW q, NEW y, NEW u, NEW closes,
         New(r), Id(t)', \A i : Id(i) => Id(i)',
         Opening(b, n, t, r, w), OpeningOnly(b, n, t, r, w, x, q, y, u, closes)
  PROVE  GoodBatch(b)
<1>1. \A i, k, v : k[1] \in Families /\ PutAt(b, i, k, v) => OpeningPut(n, t, r, w, x, q, y, u, closes, i, k, v)
  BY DEF OpeningOnly
<1>2. /\ PutsAt(b, n + 1, Round(r)) /\ Puts(b, CurrentRound(t), r)
      /\ w.text = t /\ w.status = "open" /\ w.slots = <<>>
  BY PutsIs DEF Opening
<1>3. closes => New(t) /\ Closes(u, q, y, x) /\ Puts(b, SupersededBy(u), t)
  BY DEF OpeningOnly
<1>4. FreshPuts(b) /\ OneText(b) /\ Agree(b) /\ SlotsFrom(b)
  BY OpeningFresh
<1>5. PutsRest(b)
  <2> SUFFICES ASSUME NEW a, NEW i, NEW k, NEW v, NEW k2, PutAt(b, i, k, v), Rests(a, k, v, k2)
               PROVE  (\E j : j < i /\ PutsAt(b, j, k2)) \/ (Id(a) /\ (Live(a) => Has(k2)))
    BY Zenon DEF PutsRest
  <2>1. k[1] \in {"round", "currentround", "roundindex"}
    BY RestsIs
  <2>2. OpeningPut(n, t, r, w, x, q, y, u, closes, i, k, v)
    BY <1>1, <2>1 DEF Families
  <2>3. CASE k = Round(r) /\ v = w
    <3>1. \E j \in DOMAIN w.slots : TRUE
      BY <2>3, RestsIs
    <3>2. QED
      BY <1>2, <3>1
  <2>4. CASE i = n + 2 /\ k = CurrentRound(t) /\ v = r
    <3>1. k2 = Round(r) /\ n + 1 < i
      BY <2>4, RestsIs
    <3>2. QED
      BY <1>2, <3>1
  <2>5. CASE i = n + 4 /\ k = RoundIndex(t, r)
    <3>1. k2 = Round(r)
      BY <2>5, RestsIs, Zenon
    <3>2. n + 1 < i
      BY <2>5
    <3>3. QED
      BY <1>2, <3>1, <3>2
  <2>6. CASE closes /\ k = Round(q) /\ v = y
    <3>1. y.text = a
      BY <2>6, RestsIs
    <3>2. QED
      BY <1>3, <2>6, <3>1, Zenon DEF Closes
  <2>7. CASE k = Text(t) \/ k = SupersededBy(u)
    BY <2>1, <2>7, KeyIs
  <2>8. QED
    BY <2>2, <2>3, <2>4, <2>5, <2>6, <2>7 DEF OpeningPut
<1>6. Opens(b)
  <2>1. ASSUME NEW a, NEW v, Puts(b, Text(a), v)
        PROVE  \E z : Puts(b, CurrentRound(a), z)
    <3>1. PICK i : PutAt(b, i, Text(a), v)
      BY <2>1, PutsIs
    <3>2. OpeningPut(n, t, r, w, x, q, y, u, closes, i, Text(a), v)
      BY <1>1, <3>1, FamiliesAre, Zenon
    <3>3. a = t
      BY <3>2 DEF OpeningPut, Text, Round, CurrentRound, RoundIndex, SupersededBy
    <3>4. QED
      BY <1>2, <3>3
  <2>2. ASSUME NEW a, NEW v, Puts(b, Round(a), v)
        PROVE  \/ v.status = "open"
               \/ \E z : Puts(b, SupersededBy(v.text), z)
               \/ \E z : Written(Round(a), z) /\ z.text = v.text /\ z.status = v.status
    <3>1. PICK i : PutAt(b, i, Round(a), v)
      BY <2>2, PutsIs
    <3>2. OpeningPut(n, t, r, w, x, q, y, u, closes, i, Round(a), v)
      BY <1>1, <3>1, FamiliesAre, Zenon
    <3>3. v = w \/ (closes /\ v = y)
      BY <3>2 DEF OpeningPut, Text, Round, CurrentRound, RoundIndex, SupersededBy
    <3>4. closes => y.text = u /\ Puts(b, SupersededBy(u), t)
      BY <1>3 DEF Closes
    <3>5. QED
      BY <1>2, <3>3, <3>4
  <2>3. QED
    BY <2>1, <2>2 DEF Opens
<1>7. ASSUME NEW i, NEW k, EraseAt(b, i, k)
      PROVE  k[1] \notin Families \/ (closes /\ k = CurrentRound(u))
  BY <1>7 DEF OpeningOnly
<1>8. Careful(b)
  <2> SUFFICES ASSUME NEW i, NEW k, EraseAt(b, i, k)
               PROVE  OldKey(k) /\ \A a : ~Needed(a, k)
    BY Zenon DEF Careful
  <2>1. k[1] \notin {"round", "fragment", "fragmentindex"}
    BY <1>7, KeyIs DEF Families
  <2>2. QED
    BY <2>1, NeededIs DEF OldKey
<1>9. HeadCarefulNew(b)
  <2> SUFFICES ASSUME NEW i, NEW a
               PROVE  /\ ~EraseAt(b, i, Text(a)) /\ ~EraseAt(b, i, SupersededBy(a))
                      /\ EraseAt(b, i, CurrentRound(a)) => Id(a) /\ (\E z : Puts(b, SupersededBy(a), z))
    BY Zenon DEF HeadCarefulNew
  <2>1. ~EraseAt(b, i, Text(a)) /\ ~EraseAt(b, i, SupersededBy(a))
    <3>1. Text(a) # CurrentRound(u) /\ SupersededBy(a) # CurrentRound(u)
      BY DEF Text, SupersededBy, CurrentRound
    <3>2. QED
      BY <1>7, <3>1, FamiliesAre, Zenon
  <2>2. ASSUME EraseAt(b, i, CurrentRound(a))
        PROVE  Id(a) /\ (\E z : Puts(b, SupersededBy(a), z))
    <3>0. closes /\ CurrentRound(a) = CurrentRound(u)
      BY <1>7, <2>2, FamiliesAre
    <3>1. closes /\ a = u
      BY <3>0, SameKey
    <3>2. QED
      BY <1>3, <3>1 DEF Closes
  <2>3. QED
    BY <2>1, <2>2
<1>10. QED
  BY <1>4, <1>5, <1>6, <1>8, <1>9 DEF GoodBatch, OpeningOnly

\* A round is opened after the operations a.
LEMMA OpeningAfter ==
  ASSUME NEW a, NEW t, NEW r, NEW number, IsSeq(a)
  PROVE  LET c == a \o OpenRoundOps(t, r, number)
             n == Len(a)
             w == Opened(t, number)
         IN  /\ IsSeq(c) /\ n \in Nat /\ Opening(c, n, t, r, w)
             /\ \A i, k, v : k[1] \in Families /\ PutAt(c, i, k, v) =>
                  \/ PutAt(a, i, k, v)
                  \/ i = n + 1 /\ k = Round(r) /\ v = w
                  \/ i = n + 2 /\ k = CurrentRound(t) /\ v = r
                  \/ i = n + 4 /\ k = RoundIndex(t, r) /\ v = r
             /\ \A i, k : EraseAt(c, i, k) => EraseAt(a, i, k)
             /\ \A i, k, v : PutAt(a, i, k, v) => PutAt(c, i, k, v)
<1> DEFINE w == Opened(t, number)
           p1 == Put(Round(r), w)
           p2 == Put(CurrentRound(t), r)
           p3 == Put(RoundCount(t), number)
           p4 == Put(RoundIndex(t, r), r)
           m == << p1, p2, p3, p4 >>
           c == a \o m
           n == Len(a)
<1>1. w.text = t /\ w.status = "open" /\ w.slots = <<>>
  BY DEF Opened
<1>2. OpenRoundOps(t, r, number) = m
  BY DEF OpenRoundOps, Opened
<1>3. /\ ~p1.tombstone /\ p1.key = Round(r) /\ p1.val = w
      /\ ~p2.tombstone /\ p2.key = CurrentRound(t) /\ p2.val = r
      /\ ~p3.tombstone /\ p3.key[1] \notin Families
      /\ ~p4.tombstone /\ p4.key = RoundIndex(t, r) /\ p4.val = r
  BY OpIs, KeyIs DEF Families
<1> HIDE DEF w, p1, p2, p3, p4
<1>4. /\ IsSeq(m) /\ Does(m, 1, p1) /\ Does(m, 2, p2) /\ Does(m, 4, p4)
      /\ \A i \in DOMAIN m : \/ (i = 1 /\ m[i] = p1) \/ (i = 2 /\ m[i] = p2) \/ (i = 3 /\ m[i] = p3)
                             \/ (i = 4 /\ m[i] = p4)
  BY FourAt
<1> HIDE DEF m
<1>5. /\ IsSeq(c) /\ n \in Nat
      /\ \A i \in DOMAIN c : \/ i \in DOMAIN a /\ c[i] = a[i]
                             \/ i - n \in DOMAIN m /\ c[i] = m[i - n] /\ i \in Nat /\ n < i
      /\ \A i \in DOMAIN a : i \in DOMAIN c /\ c[i] = a[i] /\ i \in Nat /\ i <= n
      /\ \A i \in DOMAIN m : i + n \in DOMAIN c /\ c[i + n] = m[i]
  BY <1>4, ConcatAt
<1> HIDE DEF c, n
<1>6. Does(c, n + 1, p1) /\ Does(c, n + 2, p2) /\ Does(c, n + 4, p4)
  <2>1. Does(c, 1 + n, p1) /\ Does(c, 2 + n, p2) /\ Does(c, 4 + n, p4)
    BY <1>4, <1>5, Zenon DEF Does
  <2>2. 1 + n = n + 1 /\ 2 + n = n + 2 /\ 4 + n = n + 4
    BY <1>5
  <2>3. QED
    BY <2>1, <2>2
<1>7. Opening(c, n, t, r, w)
  BY <1>1, <1>3, <1>6, Zenon DEF Opening, Does, PutAt
<1>8. \A i \in DOMAIN c : \/ i \in DOMAIN a /\ c[i] = a[i]
                          \/ i = n + 1 /\ c[i] = p1
                          \/ i = n + 2 /\ c[i] = p2
                          \/ c[i] = p3
                          \/ i = n + 4 /\ c[i] = p4
  <2> SUFFICES ASSUME NEW i \in DOMAIN c, i - n \in DOMAIN m, c[i] = m[i - n], i \in Nat
               PROVE  \/ i = n + 1 /\ c[i] = p1
                      \/ i = n + 2 /\ c[i] = p2
                      \/ c[i] = p3
                      \/ i = n + 4 /\ c[i] = p4
    BY <1>5, Zenon
  <2>1. PICK j : j = i - n
    OBVIOUS
  <2>2. \/ (j = 1 /\ m[j] = p1) \/ (j = 2 /\ m[j] = p2) \/ (j = 3 /\ m[j] = p3)
        \/ (j = 4 /\ m[j] = p4)
    BY <1>4, <2>1, Zenon
  <2>3. i = n + j
    BY <1>5, <2>1
  <2>4. QED
    BY <2>1, <2>2, <2>3
<1>9. \A i, k, v : k[1] \in Families /\ PutAt(c, i, k, v) =>
        \/ PutAt(a, i, k, v)
        \/ i = n + 1 /\ k = Round(r) /\ v = w
        \/ i = n + 2 /\ k = CurrentRound(t) /\ v = r
        \/ i = n + 4 /\ k = RoundIndex(t, r) /\ v = r
  <2> SUFFICES ASSUME NEW i, NEW k, NEW v, k[1] \in Families, PutAt(c, i, k, v)
               PROVE  \/ PutAt(a, i, k, v)
                      \/ i = n + 1 /\ k = Round(r) /\ v = w
                      \/ i = n + 2 /\ k = CurrentRound(t) /\ v = r
                      \/ i = n + 4 /\ k = RoundIndex(t, r) /\ v = r
    BY Zenon
  <2>1. i \in DOMAIN c /\ ~c[i].tombstone /\ c[i].key = k /\ c[i].val = v
    BY DEF PutAt
  <2>2. QED
    BY <1>3, <1>8, <2>1 DEF PutAt
<1>10. \A i, k : EraseAt(c, i, k) => EraseAt(a, i, k)
  BY <1>3, <1>8 DEF EraseAt
<1>11. \A i, k, v : PutAt(a, i, k, v) => PutAt(c, i, k, v)
  BY <1>5, Zenon DEF PutAt
<1>12. QED
  BY <1>2, <1>5, <1>7, <1>9, <1>10, <1>11 DEF c, n, w

LEMMA OpeningExtends ==
  ASSUME NEW b, NEW a, NEW n, NEW t, NEW r, NEW w, NEW x, NEW q, NEW y, NEW u, NEW closes,
         Extends(b, a), Opening(a, n, t, r, w), OpeningOnly(a, n, t, r, w, x, q, y, u, closes)
  PROVE  Opening(b, n, t, r, w) /\ OpeningOnly(b, n, t, r, w, x, q, y, u, closes)
<1>1. /\ \A i, k, v : k[1] \in Families => (PutAt(b, i, k, v) <=> PutAt(a, i, k, v))
      /\ \A i, k : k[1] \in Families => (EraseAt(b, i, k) <=> EraseAt(a, i, k))
      /\ IsSeq(b)
  BY DEF Extends
<1>2. Opening(b, n, t, r, w)
  BY <1>1, FamiliesAre, Zenon DEF Opening
<1>3. Puts(a, SupersededBy(u), t) => Puts(b, SupersededBy(u), t)
  <2>1. Puts(a, SupersededBy(u), t) => \E i : PutAt(a, i, SupersededBy(u), t)
    BY PutsIs
  <2>2. (\E i : PutAt(b, i, SupersededBy(u), t)) => Puts(b, SupersededBy(u), t)
    BY PutsIs
  <2>3. QED
    BY <1>1, <2>1, <2>2, FamiliesAre, Zenon
<1>4. \A i, k, v : k[1] \in Families /\ PutAt(b, i, k, v) => OpeningPut(n, t, r, w, x, q, y, u, closes, i, k, v)
  <2>1. \A i, k, v : k[1] \in Families /\ PutAt(a, i, k, v) => OpeningPut(n, t, r, w, x, q, y, u, closes, i, k, v)
    BY DEF OpeningOnly
  <2>2. QED
    BY <1>1, <2>1, Zenon
<1>5. \A i, k : k[1] \in Families /\ EraseAt(b, i, k) => closes /\ k = CurrentRound(u)
  <2>1. \A i, k : k[1] \in Families /\ EraseAt(a, i, k) => closes /\ k = CurrentRound(u)
    BY DEF OpeningOnly
  <2>2. QED
    BY <1>1, <2>1
<1>6. QED
  BY <1>1, <1>2, <1>3, <1>4, <1>5, Zenon DEF OpeningOnly

LEMMA IdsStay ==
  ASSUME RoundsInv, StepOK
  PROVE  \A i : Id(i) => Id(i)'
BY DEF StepOK, Keeps, Id, RoundsInv, ShapesOK

-----------------------------------------------------------------------------
(* Steps of a process that has nothing to write.                           *)

Turn(p, c, b) == Local(p, c, b) /\ interrupted' = interrupted /\ ops[p] = <<>>

LEMMA TurnInv ==
  ASSUME RoundsInv, WholeInv, StepOK, NEW p \in Proc, NEW c, NEW b, Turn(p, c, b), GoodBatch(b), GoodCall(c),
         c.pc = "idle" => b = <<>>
  PROVE  WholeInv'
<1>1. GoodStep(p, c, b)
  BY DEF GoodStep, Turn
<1>2. QED
  BY <1>1, GoodStepInv

LEMMA IdleHasNoBatch ==
  ASSUME WholeInv, NEW p \in Proc, call[p].pc = "idle"
  PROVE  ops[p] = <<>>
BY DEF WholeInv, BatchesOK

LEMMA CallTurn ==
  ASSUME RoundsInv, NEW p \in Proc, NEW c, db' = db, ops' = ops, ops[p] = <<>>, interrupted' = interrupted,
         call' = [call EXCEPT ![p] = c]
  PROVE  Turn(p, c, <<>>)
<1>1. ops = [ops EXCEPT ![p] = ops[p]]
  BY OwnBatchIsKnown
<1>2. QED
  BY <1>1 DEF Turn, Local

\* A batch of indexes on which nothing rests.
LEMMA PlainGood ==
  ASSUME NEW b, Plain(b)
  PROVE  GoodBatch(b)
<1>1. IsSeq(b) /\ \A i \in DOMAIN b : b[i].key[1] \notin Families
  BY DEF Plain
<1>2. \A i, k : PutsAt(b, i, k) \/ EraseAt(b, i, k) => k[1] \notin Families
  BY <1>1, Zenon DEF PutsAt, EraseAt
<1>3. \A k, v : Puts(b, k, v) => k[1] \notin Families
  BY <1>1, Zenon DEF Puts
<1>4. FreshPuts(b)
  BY <1>3, FreshKinds, Zenon DEF FreshPuts
<1>5. OneText(b) /\ Agree(b) /\ SlotsFrom(b) /\ Opens(b)
  BY <1>2, <1>3, FamiliesAre, Zenon DEF OneText, Agree, SlotsFrom, Opens
<1>6. PutsRest(b)
  <2> SUFFICES ASSUME NEW t, NEW i, NEW k, NEW v, NEW k2, PutAt(b, i, k, v), Rests(t, k, v, k2)
               PROVE  FALSE
    BY Zenon DEF PutsRest
  <2>1. k[1] \in {"round", "currentround", "roundindex"}
    BY RestsIs
  <2>2. k[1] \notin Families
    BY <1>3, PutsIs
  <2>3. QED
    BY <2>1, <2>2 DEF Families
<1>7. Careful(b)
  <2> SUFFICES ASSUME NEW i, NEW k, EraseAt(b, i, k)
               PROVE  OldKey(k) /\ \A t : ~Needed(t, k)
    BY Zenon DEF Careful
  <2>1. k[1] \notin Families
    BY <1>2, Zenon
  <2>2. QED
    BY <2>1, FamiliesAre DEF OldKey, Families
<1>8. HeadCarefulNew(b)
  BY <1>2, FamiliesAre, Zenon DEF HeadCarefulNew
<1>9. QED
  BY <1>1, <1>4, <1>5, <1>6, <1>7, <1>8 DEF GoodBatch

LEMMA EmptyIsPlain == Plain(<<>>)
BY EmptyIsSeq DEF Plain

\* A call that has read no round and deletes nothing.
LEMMA SilentIsGood ==
  ASSUME NEW c, c.pc \notin {"text", "tally", "collect", "next"}
  PROVE  GoodCall(c)
BY DEF GoodCall, CallSlots, CallRests, DeletesOK

\* Only the call goes on, to a point at which it has read no round.
LEMMA SilentTurn ==
  ASSUME RoundsInv, WholeInv, StepOK, NEW p \in Proc, NEW c, db' = db, ops' = ops, ops[p] = <<>>,
         interrupted' = interrupted, call' = [call EXCEPT ![p] = c], GoodCall(c)
  PROVE  WholeInv'
<1>1. Turn(p, c, <<>>)
  BY CallTurn
<1>2. GoodBatch(<<>>)
  BY EmptyIsPlain, PlainGood
<1>3. QED
  BY <1>1, <1>2, TurnInv

LEMMA OpenRoundWhole ==
  ASSUME RoundsInv, WholeInv, StepOK, NEW p \in Proc, OpenRound(p)
  PROVE  WholeInv'
<1>0. PICK c, r, number : /\ c = call[p] /\ r = nextID
                          /\ number = IF Has(RoundCount(c.text)) THEN db[RoundCount(c.text)] + 1 ELSE 1
  OBVIOUS
<1> DEFINE t == c.text
           d == [c EXCEPT !.pc = "opened", !.round = r, !.number = number]
           b == OpenRoundOps(t, r, number)
           w == Opened(t, number)
<1>1. c.pc = "count" /\ KnownCall(c) /\ nextID' = r + 1 /\ Turn(p, d, b)
  BY <1>0, OwnCallIsKnown DEF OpenRound, At, Becomes, Local, Turn, history
<1>2. ProposeCall(c) /\ HasContent(t, c.content)
  BY <1>1, Zenon DEF KnownCall, CallOK, CallContent, Proposing
<1>3. Id(t)' /\ New(r)
  <2>1. Id(t) /\ nextID \in Nat
    BY <1>2, Zenon DEF RoundsInv, ContentsOK, ShapesOK
  <2>2. QED
    BY <1>0, <1>1, <2>1 DEF Id, New
<1>4. d.pc = "opened"
  BY <1>2 DEF ProposeCall
<1>5. GoodCall(d)
  BY <1>4, SilentIsGood
<1> HIDE DEF d, t
<1>6. <<>> \o b = b
  <2>1. IsSeq(b)
    BY OpenRoundOpsAre DEF BatchOK
  <2>2. QED
    BY <2>1 DEF IsSeq
<1>7. /\ IsSeq(b) /\ Opening(b, 0, t, r, w)
      /\ \A i, k, v : k[1] \in Families /\ PutAt(b, i, k, v) =>
           \/ PutAt(<<>>, i, k, v)
           \/ i = 0 + 1 /\ k = Round(r) /\ v = w
           \/ i = 0 + 2 /\ k = CurrentRound(t) /\ v = r
           \/ i = 0 + 4 /\ k = RoundIndex(t, r) /\ v = r
      /\ \A i, k : EraseAt(b, i, k) => EraseAt(<<>>, i, k)
  <2>1. IsSeq(<<>>) /\ Len(<<>>) = 0
    BY EmptyIsSeq
  <2> DEFINE o == OpenRoundOps(t, r, number)
             e == <<>> \o o
  <2> HIDE DEF w, o, e
  <2>2. /\ IsSeq(e) /\ Opening(e, Len(<<>>), t, r, w)
        /\ \A i, k, v : k[1] \in Families /\ PutAt(e, i, k, v) =>
             \/ PutAt(<<>>, i, k, v)
             \/ i = Len(<<>>) + 1 /\ k = Round(r) /\ v = w
             \/ i = Len(<<>>) + 2 /\ k = CurrentRound(t) /\ v = r
             \/ i = Len(<<>>) + 4 /\ k = RoundIndex(t, r) /\ v = r
        /\ \A i, k : EraseAt(e, i, k) => EraseAt(<<>>, i, k)
    BY <2>1, OpeningAfter DEF e, o, w
  <2>3. e = b
    BY <1>6 DEF e, o
  <2> HIDE DEF b
  <2>4. QED
    BY <2>1, <2>2, <2>3
<1> HIDE DEF b, w
<1>8. \A i, k, v : ~PutAt(<<>>, i, k, v) /\ ~EraseAt(<<>>, i, k)
  BY DEF PutAt, EraseAt
<1>9. OpeningOnly(b, 0, t, r, w, 0, 0, 0, 0, FALSE)
  BY <1>7, <1>8, Zenon DEF OpeningOnly, OpeningPut
<1>10. GoodBatch(b)
  <2>1. 0 \in Nat /\ \A i : Id(i) => Id(i)'
    BY IdsStay
  <2>2. QED
    BY <1>3, <1>7, <1>9, <2>1, OpeningGood
<1>11. QED
  BY <1>1, <1>4, <1>5, <1>10, TurnInv

LEMMA CreateTextWhole ==
  ASSUME RoundsInv, WholeInv, StepOK, NEW p \in Proc, NEW u, NEW tags \in TagSets, CreateText(p, u, tags)
  PROVE  WholeInv'
<1>0. PICK t : t = nextID
  OBVIOUS
<1> DEFINE v0 == [content |-> Typed(t, Length), previous |-> 0, createdBy |-> u, tags |-> tags]
           w == Put(Text(t), v0)
           x == Put(Subscription(t, u), u)
           y == Put(SubscriptionIndex(u, t), t)
           a == << w, x, y >>
           o == OpenRoundOps(t, t + 1, 1)
           g == TagOps(t, tags)
           d == [pc |-> "created", user |-> u]
<1>1. Turn(p, d, a \o o \o g) /\ nextID' = t + 2
  BY <1>0, IdleHasNoBatch DEF CreateText, Becomes, Local, Turn, Arrives, history
<1>2. d.pc = "created"
  OBVIOUS
<1>3. GoodCall(d)
  BY <1>2, SilentIsGood
<1> HIDE DEF d, v0
<1>4. /\ ~w.tombstone /\ w.key = Text(t) /\ w.val = v0
      /\ ~x.tombstone /\ x.key[1] \notin Families /\ ~y.tombstone /\ y.key[1] \notin Families
  BY OpIs, KeyIs DEF Families
<1> HIDE DEF w, x, y
<1>5. /\ IsSeq(a) /\ Len(a) = 3
      /\ \A i \in DOMAIN a : (i = 1 /\ a[i] = w) \/ (i = 2 /\ a[i] = x) \/ (i = 3 /\ a[i] = y)
  BY ThreeAt
<1> HIDE DEF a
<1>6. \A i, k, v : k[1] \in Families /\ PutAt(a, i, k, v) => i = 1 /\ k = Text(t) /\ v = v0
  BY <1>4, <1>5 DEF PutAt
<1>7. \A i, k : ~EraseAt(a, i, k)
  BY <1>4, <1>5 DEF EraseAt
<1>8. New(t) /\ New(t + 1) /\ Id(t)'
  BY <1>0, <1>1 DEF New, Id, RoundsInv, ShapesOK
<1> DEFINE z == Opened(t, 1)
           b == a \o o
<1>9. /\ IsSeq(b) /\ Opening(b, 3, t, t + 1, z)
      /\ \A i, k, v : k[1] \in Families /\ PutAt(b, i, k, v) =>
           \/ PutAt(a, i, k, v)
           \/ i = 3 + 1 /\ k = Round(t + 1) /\ v = z
           \/ i = 3 + 2 /\ k = CurrentRound(t) /\ v = t + 1
           \/ i = 3 + 4 /\ k = RoundIndex(t, t + 1) /\ v = t + 1
      /\ \A i, k : EraseAt(b, i, k) => EraseAt(a, i, k)
  <2> HIDE DEF z, b
  <2>1. /\ IsSeq(b) /\ Opening(b, Len(a), t, t + 1, z)
        /\ \A i, k, v : k[1] \in Families /\ PutAt(b, i, k, v) =>
             \/ PutAt(a, i, k, v)
             \/ i = Len(a) + 1 /\ k = Round(t + 1) /\ v = z
             \/ i = Len(a) + 2 /\ k = CurrentRound(t) /\ v = t + 1
             \/ i = Len(a) + 4 /\ k = RoundIndex(t, t + 1) /\ v = t + 1
        /\ \A i, k : EraseAt(b, i, k) => EraseAt(a, i, k)
    BY <1>5, OpeningAfter DEF z, b
  <2>2. QED
    BY <1>5, <2>1
<1> HIDE DEF z, b
<1>10. OpeningOnly(b, 3, t, t + 1, z, v0, 0, 0, 0, FALSE)
  <2>1. \A i, k, v : k[1] \in Families /\ PutAt(b, i, k, v) =>
          OpeningPut(3, t, t + 1, z, v0, 0, 0, 0, FALSE, i, k, v)
    <3> SUFFICES ASSUME NEW i, NEW k, NEW v, k[1] \in Families, PutAt(b, i, k, v)
                 PROVE  OpeningPut(3, t, t + 1, z, v0, 0, 0, 0, FALSE, i, k, v)
      BY Zenon
    <3>1. \/ i = 1 /\ k = Text(t) /\ v = v0
          \/ i = 3 + 1 /\ k = Round(t + 1) /\ v = z
          \/ i = 3 + 2 /\ k = CurrentRound(t) /\ v = t + 1
          \/ i = 3 + 4 /\ k = RoundIndex(t, t + 1) /\ v = t + 1
      BY <1>6, <1>9, Zenon
    <3>2. QED
      BY <1>8, <3>1, Zenon DEF OpeningPut
  <2>2. \A i, k : ~EraseAt(b, i, k)
    BY <1>7, <1>9, Zenon
  <2>3. QED
    BY <1>9, <2>1, <2>2, Zenon DEF OpeningOnly
<1>11. Extends(b \o g, b)
  <2>1. Plain(g)
    <3>1. IsFiniteSet(tags)
      BY TagsAssumption
    <3>2. Mild(g) /\ \A i \in DOMAIN g : g[i].key[1] = "tagindex"
      BY <3>1, TagOpsAreMild
    <3>3. QED
      BY <3>2 DEF Plain, Mild, Families
  <2>2. QED
    BY <1>9, <2>1, PlainExtends
<1> DEFINE e == b \o g
<1> HIDE DEF e
<1>12. Opening(e, 3, t, t + 1, z) /\ OpeningOnly(e, 3, t, t + 1, z, v0, 0, 0, 0, FALSE)
  BY <1>9, <1>10, <1>11, OpeningExtends DEF e
<1>13. GoodBatch(e)
  <2>1. 3 \in Nat /\ \A i : Id(i) => Id(i)'
    BY IdsStay
  <2>2. PICK r : r = t + 1
    OBVIOUS
  <2>3. New(r) /\ Id(t)' /\ Opening(e, 3, t, r, z) /\ OpeningOnly(e, 3, t, r, z, v0, 0, 0, 0, FALSE)
    BY <1>8, <1>12, <2>2
  <2>4. QED
    BY <2>1, <2>3, OpeningGood
<1>14. Turn(p, d, e)
  BY <1>1 DEF e, b
<1>15. QED
  BY <1>2, <1>3, <1>13, <1>14, TurnInv

\* A close that has read its round r of text t.
LEMMA ReadIs ==
  ASSUME RoundsInv, WholeInv, NEW p \in Proc, call[p].pc \in {"text", "tally"}
  PROVE  LET c == call[p]
         IN  /\ Id(c.text) /\ Id(c.round) /\ c.read.text = c.text
             /\ HasSlots(c.round, c.text, c.read.slots) /\ CallRests(c)
<1> DEFINE c == call[p]
<1>1. HasSlots(c.round, c.read.text, c.read.slots) /\ Owner(c.round, c.text)
  BY Zenon DEF HasSlots, CallSlots, Owner, Points, CallPoints
<1>2. Owner(c.round, c.read.text)
  BY <1>1, Zenon DEF Owner
<1>3. Id(c.text) /\ Id(c.round) /\ c.read.text = c.text
  BY <1>1, <1>2, Zenon DEF RoundsInv, OwnersOK
<1>4. CallRests(c)
  BY DEF WholeInv, BatchesOK
<1>5. QED
  BY <1>1, <1>3, <1>4

LEMMA ForkWhole ==
  ASSUME RoundsInv, WholeInv, StepOK, NEW p \in Proc, Fork(p)
  PROVE  WholeInv'
<1>0. PICK c, new : c = call[p] /\ new = nextID
  OBVIOUS
<1> DEFINE t == c.text
           x0 == SpliceContent(c.old.content, c.read.slots, WinningContent(c))
           v0 == [c.old EXCEPT !.previous = t, !.content = x0]
           r0 == [c.read EXCEPT !.status = "closed"]
           w == Put(Text(new), v0)
           x == Put(Round(c.round), r0)
           y == Delete(CurrentRound(t))
           z == Put(SupersededBy(t), new)
           a == << w, x, y, z >>
           o == OpenRoundOps(new, new + 1, c.read.number + 1)
           g == MoveTagOps(c.old.tags, t, new)
           d == [c EXCEPT !.pc = "closed"]
<1>1. c.pc = "tally" /\ KnownCall(c) /\ nextID' = new + 2 /\ db' = db /\ ops[p] = <<>> /\ interrupted' = interrupted
  BY <1>0, OwnCallIsKnown DEF Fork, At
<1>2. TallyCall(c)
  BY <1>1, Zenon DEF KnownCall, CallOK
<1>3. PICK users \in SetToSeqs(Subscribers(t)) :
        WriteBatch(p, "closed",
          << Put(Text(new), [c.old EXCEPT !.previous = t,
                               !.content = SpliceContent(@, c.read.slots, WinningContent(c))]),
             x, y, z >> \o o \o g \o MoveSubscriptionOps(users, t, new))
  BY <1>0 DEF Fork, NextRoundOps
<1> DEFINE m == MoveSubscriptionOps(users, t, new)
<1>4. Turn(p, d, a \o o \o g \o m)
  BY <1>0, <1>1, <1>2, <1>3 DEF WriteBatch, Local, Turn, TallyCall, IsText
<1>5. d.pc = "closed"
  BY <1>2 DEF TallyCall
<1>6. GoodCall(d)
  BY <1>5, SilentIsGood
<1>7. Plain(m)
  <2>1. Mild(m) /\ \A i \in DOMAIN m : m[i].key[1] \in {"subscription", "subscriptionindex"}
    BY SubscribersAre, MoveSubscriptionOpsAreMild
  <2> HIDE DEF m
  <2>2. QED
    BY <2>1 DEF Plain, Mild, Families
<1>8. Plain(g)
  <2>1. Mild(g) /\ \A i \in DOMAIN g : g[i].key[1] = "tagindex"
    BY <1>2, MoveTagOpsAreMild DEF TallyCall, IsText
  <2> HIDE DEF g
  <2>2. QED
    BY <2>1 DEF Plain, Mild, Families
<1> HIDE DEF d, x0, m, g
<1>9. v0.previous = t
  BY <1>2 DEF TallyCall, IsText
<1>10. r0.text = c.read.text /\ r0.slots = c.read.slots
  BY <1>2 DEF TallyCall, IsRound
<1> HIDE DEF v0, r0
<1>11. /\ Id(t) /\ Id(c.round) /\ c.read.text = t
       /\ HasSlots(c.round, t, c.read.slots) /\ CallRests(c)
  BY <1>0, <1>1, ReadIs
<1>12. Closes(t, c.round, r0, v0)
  <2>1. \A i \in DOMAIN r0.slots : Slot(t, r0.slots[i])
    BY <1>10, <1>11, Zenon DEF Slot
  <2>2. ASSUME NEW k2, Live(t), Rests(t, Round(c.round), r0, k2)
        PROVE  Has(k2)
    <3>0. \E i \in DOMAIN r0.slots : k2 \in SeedKeys(t, r0.slots[i])
      BY <2>2, RestsIs, Zenon
    <3>1. \E i \in DOMAIN c.read.slots : k2 \in SeedKeys(t, c.read.slots[i])
      BY <1>10, <3>0
    <3>2. Rests(t, Round(c.round), c.read, k2)
      BY <1>11, <3>1, Zenon DEF Rests
    <3>3. QED
      BY <1>1, <1>11, <2>2, <3>2 DEF CallRests
  <2>3. QED
    BY <1>9, <1>10, <1>11, <2>1, <2>2 DEF Closes
<1>13. /\ ~w.tombstone /\ w.key = Text(new) /\ w.val = v0
       /\ ~x.tombstone /\ x.key = Round(c.round) /\ x.val = r0
       /\ y.tombstone /\ y.key = CurrentRound(t)
       /\ ~z.tombstone /\ z.key = SupersededBy(t) /\ z.val = new
  BY OpIs
<1> HIDE DEF w, x, y, z
<1>14. /\ IsSeq(a) /\ Len(a) = 4 /\ Does(a, 4, z)
       /\ \A i \in DOMAIN a : \/ (i = 1 /\ a[i] = w) \/ (i = 2 /\ a[i] = x) \/ (i = 3 /\ a[i] = y)
                              \/ (i = 4 /\ a[i] = z)
  BY FourAt
<1> HIDE DEF a
<1>15. \A i, k, v : PutAt(a, i, k, v) => \/ i = 1 /\ k = Text(new) /\ v = v0
                                         \/ k = Round(c.round) /\ v = r0
                                         \/ k = SupersededBy(t) /\ v = new
  BY <1>13, <1>14 DEF PutAt
<1>16. \A i, k : EraseAt(a, i, k) => k = CurrentRound(t)
  BY <1>13, <1>14 DEF EraseAt
<1>17. PutAt(a, 4, SupersededBy(t), new)
  BY <1>13, <1>14 DEF PutAt, Does
<1>18. PICK r : r = new + 1
  OBVIOUS
<1>19. New(new) /\ New(r) /\ Id(new)'
  BY <1>0, <1>1, <1>18 DEF New, Id, RoundsInv, ShapesOK
<1> DEFINE u == Opened(new, c.read.number + 1)
           b == a \o o
<1> HIDE DEF u, b
<1>20. /\ IsSeq(b) /\ Opening(b, 4, new, r, u)
       /\ \A i, k, v : k[1] \in Families /\ PutAt(b, i, k, v) =>
            \/ PutAt(a, i, k, v)
            \/ i = 4 + 1 /\ k = Round(r) /\ v = u
            \/ i = 4 + 2 /\ k = CurrentRound(new) /\ v = r
            \/ i = 4 + 4 /\ k = RoundIndex(new, r) /\ v = r
       /\ \A i, k : EraseAt(b, i, k) => EraseAt(a, i, k)
       /\ \A i, k, v : PutAt(a, i, k, v) => PutAt(b, i, k, v)
  <2>1. /\ IsSeq(b) /\ Opening(b, Len(a), new, r, u)
        /\ \A i, k, v : k[1] \in Families /\ PutAt(b, i, k, v) =>
             \/ PutAt(a, i, k, v)
             \/ i = Len(a) + 1 /\ k = Round(r) /\ v = u
             \/ i = Len(a) + 2 /\ k = CurrentRound(new) /\ v = r
             \/ i = Len(a) + 4 /\ k = RoundIndex(new, r) /\ v = r
        /\ \A i, k : EraseAt(b, i, k) => EraseAt(a, i, k)
        /\ \A i, k, v : PutAt(a, i, k, v) => PutAt(b, i, k, v)
    <3> DEFINE number == c.read.number + 1
    <3>1. b = a \o OpenRoundOps(new, r, number) /\ u = Opened(new, number)
      BY <1>18 DEF b, u
    <3> HIDE DEF number
    <3>2. QED
      BY <1>14, <3>1, OpeningAfter
  <2>2. QED
    BY <1>14, <2>1
<1>21. OpeningOnly(b, 4, new, r, u, v0, c.round, r0, t, TRUE)
  <2>1. \A i, k, v : k[1] \in Families /\ PutAt(b, i, k, v) => OpeningPut(4, new, r, u, v0, c.round, r0, t, TRUE, i, k, v)
    <3> SUFFICES ASSUME NEW i, NEW k, NEW v, k[1] \in Families, PutAt(b, i, k, v)
                 PROVE  OpeningPut(4, new, r, u, v0, c.round, r0, t, TRUE, i, k, v)
      BY Zenon
    <3>1. CASE PutAt(a, i, k, v)
      <4>1. \/ i = 1 /\ k = Text(new) /\ v = v0
            \/ k = Round(c.round) /\ v = r0
            \/ k = SupersededBy(t) /\ v = new
        BY <1>15, <3>1
      <4>2. QED
        BY <1>19, <4>1 DEF OpeningPut
    <3>2. QED
      BY <1>20, <3>1 DEF OpeningPut
  <2>2. Puts(b, SupersededBy(t), new)
    BY <1>17, <1>20, PutsIs
  <2>3. QED
    BY <1>12, <1>16, <1>19, <1>20, <2>1, <2>2, Zenon DEF OpeningOnly
<1> DEFINE e == b \o g
           h == e \o m
<1>22. Extends(h, b)
  <2>1. Extends(e, b)
    BY <1>8, <1>20, PlainExtends
  <2> HIDE DEF e
  <2>2. Extends(h, e)
    BY <1>7, <2>1, PlainExtends DEF Extends
  <2>3. QED
    BY <2>1, <2>2, ExtendsOn
<1>23. Turn(p, d, h)
  BY <1>4 DEF b
<1> HIDE DEF h
<1>24. Opening(h, 4, new, r, u) /\ OpeningOnly(h, 4, new, r, u, v0, c.round, r0, t, TRUE)
  BY <1>20, <1>21, <1>22, OpeningExtends
<1>25. GoodBatch(h)
  <2>1. 4 \in Nat /\ \A i : Id(i) => Id(i)'
    BY IdsStay
  <2>2. QED
    BY <1>19, <1>24, <2>1, OpeningGood
<1>26. QED
  BY <1>5, <1>6, <1>23, <1>25, TurnInv

-----------------------------------------------------------------------------
(* The batches that put a round back, with a new slot or a date, and the   *)
(* one of a fragment.                                                      *)

LEMMA AppendAt ==
  ASSUME NEW s, IsSeq(s), NEW e
  PROVE  \A i \in DOMAIN Append(s, e) : (i \in DOMAIN s /\ Append(s, e)[i] = s[i]) \/ Append(s, e)[i] = e
<1>1. PICK S : s \in Seq(S)
  BY DEF IsSeq
<1>2. s \in Seq(S \cup {e}) /\ e \in S \cup {e}
  BY <1>1
<1>3. QED
  BY <1>2

\* A round as it is stored, or as it was just opened.
Known(t, r, v) ==
  /\ Id(t) /\ Id(r) /\ v.text = t
  /\ \A i \in DOMAIN v.slots : Slot(t, v.slots[i])
  /\ \A k2 : Live(t) /\ Rests(t, Round(r), v, k2) => Has(k2)
  /\ v.status = "open" \/ \E w : Written(Round(r), w) /\ w.text = t /\ w.status = v.status

LEMMA StoredIsKnown ==
  ASSUME RoundsInv, WholeInv, NEW r, Has(Round(r))
  PROVE  LET v == db[Round(r)] IN Known(v.text, r, v) /\ IsRound(v) /\ IsSeq(v.slots)
<1> DEFINE v == db[Round(r)]
<1>1. IsRound(v) /\ HasSlots(r, v.text, v.slots)
  BY RoundIs
<1>2. Stored(Round(r), v)
  BY DEF Stored, Has
<1> HIDE DEF v
<1>3. Id(v.text) /\ Id(r)
  BY <1>1, Zenon DEF Owner, RoundsInv, OwnersOK
<1>4. IsSeq(v.slots)
  BY <1>1, Zenon DEF RoundsInv, RoundsOK, SlotsOK
<1>5. \A i \in DOMAIN v.slots : Slot(v.text, v.slots[i])
  BY <1>1, Zenon DEF Slot
<1>6. \A k2 : Live(v.text) /\ Rests(v.text, Round(r), v, k2) => Has(k2)
  BY <1>2, Zenon DEF WholeInv, StoreRests
<1>7. Written(Round(r), v)
  BY <1>2 DEF Written
<1>8. QED
  BY <1>1, <1>3, <1>4, <1>5, <1>6, <1>7, Zenon DEF Known, v

\* Round r is put as y, with the slots of the round v that is known and maybe slot.
RoundPut(y, v, t, slot) ==
  /\ y.text = t /\ y.status = v.status
  /\ \A i \in DOMAIN y.slots : (i \in DOMAIN v.slots /\ y.slots[i] = v.slots[i]) \/ y.slots[i] = slot

\* The batch is made of that and the fragment f of slot s, with the index entry.
Adding(f, t, s, w) == New(f) /\ w.text = t /\ w.slot = s
Seeding(b, t, v, y, slot, s, f, w, adds, n) ==
  \/ \A i \in DOMAIN y.slots : i \in DOMAIN v.slots /\ y.slots[i] = v.slots[i]
  \/ /\ adds /\ slot.id = s /\ f = s + 1 /\ SeedOK(t, slot, w) /\ n = 3
     /\ PutsAt(b, 1, Fragment(f)) /\ PutsAt(b, 2, FragmentIndex(t, s, f))
PutsOnly(b, t, r, y, s, f, w, adds, puts, n) ==
  /\ IsSeq(b)
  /\ \A i, k, x : PutAt(b, i, k, x) => \/ adds /\ k = Fragment(f) /\ x = w
                                       \/ adds /\ k = FragmentIndex(t, s, f)
                                       \/ puts /\ i = n /\ k = Round(r) /\ x = y
  /\ \A i, k : ~EraseAt(b, i, k)
PutBackIs(t, r, v, y, slot) == Known(t, r, v) /\ RoundPut(y, v, t, slot)

LEMMA PutsGood ==
  ASSUME RoundsInv, StepOK, NEW b, NEW t, NEW r, NEW v, NEW y, NEW slot, NEW s, NEW f, NEW w,
         NEW adds \in BOOLEAN, NEW puts \in BOOLEAN, NEW n,
         PutsOnly(b, t, r, y, s, f, w, adds, puts, n),
         adds => Adding(f, t, s, w),
         puts => PutBackIs(t, r, v, y, slot) /\ Seeding(b, t, v, y, slot, s, f, w, adds, n)
  PROVE  GoodBatch(b)
<1>0. /\ \A i, k, x : PutAt(b, i, k, x) => \/ adds /\ k = Fragment(f) /\ x = w
                                           \/ adds /\ k = FragmentIndex(t, s, f)
                                           \/ puts /\ i = n /\ k = Round(r) /\ x = y
      /\ \A i, k : ~EraseAt(b, i, k)
      /\ IsSeq(b)
      /\ \A i : Id(i) => Id(i)'
      /\ adds => New(f) /\ w.text = t /\ w.slot = s
      /\ puts => Known(t, r, v) /\ RoundPut(y, v, t, slot)
  BY IdsStay DEF PutsOnly, Adding, PutBackIs
<1>a. puts =>  \/ \A i \in DOMAIN y.slots : i \in DOMAIN v.slots /\ y.slots[i] = v.slots[i]
               \/ /\ adds /\ slot.id = s /\ f = s + 1 /\ SeedOK(t, slot, w) /\ n = 3
                  /\ PutsAt(b, 1, Fragment(f)) /\ PutsAt(b, 2, FragmentIndex(t, s, f))
  BY DEF Seeding
<1> USE <1>0, <1>a
<1>1. \A k, x : Puts(b, k, x) => \/ adds /\ k = Fragment(f) /\ x = w
                                 \/ adds /\ k = FragmentIndex(t, s, f)
                                 \/ puts /\ k = Round(r) /\ x = y
  <2>1. \A k, x : Puts(b, k, x) => \E i : PutAt(b, i, k, x)
    BY PutsIs
  <2>2. QED
    BY <2>1
<1>2. \A a, x : ~Puts(b, Text(a), x) /\ ~Puts(b, CurrentRound(a), x)
  BY <1>1 DEF Text, CurrentRound, Fragment, FragmentIndex, Round
<1>3. \A a, x : Puts(b, Fragment(a), x) => adds /\ a = f /\ x = w
  BY <1>1 DEF Fragment, FragmentIndex, Round
<1>4. \A a, c, e, x : Puts(b, FragmentIndex(a, c, e), x) => adds /\ a = t /\ c = s /\ e = f
  BY <1>1 DEF Fragment, FragmentIndex, Round
<1>5. \A a, x : Puts(b, Round(a), x) => puts /\ a = r /\ x = y
  BY <1>1 DEF Fragment, FragmentIndex, Round
<1>6. FreshPuts(b)
  <2> SUFFICES ASSUME NEW k, NEW x, Puts(b, k, x)
               PROVE  FreshPut(b, k, x)
    BY Zenon DEF FreshPuts
  <2>1. CASE adds /\ k = Fragment(f)
    BY <2>1, FreshKinds
  <2>2. CASE adds /\ k = FragmentIndex(t, s, f)
    BY <2>2, FreshKinds
  <2>3. CASE puts /\ k = Round(r)
    <3>1. Id(r)'
      BY <2>3 DEF Known
    <3>2. QED
      BY <2>3, <3>1, FreshKinds
  <2>4. QED
    BY <1>1, <2>1, <2>2, <2>3
<1>7. OneText(b)
  <2> SUFFICES ASSUME NEW a, NEW i, PutsAt(b, i, Text(a))
               PROVE  FALSE
    BY Zenon DEF OneText
  <2>1. Puts(b, Text(a), b[i].val)
    BY PutsIs
  <2>2. QED
    BY <1>2, <2>1, Zenon
<1>8. Agree(b)
  BY <1>3, <1>4 DEF Agree
<1>9. SlotsFrom(b)
  <2> SUFFICES ASSUME NEW a, NEW x, NEW i, Puts(b, Round(a), x), i \in DOMAIN x.slots
               PROVE  Id(x.text) /\ (Slot(x.text, x.slots[i]) \/ Seeds(b, x.text, x.slots[i]))
    BY Zenon DEF SlotsFrom
  <2>0. puts /\ x = y
    BY <1>5
  <2>1. puts /\ x = y /\ Known(t, r, v) /\ RoundPut(y, v, t, slot)
    BY <2>0
  <2>2. x.text = t /\ Id(t) /\ i \in DOMAIN y.slots
    BY <2>1 DEF Known, RoundPut
  <2>3. CASE i \in DOMAIN v.slots /\ y.slots[i] = v.slots[i]
    BY <2>1, <2>2, <2>3 DEF Known
  <2>4. CASE y.slots[i] = slot /\ ~(i \in DOMAIN v.slots /\ y.slots[i] = v.slots[i])
    <3>1. adds /\ slot.id + 1 = f /\ SeedOK(t, slot, w)
      BY <2>0, <2>2, <2>4
    <3>2. Seeds(b, t, slot)
      <4>1. New(slot.id + 1)
        BY <3>1
      <4>2. \A z : Puts(b, Fragment(slot.id + 1), z) => SeedOK(t, slot, z)
        BY <1>3, <3>1
      <4>3. \A u, c, z : Puts(b, FragmentIndex(u, c, slot.id + 1), z) => u = t
        BY <1>4
      <4>4. QED
        BY <4>1, <4>2, <4>3, Zenon DEF Seeds
    <3>3. QED
      BY <2>1, <2>2, <2>4, <3>2
  <2>5. QED
    BY <2>1, <2>2, <2>3, <2>4 DEF RoundPut
<1>10. PutsRest(b)
  <2> SUFFICES ASSUME NEW a, NEW i, NEW k, NEW x, NEW k2, PutAt(b, i, k, x), Rests(a, k, x, k2)
               PROVE  (\E j : j < i /\ PutsAt(b, j, k2)) \/ (Id(a) /\ (Live(a) => Has(k2)))
    BY Zenon DEF PutsRest
  <2>1. k[1] \in {"round", "currentround", "roundindex"}
    BY RestsIs
  <2>2. puts /\ i = n /\ k = Round(r) /\ x = y
    <3>1. k # Fragment(f) /\ k # FragmentIndex(t, s, f)
      BY <2>1, KeyIs
    <3>2. QED
      BY <3>1
  <2>3. Known(t, r, v) /\ RoundPut(y, v, t, slot)
    BY <2>2
  <2>4. y.text = a /\ \E j \in DOMAIN y.slots : k2 \in SeedKeys(a, y.slots[j])
    BY <2>2, RestsIs
  <2>5. PICK j \in DOMAIN y.slots : k2 \in SeedKeys(a, y.slots[j])
    BY <2>4
  <2>6. a = t
    BY <2>3, <2>4 DEF RoundPut
  <2>7. CASE j \in DOMAIN v.slots /\ y.slots[j] = v.slots[j]
    <3>1. v.text = t /\ Id(t) /\ \A k3 : Live(t) /\ Rests(t, Round(r), v, k3) => Has(k3)
      BY <2>3 DEF Known
    <3>2. Rests(t, Round(r), v, k2)
      BY <2>5, <2>6, <2>7, <3>1 DEF Rests
    <3>3. QED
      BY <2>6, <3>1, <3>2
  <2>8. CASE y.slots[j] = slot /\ ~(j \in DOMAIN v.slots /\ y.slots[j] = v.slots[j])
    <3>1. /\ slot.id = s /\ slot.id + 1 = f /\ n = 3
          /\ PutsAt(b, 1, Fragment(f)) /\ PutsAt(b, 2, FragmentIndex(t, s, f))
      BY <2>2, <2>8
    <3>2. k2 = Fragment(f) \/ k2 = FragmentIndex(t, s, f)
      BY <2>5, <2>6, <2>8, <3>1 DEF SeedKeys
    <3>3. 1 < i /\ 2 < i
      BY <2>2, <3>1
    <3>4. QED
      BY <3>1, <3>2, <3>3
  <2>9. QED
    BY <2>3, <2>7, <2>8 DEF RoundPut
<1>11. Opens(b)
  <2>1. ASSUME NEW a, NEW x, Puts(b, Round(a), x)
        PROVE  x.status = "open" \/ \E z : Written(Round(a), z) /\ z.text = x.text /\ z.status = x.status
    <3>0. a = r /\ x = y /\ puts
      BY <1>5, <2>1
    <3>1. a = r /\ x = y /\ Known(t, r, v) /\ RoundPut(y, v, t, slot)
      BY <3>0
    <3>2. x.text = t /\ x.status = v.status
      BY <3>1 DEF RoundPut
    <3>3. v.status = "open" \/ \E z : Written(Round(r), z) /\ z.text = t /\ z.status = v.status
      BY <3>1 DEF Known
    <3>4. QED
      BY <3>1, <3>2, <3>3
  <2>2. QED
    BY <1>2, <2>1, Zenon DEF Opens
<1>12. Careful(b) /\ HeadCarefulNew(b)
  BY Zenon DEF Careful, HeadCarefulNew
<1>13. QED
  BY <1>6, <1>7, <1>8, <1>9, <1>10, <1>11, <1>12 DEF GoodBatch

LEMMA AddFragmentWhole ==
  ASSUME RoundsInv, WholeInv, StepOK, NEW p \in Proc, ProposeCall(call[p]), ops[p] = <<>>, db' = db,
         interrupted' = interrupted, NEW s0, AddFragment(p, s0, nextID)
  PROVE  WholeInv'
<1>0. PICK c, n, s : c = call[p] /\ n = nextID /\ s = s0
  OBVIOUS
<1> DEFINE t == c.text
           w == [text |-> t, slot |-> s, author |-> c.user, content |-> Typed(n, c.range.length)]
           o1 == Put(Fragment(n), w)
           o2 == Put(FragmentIndex(t, s, n), n)
           b == << o1, o2 >>
           d == [c EXCEPT !.pc = "proposed"]
<1>1. Turn(p, d, b) /\ nextID' = n + 1
  BY <1>0 DEF AddFragment, WriteBatch, Turn, Local
<1>2. New(n)
  <2>1. nextID \in Nat
    BY DEF RoundsInv, ShapesOK
  <2>2. QED
    BY <1>0, <1>1, <2>1 DEF New, Id
<1>3. d.pc = "proposed"
  BY <1>0 DEF ProposeCall
<1>4. w.text = t /\ w.slot = s
  OBVIOUS
<1>5. /\ ~o1.tombstone /\ o1.key = Fragment(n) /\ o1.val = w
      /\ ~o2.tombstone /\ o2.key = FragmentIndex(t, s, n)
  BY OpIs
<1> HIDE DEF d, w, o1, o2
<1>6. IsSeq(b) /\ \A i \in DOMAIN b : (i = 1 /\ b[i] = o1) \/ (i = 2 /\ b[i] = o2)
  BY TwoAt
<1> HIDE DEF b, t
<1>7. \A i, k, x : PutAt(b, i, k, x) => (k = Fragment(n) /\ x = w) \/ k = FragmentIndex(t, s, n)
  BY <1>5, <1>6 DEF PutAt
<1>8. PutsOnly(b, t, 0, 0, s, n, w, TRUE, FALSE, 0)
  <2>1. \A i, k : ~EraseAt(b, i, k)
    BY <1>5, <1>6 DEF EraseAt
  <2>2. QED
    BY <1>6, <1>7, <2>1, Zenon DEF PutsOnly
<1>9. GoodBatch(b)
  <2>1. Adding(n, t, s, w)
    BY <1>2, <1>4 DEF Adding
  <2>2. QED
    BY <1>8, <2>1, PutsGood
<1>10. GoodCall(d) /\ d.pc # "idle"
  BY <1>3, SilentIsGood
<1>11. QED
  BY <1>1, <1>9, <1>10, TurnInv

LEMMA SeedWhole ==
  ASSUME RoundsInv, WholeInv, StepOK, NEW p \in Proc, NEW c, NEW n, NEW r, NEW round, c = call[p], n = nextID,
         ProposeCall(c), HasContent(c.text, c.content), Known(c.text, r, round), IsRound(round),
         IsSeq(round.slots), nextID' = n + 2,
         Turn(p, [c EXCEPT !.pc = "seeded", !.round = r, !.slot = n],
              SeedOps(c.text, c.content, c.range, n, n + 1, r, round))
  PROVE  WholeInv'
<1> DEFINE t == c.text
           range == c.range
           slot == [id |-> n, start |-> range.start, end |-> range.end, round |-> round.number]
           w == [text |-> t, slot |-> n, author |-> Seed,
                 content |-> SubSeq(c.content, range.start + 1, range.end)]
           y == [round EXCEPT !.slots = Append(@, slot)]
           f == n + 1
           o1 == Put(Fragment(f), w)
           o2 == Put(FragmentIndex(t, n, f), f)
           o3 == Put(Round(r), y)
           b == << o1, o2, o3 >>
           d == [c EXCEPT !.pc = "seeded", !.round = r, !.slot = n]
<1>1. Turn(p, d, b)
  BY DEF SeedOps
<1>2. New(f)
  <2>1. nextID \in Nat
    BY DEF RoundsInv, ShapesOK
  <2>2. QED
    BY <2>1 DEF New, Id
<1>3. d.pc = "seeded"
  BY DEF ProposeCall
<1>4. w.text = t /\ w.slot = n /\ w.author = Seed /\ w.content = SubSeq(c.content, range.start + 1, range.end)
  OBVIOUS
<1>5. slot.id = n /\ slot.start = range.start /\ slot.end = range.end
  OBVIOUS
<1>6. y.text = round.text /\ y.status = round.status /\ y.slots = Append(round.slots, slot)
  BY DEF IsRound
<1>7. /\ ~o1.tombstone /\ o1.key = Fragment(f) /\ o1.val = w
      /\ ~o2.tombstone /\ o2.key = FragmentIndex(t, n, f)
      /\ ~o3.tombstone /\ o3.key = Round(r) /\ o3.val = y
  BY OpIs
<1> HIDE DEF d, w, o1, o2, o3, slot, y
<1>8. /\ IsSeq(b) /\ Does(b, 1, o1) /\ Does(b, 2, o2)
      /\ \A i \in DOMAIN b : (i = 1 /\ b[i] = o1) \/ (i = 2 /\ b[i] = o2) \/ (i = 3 /\ b[i] = o3)
  BY ThreeAt
<1> HIDE DEF b
<1>9. \A i, k, x : PutAt(b, i, k, x) => \/ k = Fragment(f) /\ x = w
                                        \/ k = FragmentIndex(t, n, f)
                                        \/ i = 3 /\ k = Round(r) /\ x = y
  BY <1>7, <1>8 DEF PutAt
<1>10. PutsOnly(b, t, r, y, n, f, w, TRUE, TRUE, 3)
  <2>1. \A i, k : ~EraseAt(b, i, k)
    BY <1>7, <1>8 DEF EraseAt
  <2> HIDE DEF f, t
  <2>2. QED
    BY <1>8, <1>9, <2>1 DEF PutsOnly
<1>11. PutsAt(b, 1, Fragment(f)) /\ PutsAt(b, 2, FragmentIndex(t, n, f))
  BY <1>7, <1>8 DEF PutsAt, Does
<1>12. SeedOK(t, slot, w)
  <2> SUFFICES ASSUME NEW x, HasContent(t, x)
               PROVE  w.content = SeedContent(x, slot)
    BY <1>4 DEF SeedOK
  <2>1. x = c.content
    BY DEF RoundsInv, ContentsOK
  <2>2. QED
    BY <1>4, <1>5, <2>1 DEF SeedContent
<1>13. RoundPut(y, round, t, slot)
  <2>1. \A i \in DOMAIN Append(round.slots, slot) :
          \/ i \in DOMAIN round.slots /\ Append(round.slots, slot)[i] = round.slots[i]
          \/ Append(round.slots, slot)[i] = slot
    BY AppendAt
  <2>2. QED
    BY <1>6, <2>1 DEF RoundPut, Known
<1>14. GoodBatch(b)
  <2>1. Seeding(b, t, round, y, slot, n, f, w, TRUE, 3)
    BY <1>5, <1>11, <1>12 DEF Seeding
  <2> HIDE DEF f, t
  <2>2. PutBackIs(t, r, round, y, slot)
    BY <1>13 DEF PutBackIs, t
  <2>3. Adding(f, t, n, w)
    BY <1>2, <1>4 DEF Adding
  <2>4. QED
    BY <1>10, <2>1, <2>2, <2>3, PutsGood
<1>15. GoodCall(d) /\ d.pc # "idle"
  BY <1>3, SilentIsGood
<1>16. QED
  BY <1>1, <1>14, <1>15, TurnInv

LEMMA ResolveSlotWhole ==
  ASSUME RoundsInv, WholeInv, StepOK, NEW p \in Proc, ProposeCall(call[p]), NEW c, c = call[p],
         HasContent(c.text, c.content), NEW r, NEW round, IsRound(round), Known(c.text, r, round),
         IsSeq(round.slots), ResolveSlot(p, r, round), db' = db, ops[p] = <<>>, interrupted' = interrupted
  PROVE  WholeInv'
<1>1. CASE /\ ops' = [ops EXCEPT ![p] = SeedOps(c.text, c.content, c.range, nextID, nextID + 1, r, round)]
           /\ call' = [call EXCEPT ![p] = [c EXCEPT !.pc = "seeded", !.round = r, !.slot = nextID]]
           /\ nextID' = nextID + 2
  <2>1. PICK n : n = nextID
    OBVIOUS
  <2>2. /\ nextID' = n + 2
        /\ Turn(p, [c EXCEPT !.pc = "seeded", !.round = r, !.slot = n],
                SeedOps(c.text, c.content, c.range, n, n + 1, r, round))
    BY <1>1, <2>1 DEF Turn, Local
  <2>3. QED
    BY <2>1, <2>2, SeedWhole
<1>2. ASSUME NEW s, AddFragment(p, s, nextID)
      PROVE  WholeInv'
  BY <1>2, AddFragmentWhole
<1>3. CASE Ends(p)
  <2>1. GoodCall(Idle)
    BY SilentIsGood DEF Idle
  <2>2. QED
    BY <1>3, <2>1, SilentTurn DEF Ends, Becomes
<1>4. QED
  BY <1>1, <1>2, <1>3 DEF ResolveSlot, Becomes

LEMMA ResolveCurrentWhole ==
  ASSUME RoundsInv, WholeInv, StepOK, NEW p \in Proc, ResolveCurrent(p)
  PROVE  WholeInv'
<1>0. PICK c, r, round : c = call[p] /\ r = c.round /\ round = db[Round(r)]
  OBVIOUS
<1>1. /\ c.pc = "round" /\ c.for = "propose" /\ Has(Round(r)) /\ KnownCall(c) /\ ops[p] = <<>>
      /\ db' = db /\ interrupted' = interrupted /\ ResolveSlot(p, r, round)
  BY <1>0, OwnCallIsKnown DEF ResolveCurrent, AtRound, At, history
<1>2. ProposeCall(c)
  BY <1>1 DEF KnownCall, CallOK, RoundCall
<1>3. HasContent(c.text, c.content) /\ Owner(r, c.text)
  BY <1>0, <1>1, Zenon DEF KnownCall, CallContent, CallPoints, Proposing
<1>4. IsRound(round) /\ HasSlots(r, round.text, round.slots)
  BY <1>0, <1>1, RoundIs
<1>5. Owner(r, round.text)
  BY <1>4, Zenon DEF Owner
<1>6. round.text = c.text
  BY <1>3, <1>5, Zenon DEF RoundsInv, OwnersOK
<1>7. Known(c.text, r, round) /\ IsSeq(round.slots)
  BY <1>0, <1>1, <1>6, StoredIsKnown
<1>8. QED
  BY <1>0, <1>1, <1>2, <1>3, <1>4, <1>7, ResolveSlotWhole

LEMMA ResolveOpenedWhole ==
  ASSUME RoundsInv, WholeInv, StepOK, NEW p \in Proc, ResolveOpened(p)
  PROVE  WholeInv'
<1>0. PICK c : c = call[p]
  OBVIOUS
<1> DEFINE round == Opened(c.text, c.number)
<1>1. /\ c.pc = "opened" /\ KnownCall(c) /\ db' = db /\ ops[p] = <<>> /\ interrupted' = interrupted
      /\ ResolveSlot(p, c.round, round)
  BY <1>0, OwnCallIsKnown DEF ResolveOpened, At, Opened, history
<1>2. ProposeCall(c)
  BY <1>1 DEF KnownCall, CallOK
<1>3. HasContent(c.text, c.content) /\ Owner(c.round, c.text)
  BY <1>1, Zenon DEF KnownCall, CallContent, CallPoints, Proposing
<1>4. IsRound(round) /\ round.text = c.text /\ round.slots = <<>> /\ round.status = "open"
  BY DEF Opened, IsRound
<1> HIDE DEF round
<1>5. Id(c.text) /\ Id(c.round)
  BY <1>3, Zenon DEF RoundsInv, OwnersOK
<1>6. \A k2 : ~Rests(c.text, Round(c.round), round, k2)
  <2> SUFFICES ASSUME NEW k2, Rests(c.text, Round(c.round), round, k2)
               PROVE  FALSE
    OBVIOUS
  <2>1. \E j \in DOMAIN round.slots : k2 \in SeedKeys(c.text, round.slots[j])
    BY RestsIs
  <2>2. QED
    BY <1>4, <2>1
<1>7. Known(c.text, c.round, round)
  BY <1>4, <1>5, <1>6 DEF Known
<1>8. IsSeq(round.slots)
  BY <1>4, EmptyIsSeq
<1>9. QED
  BY <1>0, <1>1, <1>2, <1>3, <1>4, <1>7, <1>8, ResolveSlotWhole

LEMMA AddFirstFragmentWhole ==
  ASSUME RoundsInv, WholeInv, StepOK, NEW p \in Proc, AddFirstFragment(p)
  PROVE  WholeInv'
<1>1. /\ call[p].pc = "seeded" /\ db' = db /\ ops[p] = <<>> /\ interrupted' = interrupted
      /\ AddFragment(p, call[p].slot, nextID) /\ KnownCall(call[p])
  BY OwnCallIsKnown DEF AddFirstFragment, At, history
<1>2. ProposeCall(call[p])
  BY <1>1 DEF KnownCall, CallOK
<1>3. PICK s : s = call[p].slot
  OBVIOUS
<1>4. AddFragment(p, s, nextID)
  BY <1>1, <1>3 DEF AddFragment
<1>5. QED
  BY <1>1, <1>2, <1>4, AddFragmentWhole

LEMMA ScheduleWhole ==
  ASSUME RoundsInv, WholeInv, StepOK, NEW p \in Proc, Schedule(p)
  PROVE  WholeInv'
<1>0. PICK c, r, v : c = call[p] /\ r = c.round /\ v = db[Round(r)]
  OBVIOUS
<1>1. /\ c.pc = "round" /\ c.for = "schedule" /\ Has(Round(r)) /\ KnownCall(c) /\ ops[p] = <<>>
      /\ db' = db /\ interrupted' = interrupted
  BY <1>0, OwnCallIsKnown DEF Schedule, AtRound, At, history
<1> DEFINE y == [v EXCEPT !.scheduled = TRUE]
           o == Put(Round(r), y)
           b == << o >>
           d == [c EXCEPT !.pc = "scheduled"]
<1>2. Ends(p) \/ WriteBatch(p, "scheduled", b)
  BY <1>0 DEF Schedule
<1>3. CASE Ends(p)
  <2>1. GoodCall(Idle)
    BY SilentIsGood DEF Idle
  <2>2. QED
    BY <1>1, <1>3, <2>1, SilentTurn DEF Ends, Becomes
<1>4. CASE WriteBatch(p, "scheduled", b)
  <2>1. Turn(p, d, b)
    BY <1>0, <1>1, <1>4 DEF WriteBatch, Turn, Local
  <2>2. Known(v.text, r, v) /\ IsRound(v)
    BY <1>0, <1>1, StoredIsKnown
  <2>3. RoundCall(c)
    BY <1>1 DEF KnownCall, CallOK, ProposeCall
  <2>4. d.pc = "scheduled"
    BY <2>3 DEF RoundCall
  <2>5. y.text = v.text /\ y.status = v.status /\ y.slots = v.slots
    BY <2>2 DEF IsRound
  <2>6. ~o.tombstone /\ o.key = Round(r) /\ o.val = y
    BY OpIs
  <2> HIDE DEF d, y, o
  <2>7. IsSeq(b) /\ \A i \in DOMAIN b : i = 1 /\ b[i] = o
    BY OneAt
  <2> HIDE DEF b
  <2>8. \A i, k, x : PutAt(b, i, k, x) => i = 1 /\ k = Round(r) /\ x = y
    BY <2>6, <2>7 DEF PutAt
  <2>9. PutsOnly(b, v.text, r, y, 0, 0, 0, FALSE, TRUE, 1)
    <3>1. \A i, k : ~EraseAt(b, i, k)
      BY <2>6, <2>7 DEF EraseAt
    <3>2. QED
      BY <2>7, <2>8, <3>1 DEF PutsOnly
  <2>10. Seeding(b, v.text, v, y, 0, 0, 0, 0, FALSE, 1)
    BY <2>5 DEF Seeding
  <2>11. PutBackIs(v.text, r, v, y, 0)
    BY <2>2, <2>5 DEF RoundPut, Known, PutBackIs
  <2>12. GoodBatch(b)
    BY <2>9, <2>10, <2>11, PutsGood
  <2>13. GoodCall(d) /\ d.pc # "idle"
    BY <2>4, SilentIsGood
  <2>14. QED
    BY <2>1, <2>12, <2>13, TurnInv
<1>5. QED
  BY <1>2, <1>3, <1>4

-----------------------------------------------------------------------------
(* The steps that only read, or write only votes and subscriptions.        *)

\* A call begins, goes on or ends, and knows of no round and no deletion.
LEMMA ReadsOnly ==
  ASSUME RoundsInv, WholeInv, StepOK, NEW p \in Proc, NEW c, db' = db, ops' = ops, ops[p] = <<>>,
         interrupted' = interrupted, call' = [call EXCEPT ![p] = c],
         c.pc \notin {"text", "tally", "collect", "next"}
  PROVE  WholeInv'
BY SilentIsGood, SilentTurn

LEMMA EndsWhole ==
  ASSUME RoundsInv, WholeInv, StepOK, NEW p \in Proc, db' = db, ops' = ops, ops[p] = <<>>,
         interrupted' = interrupted, call' = [call EXCEPT ![p] = Idle]
  PROVE  WholeInv'
BY ReadsOnly DEF Idle

\* Only a batch of such indexes begins.
LEMMA PlainTurn ==
  ASSUME RoundsInv, WholeInv, StepOK, NEW p \in Proc, NEW c, NEW b, Turn(p, c, b), Plain(b),
         c.pc \notin {"idle", "text", "tally", "collect", "next"}
  PROVE  WholeInv'
<1>1. GoodBatch(b)
  BY PlainGood
<1>2. GoodCall(c)
  BY SilentIsGood
<1>3. QED
  BY <1>1, <1>2, TurnInv

LEMMA StartWhole ==
  ASSUME RoundsInv, WholeInv, StepOK, NEW p \in Proc, NEW u, NEW t, NEW f, NEW range,
         \/ CastVote(p, u, f) \/ ProposeEdit(p, u, t, range) \/ ScheduleRoundClose(p, u, t)
         \/ CloseRound(p, u, t) \/ CloseDue(p, t)
  PROVE  WholeInv'
<1>1. /\ call[p].pc = "idle" /\ db' = db /\ ops' = ops /\ interrupted' = interrupted
      /\ \E c : call' = [call EXCEPT ![p] = c] /\ c.pc \in {"choice", "pointer"}
  <2>1. CASE CastVote(p, u, f)
    <3> DEFINE c == [pc |-> "choice", user |-> u, fragment |-> f,
                     text |-> db[Fragment(f)].text, slot |-> db[Fragment(f)].slot]
    <3>1. c.pc = "choice" /\ call' = [call EXCEPT ![p] = c]
      BY <2>1 DEF CastVote, Becomes
    <3> HIDE DEF c
    <3>2. QED
      BY <2>1, <3>1 DEF CastVote, Arrives, history
  <2>2. CASE ProposeEdit(p, u, t, range)
    <3> DEFINE c == [pc |-> "pointer", for |-> "propose", user |-> u, text |-> t, round |-> 0,
                     content |-> db[Text(t)].content, range |-> range, number |-> 0, slot |-> 0]
    <3>1. c.pc = "pointer" /\ call' = [call EXCEPT ![p] = c]
      BY <2>2 DEF ProposeEdit, Becomes
    <3> HIDE DEF c
    <3>2. QED
      BY <2>2, <3>1 DEF ProposeEdit, Arrives, history
  <2>3. CASE ScheduleRoundClose(p, u, t)
    <3> DEFINE c == [pc |-> "pointer", for |-> "schedule", user |-> u, text |-> t, round |-> 0]
    <3>1. c.pc = "pointer" /\ call' = [call EXCEPT ![p] = c]
      BY <2>3 DEF ScheduleRoundClose, Becomes
    <3> HIDE DEF c
    <3>2. QED
      BY <2>3, <3>1 DEF ScheduleRoundClose, Arrives, history
  <2>4. ASSUME NEW w, StartClose(p, w, t)
        PROVE  \E c : call' = [call EXCEPT ![p] = c] /\ c.pc \in {"choice", "pointer"}
    <3> DEFINE c == [pc |-> "pointer", for |-> "close", user |-> w, text |-> t, round |-> 0]
    <3>1. c.pc = "pointer" /\ call' = [call EXCEPT ![p] = c]
      BY <2>4 DEF StartClose, Becomes
    <3> HIDE DEF c
    <3>2. QED
      BY <3>1
  <2>5. CASE CloseRound(p, u, t)
    BY <2>4, <2>5 DEF CloseRound, Arrives, history
  <2>6. CASE CloseDue(p, t)
    BY <2>4, <2>6 DEF CloseDue, history
  <2>7. QED
    BY <2>1, <2>2, <2>3, <2>5, <2>6
<1>2. PICK c : call' = [call EXCEPT ![p] = c] /\ c.pc \in {"choice", "pointer"}
  BY <1>1
<1>3. QED
  BY <1>1, <1>2, IdleHasNoBatch, ReadsOnly

LEMMA SubscribeWhole ==
  ASSUME RoundsInv, WholeInv, StepOK, NEW p \in Proc, NEW u, NEW t,
         Subscribe(p, u, t) \/ Unsubscribe(p, u, t)
  PROVE  WholeInv'
<1>0. ops[p] = <<>> /\ interrupted' = interrupted
  BY IdleHasNoBatch DEF Subscribe, Unsubscribe, Arrives, history
<1>1. PICK c, x, y : /\ Turn(p, c, << x, y >>) /\ c.pc \in {"subscribed", "unsubscribed"}
                     /\ x.key = Subscription(t, u) /\ y.key = SubscriptionIndex(u, t)
  <2>1. CASE Subscribe(p, u, t)
    <3> DEFINE c == [pc |-> "subscribed", user |-> u]
               x == Put(Subscription(t, u), u)
               y == Put(SubscriptionIndex(u, t), t)
    <3>1. Turn(p, c, << x, y >>) /\ c.pc = "subscribed"
      BY <1>0, <2>1 DEF Subscribe, Becomes, Local, Turn
    <3>2. x.key = Subscription(t, u) /\ y.key = SubscriptionIndex(u, t)
      BY OpIs
    <3> HIDE DEF c, x, y
    <3>3. QED
      BY <3>1, <3>2
  <2>2. CASE Unsubscribe(p, u, t)
    <3> DEFINE c == [pc |-> "unsubscribed", user |-> u]
               x == Delete(Subscription(t, u))
               y == Delete(SubscriptionIndex(u, t))
    <3>1. Turn(p, c, << x, y >>) /\ c.pc = "unsubscribed"
      BY <1>0, <2>2 DEF Unsubscribe, Becomes, Local, Turn
    <3>2. x.key = Subscription(t, u) /\ y.key = SubscriptionIndex(u, t)
      BY OpIs
    <3> HIDE DEF c, x, y
    <3>3. QED
      BY <3>1, <3>2
  <2>3. QED
    BY <2>1, <2>2
<1>2. Plain(<< x, y >>)
  <2> DEFINE b == << x, y >>
  <2>1. IsSeq(b) /\ \A i \in DOMAIN b : (i = 1 /\ b[i] = x) \/ (i = 2 /\ b[i] = y)
    BY TwoAt
  <2>2. x.key[1] \notin Families /\ y.key[1] \notin Families
    BY <1>1, KeyIs DEF Families
  <2> HIDE DEF b
  <2>3. Plain(b)
    BY <2>1, <2>2 DEF Plain
  <2>4. QED
    BY <2>3 DEF b
<1>3. QED
  BY <1>1, <1>2, PlainTurn

LEMMA ReadChoiceWhole ==
  ASSUME RoundsInv, WholeInv, StepOK, NEW p \in Proc, ReadChoice(p)
  PROVE  WholeInv'
<1>1. PICK c : c = call[p]
  OBVIOUS
<1>2. PICK choice, other, b : /\ choice = UserChoice(c.text, c.slot, c.user) /\ other = db[choice]
                              /\ b = VoteOps(c.fragment, choice, c.user)
  OBVIOUS
<1> DEFINE d == [c EXCEPT !.pc = "voted"]
           x == Put(Vote(c.fragment, c.user), c.user)
           y == Put(choice, c.fragment)
           z == Delete(Vote(other, c.user))
<1>3. c.pc = "choice" /\ VoteCall(c)
  BY <1>1, SameCall DEF ReadChoice, At, CallOK
<1>4. Turn(p, d, b)
  BY <1>1, <1>2 DEF ReadChoice, At, WriteBatch, Local, Turn, history
<1>5. d.pc = "voted"
  BY <1>3 DEF VoteCall
<1>6. b = << x, y >> \o << z >> \/ b = << x, y >> \o <<>>
  BY <1>2 DEF VoteOps
<1>7. x.key = Vote(c.fragment, c.user) /\ y.key = choice /\ z.key = Vote(other, c.user)
  BY OpIs
<1>8. x.key[1] \notin Families /\ y.key[1] \notin Families /\ z.key[1] \notin Families
  BY <1>2, <1>7, KeyIs DEF Families
<1> HIDE DEF d, x, y, z
<1>9. Plain(<< x, y >>)
  <2> DEFINE e == << x, y >>
  <2>1. IsSeq(e) /\ \A i \in DOMAIN e : (i = 1 /\ e[i] = x) \/ (i = 2 /\ e[i] = y)
    BY TwoAt
  <2> HIDE DEF e
  <2>2. Plain(e)
    BY <1>8, <2>1 DEF Plain
  <2>3. QED
    BY <2>2 DEF e
<1>10. Plain(<< z >>)
  <2> DEFINE e == << z >>
  <2>1. IsSeq(e) /\ \A i \in DOMAIN e : i = 1 /\ e[i] = z
    BY OneAt
  <2> HIDE DEF e
  <2>2. Plain(e)
    BY <1>8, <2>1 DEF Plain
  <2>3. QED
    BY <2>2 DEF e
<1>11. Plain(b)
  BY <1>6, <1>9, <1>10, EmptyIsPlain, PlainConcat
<1>12. QED
  BY <1>4, <1>5, <1>11, PlainTurn

LEMMA NoRoundWhole ==
  ASSUME RoundsInv, WholeInv, StepOK, NEW p \in Proc, call[p].pc \in {"pointer", "round"}, ops[p] = <<>>,
         NoRound(p), db' = db, ops' = ops, interrupted' = interrupted
  PROVE  WholeInv'
<1>1. PICK c : c = call[p]
  OBVIOUS
<1>2. CASE c.for = "propose"
  <2> DEFINE d == [c EXCEPT !.pc = "superseded"]
  <2>1. call' = [call EXCEPT ![p] = d]
    BY <1>1, <1>2 DEF NoRound, Becomes
  <2>2. ProposeCall(c) \/ RoundCall(c)
    BY <1>1, SameCall DEF CallOK
  <2>3. d.pc = "superseded"
    BY <2>2 DEF ProposeCall, RoundCall
  <2> HIDE DEF d
  <2>4. QED
    BY <2>1, <2>3, ReadsOnly
<1>3. CASE c.for # "propose"
  BY <1>1, <1>3, EndsWhole DEF NoRound, Becomes
<1>4. QED
  BY <1>2, <1>3

LEMMA ReadPointerWhole ==
  ASSUME RoundsInv, WholeInv, StepOK, NEW p \in Proc, ReadPointer(p)
  PROVE  WholeInv'
<1>1. PICK c, r : c = call[p] /\ r = db[CurrentRound(c.text)]
  OBVIOUS
<1>2. c.pc = "pointer" /\ ops[p] = <<>> /\ db' = db /\ ops' = ops /\ interrupted' = interrupted
  BY <1>1 DEF ReadPointer, At, history
<1> DEFINE d == [c EXCEPT !.pc = "round", !.round = r]
<1>3. NoRound(p) \/ call' = [call EXCEPT ![p] = d]
  BY <1>1 DEF ReadPointer, Becomes
<1>4. CASE NoRound(p)
  BY <1>1, <1>2, <1>4, NoRoundWhole
<1>5. CASE call' = [call EXCEPT ![p] = d]
  <2>1. ProposeCall(c) \/ RoundCall(c)
    BY <1>1, <1>2, SameCall DEF CallOK
  <2>2. d.pc = "round"
    BY <2>1 DEF ProposeCall, RoundCall
  <2> HIDE DEF d
  <2>3. QED
    BY <1>2, <1>5, <2>2, ReadsOnly
<1>6. QED
  BY <1>3, <1>4, <1>5

LEMMA RoundGoneWhole ==
  ASSUME RoundsInv, WholeInv, StepOK, NEW p \in Proc, RoundGone(p)
  PROVE  WholeInv'
BY NoRoundWhole DEF RoundGone, At, history

LEMMA CheckSupersededWhole ==
  ASSUME RoundsInv, WholeInv, StepOK, NEW p \in Proc, CheckSuperseded(p)
  PROVE  WholeInv'
<1>1. PICK c : c = call[p]
  OBVIOUS
<1> DEFINE d == [c EXCEPT !.pc = "count"]
<1>2. c.pc = "superseded" /\ ops[p] = <<>> /\ db' = db /\ ops' = ops /\ interrupted' = interrupted
  BY <1>1 DEF CheckSuperseded, At, history
<1>3. call' = [call EXCEPT ![p] = Idle] \/ call' = [call EXCEPT ![p] = d]
  BY <1>1 DEF CheckSuperseded, Becomes
<1>4. d.pc = "count"
  BY <1>1, <1>2, SameCall DEF CallOK, ProposeCall
<1> HIDE DEF d
<1>5. QED
  BY <1>2, <1>3, <1>4, EndsWhole, ReadsOnly

\* The steps of a close, which keeps the round as it has read it.
LEMMA ReadsGood ==
  ASSUME NEW c, c.pc \in {"text", "tally"}, HasSlots(c.round, c.read.text, c.read.slots),
         \A t, k2 : Rests(t, Round(c.round), c.read, k2) /\ Live(t) => Has(k2)
  PROVE  GoodCall(c)
BY DEF GoodCall, CallSlots, CallRests, DeletesOK

LEMMA ReadRoundWhole ==
  ASSUME RoundsInv, WholeInv, StepOK, NEW p \in Proc, ReadRound(p)
  PROVE  WholeInv'
<1>1. PICK c, r, round : c = call[p] /\ r = c.round /\ round = db[Round(r)]
  OBVIOUS
<1> DEFINE d == [pc |-> "text", user |-> c.user, text |-> c.text, round |-> r, read |-> round]
<1>2. Has(Round(r)) /\ ops[p] = <<>> /\ db' = db /\ ops' = ops /\ interrupted' = interrupted
  BY <1>1 DEF ReadRound, AtRound, At, history
<1>3. call' = [call EXCEPT ![p] = Idle] \/ call' = [call EXCEPT ![p] = d]
  BY <1>1 DEF ReadRound, Becomes
<1>4. d.pc = "text" /\ d.round = r /\ d.read = round
  OBVIOUS
<1> HIDE DEF d
<1>5. HasSlots(r, round.text, round.slots)
  BY <1>1, <1>2, RoundIs
<1>6. \A t, k2 : Rests(t, Round(r), round, k2) /\ Live(t) => Has(k2)
  <2>1. Stored(Round(r), round)
    BY <1>1, <1>2 DEF Stored, Has
  <2>2. QED
    BY <2>1, Zenon DEF WholeInv, StoreRests
<1>7. GoodCall(d)
  BY <1>4, <1>5, <1>6, ReadsGood
<1>8. QED
  BY <1>2, <1>3, <1>7, EndsWhole, SilentTurn

LEMMA ReadTextWhole ==
  ASSUME RoundsInv, WholeInv, StepOK, NEW p \in Proc, ReadText(p)
  PROVE  WholeInv'
<1>1. PICK c, old : c = call[p] /\ old = db[Text(c.text)]
  OBVIOUS
<1> DEFINE d == [pc |-> "tally", user |-> c.user, text |-> c.text, round |-> c.round,
                 read |-> c.read, old |-> old, winners |-> <<>>]
<1>2. c.pc = "text" /\ ops[p] = <<>> /\ db' = db /\ ops' = ops /\ interrupted' = interrupted
  BY <1>1 DEF ReadText, At, history
<1>3. call' = [call EXCEPT ![p] = Idle] \/ call' = [call EXCEPT ![p] = d]
  BY <1>1 DEF ReadText, Becomes
<1>4. d.pc = "tally" /\ d.round = c.round /\ d.read = c.read
  OBVIOUS
<1> HIDE DEF d
<1>5. GoodCall(d)
  <2>1. HasSlots(c.round, c.read.text, c.read.slots) /\ CallRests(c)
    BY <1>1, <1>2, ReadIs
  <2>2. QED
    BY <1>2, <1>4, <2>1, ReadsGood DEF CallRests
<1>6. QED
  BY <1>2, <1>3, <1>5, EndsWhole, SilentTurn

LEMMA TallyWhole ==
  ASSUME RoundsInv, WholeInv, StepOK, NEW p \in Proc, Tally(p)
  PROVE  WholeInv'
<1>1. PICK c : c = call[p]
  OBVIOUS
<1>2. c.pc = "tally" /\ ops[p] = <<>> /\ db' = db /\ ops' = ops /\ interrupted' = interrupted
  BY <1>1 DEF Tally, At, history
<1>3. call' = [call EXCEPT ![p] = Idle] \/ \E w : call' = [call EXCEPT ![p] = [c EXCEPT !.winners = w]]
  <2>1. CASE Becomes(p, Idle)
    BY <2>1 DEF Becomes
  <2>2. CASE \E f : Becomes(p, [call[p] EXCEPT !.winners = Append(@, db[Fragment(f)].content)])
    BY <1>1, <2>2, Zenon DEF Becomes
  <2>3. QED
    BY <2>1, <2>2, Zenon DEF Tally
<1>4. TallyCall(c)
  BY <1>1, <1>2, SameCall DEF CallOK
<1>5. ASSUME NEW w PROVE GoodCall([c EXCEPT !.winners = w])
  <2> DEFINE d == [c EXCEPT !.winners = w]
  <2>1. d.pc = "tally" /\ d.round = c.round /\ d.read = c.read
    BY <1>2, <1>4 DEF TallyCall
  <2> HIDE DEF d
  <2>2. HasSlots(c.round, c.read.text, c.read.slots) /\ CallRests(c)
    BY <1>1, <1>2, ReadIs
  <2>3. GoodCall(d)
    BY <1>2, <2>1, <2>2, ReadsGood DEF CallRests
  <2>4. QED
    BY <2>3 DEF d
<1>6. CASE call' = [call EXCEPT ![p] = Idle]
  BY <1>2, <1>6, EndsWhole
<1>7. CASE \E w : call' = [call EXCEPT ![p] = [c EXCEPT !.winners = w]]
  <2>1. PICK w : call' = [call EXCEPT ![p] = [c EXCEPT !.winners = w]]
    BY <1>7
  <2>2. PICK d : d = [c EXCEPT !.winners = w]
    OBVIOUS
  <2>3. GoodCall(d) /\ call' = [call EXCEPT ![p] = d]
    BY <1>5, <2>1, <2>2
  <2>4. QED
    BY <1>2, <2>3, SilentTurn
<1>8. QED
  BY <1>3, <1>6, <1>7

\* The steps that take no turn.
LEMMA FailsWhole ==
  ASSUME RoundsInv, WholeInv, StepOK, NEW p \in Proc, Fails(p)
  PROVE  WholeInv'
<1>1. Local(p, Idle, <<>>) /\ interrupted' = TRUE
  BY DEF Fails, Becomes, Local
<1>2. GoodBatch(<<>>) /\ GoodCall(Idle)
  BY EmptyIsPlain, PlainGood, SilentIsGood DEF Idle
<1>3. GoodStep(p, Idle, <<>>)
  BY <1>1, <1>2 DEF GoodStep
<1>4. QED
  BY <1>3, GoodStepInv

LEMMA UnchangedWhole ==
  ASSUME WholeInv, UNCHANGED <<db, call, ops, nextID, interrupted>>
  PROVE  WholeInv'
<1> USE DEF Id, Stored, Written, HasContent, HasSlots, Points, Owner, Has, Pending, Coming, Live, Closing, Falls,
            Doomed, Slot, SeedOK, Marks, Needed
<1>1. KeysOK' /\ NeedsOK' /\ TextOnce'
  BY DEF WholeInv, KeysOK, NeedsOK, TextOnce, OldKey
<1>2. ValuesOK'
  BY DEF WholeInv, ValuesOK, SeedsOK, SeedIndexOK, FragmentsOK, RoundIndexOK, SupersededOK
<1>3. StoreRests'
  BY DEF WholeInv, StoreRests
<1>4. BatchesOK'
  <2>1. \A b : (Safe(b) => Safe(b)') /\ (BatchRests(b) => BatchRests(b)')
    BY DEF BatchRests, Safe, Careful, HeadCareful, OldKey
  <2>2. \A b, scan : ScanOK(b, scan) => ScanOK(b, scan)'
    <3>1. /\ \A b, t : Doomed(b, t) => Doomed(b, t)'
          /\ \A b, k : Loose(b, k) => Loose(b, k)'
      BY DEF Loose, OldKey
    <3>2. QED
      BY <3>1, Zenon DEF ScanOK
  <2>3. \A c : (CallRests(c) => CallRests(c)') /\ (DeletesOK(c) => DeletesOK(c)')
    <3>1. \A b, scans : ScansOK(b, scans) => ScansOK(b, scans)'
      BY <2>2 DEF ScansOK
    <3>2. QED
      BY <2>1, <3>1 DEF CallRests, DeletesOK
  <2>4. \A p \in Proc : BatchRests(ops[p]) /\ Safe(ops[p]) /\ CallRests(call[p]) /\ DeletesOK(call[p])
    BY DEF WholeInv, BatchesOK
  <2>5. ops' = ops /\ call' = call
    OBVIOUS
  <2>6. ASSUME NEW p \in Proc
        PROVE  /\ BatchRests(ops[p])' /\ Safe(ops[p])' /\ CallRests(call[p])' /\ DeletesOK(call[p])'
               /\ call'[p].pc = "idle" => ops'[p] = <<>>
    <3>1. PICK b, c : b = ops[p] /\ c = call[p]
      OBVIOUS
    <3>2. BatchRests(b)' /\ Safe(b)' /\ CallRests(c)' /\ DeletesOK(c)'
      BY <2>1, <2>3, <2>4, <3>1
    <3>3. (b = ops[p])' /\ (c = call[p])'
      BY <3>1
    <3>4. c.pc = "idle" => b = <<>>
      BY <3>1 DEF WholeInv, BatchesOK
    <3>5. QED
      BY <2>5, <3>1, <3>2, <3>3, <3>4
  <2>7. QED
    BY <2>6 DEF BatchesOK
<1>5. HeadsOK'
  BY DEF WholeInv, HeadsOK, OpenText
<1>6. QED
  BY <1>1, <1>2, <1>3, <1>4, <1>5 DEF WholeInv

-----------------------------------------------------------------------------
(* What a deletion collects.                                               *)

\* The operations m may follow the deletions a: what a text that is there
\* needs is deleted after the text.
Frees(a, m) ==
  \A j, k : EraseAt(m, j, k) =>
    \/ k[1] \notin {"text", "supersededby", "currentround"} /\ Loose(a, k)
    \/ \E t : k = Text(t) /\ Id(t) /\ ~Pending(Text(t))
    \/ \E t, i : /\ k \in {CurrentRound(t), RoundCount(t), SupersededBy(t)} /\ Id(t)
                 /\ i < j /\ EraseAt(m, i, Text(t))

LEMMA EraseConcat ==
  ASSUME NEW a, NEW m, IsSeq(a), IsSeq(m)
  PROVE  LET c == a \o m
         IN  /\ IsSeq(c)
             /\ \A i, k : EraseAt(a, i, k) => EraseAt(c, i, k)
             /\ \A j, k : EraseAt(m, j, k) => EraseAt(c, j + Len(a), k)
             /\ \A i, k : EraseAt(c, i, k) =>
                  \/ EraseAt(a, i, k)
                  \/ \E j : /\ EraseAt(m, j, k) /\ \A l, x : EraseAt(a, l, x) => l < i
                            /\ \A l, x : EraseAt(m, l, x) /\ l < j => l + Len(a) < i
<1> DEFINE c == a \o m
           n == Len(a)
<1>1. /\ IsSeq(c) /\ n \in Nat
      /\ \A i \in DOMAIN c : \/ i \in DOMAIN a /\ c[i] = a[i]
                             \/ i - n \in DOMAIN m /\ c[i] = m[i - n] /\ i \in Nat /\ n < i
      /\ \A i \in DOMAIN a : i \in DOMAIN c /\ c[i] = a[i] /\ i \in Nat /\ i <= n
      /\ \A i \in DOMAIN m : i + n \in DOMAIN c /\ c[i + n] = m[i]
  <2>1. Joins(c, a, m)
    BY JoinsAt
  <2> HIDE DEF c
  <2>2. QED
    BY <2>1 DEF Joins, n
<1>2. \A i \in DOMAIN m : i \in Nat
  BY SeqIs
<1> HIDE DEF c, n
<1>3. \A i, k : EraseAt(a, i, k) => EraseAt(c, i, k)
  BY <1>1, Zenon DEF EraseAt
<1>4. \A j, k : EraseAt(m, j, k) => EraseAt(c, j + n, k)
  BY <1>1, Zenon DEF EraseAt
<1>5. \A i, k : EraseAt(c, i, k) =>
        \/ EraseAt(a, i, k)
        \/ \E j : /\ EraseAt(m, j, k) /\ \A l, x : EraseAt(a, l, x) => l < i
                  /\ \A l, x : EraseAt(m, l, x) /\ l < j => l + n < i
  <2> SUFFICES ASSUME NEW i, NEW k, EraseAt(c, i, k), ~EraseAt(a, i, k)
               PROVE  \E j : /\ EraseAt(m, j, k) /\ \A l, x : EraseAt(a, l, x) => l < i
                             /\ \A l, x : EraseAt(m, l, x) /\ l < j => l + n < i
    BY Zenon
  <2>1. i \in DOMAIN c /\ c[i].tombstone /\ c[i].key = k
    BY DEF EraseAt
  <2>2. i - n \in DOMAIN m /\ c[i] = m[i - n] /\ i \in Nat /\ n < i
    BY <1>1, <2>1 DEF EraseAt
  <2>3. EraseAt(m, i - n, k)
    BY <2>1, <2>2 DEF EraseAt
  <2>4. \A l, x : EraseAt(a, l, x) => l < i
    BY <1>1, <2>2 DEF EraseAt
  <2>5. \A l, x : EraseAt(m, l, x) /\ l < i - n => l + n < i
    BY <1>1, <1>2, <2>2 DEF EraseAt
  <2>6. QED
    BY <2>3, <2>4, <2>5
<1>6. QED
  BY <1>1, <1>3, <1>4, <1>5 DEF c, n

\* What was said of a batch of deletions is true of a longer one.
LEMMA ScansStay ==
  ASSUME NEW a, NEW m, IsSeq(a), IsSeq(m)
  PROVE  /\ \A t : Doomed(a, t) => Doomed(a \o m, t)
         /\ \A k : Loose(a, k) => Loose(a \o m, k)
         /\ \A scan : ScanOK(a, scan) => ScanOK(a \o m, scan)
         /\ \A scans : ScansOK(a, scans) => ScansOK(a \o m, scans)
<1> DEFINE c == a \o m
<1>1. \A i, k : EraseAt(a, i, k) => EraseAt(c, i, k)
  BY EraseConcat
<1> HIDE DEF c
<1>2. \A t : Doomed(a, t) => Doomed(c, t)
  BY <1>1, Zenon DEF Doomed
<1>3. \A k : Loose(a, k) => Loose(c, k)
  BY <1>2, Zenon DEF Loose
<1>4. \A scan : ScanOK(a, scan) => ScanOK(c, scan)
  BY <1>2, <1>3, Zenon DEF ScanOK
<1>5. \A scans : ScansOK(a, scans) => ScansOK(c, scans)
  BY <1>4, Zenon DEF ScansOK
<1>6. QED
  BY <1>2, <1>3, <1>4, <1>5 DEF c

LEMMA SafeConcat ==
  ASSUME RoundsInv, NEW a, NEW m, IsSeq(a), IsSeq(m), Safe(a), Frees(a, m)
  PROVE  Safe(a \o m)
<1> DEFINE c == a \o m
           n == Len(a)
<1>1. /\ \A i, k : EraseAt(a, i, k) => EraseAt(c, i, k)
      /\ \A j, k : EraseAt(m, j, k) => EraseAt(c, j + n, k)
      /\ \A i, k : EraseAt(c, i, k) =>
           \/ EraseAt(a, i, k)
           \/ \E j : /\ EraseAt(m, j, k) /\ \A l, x : EraseAt(a, l, x) => l < i
                     /\ \A l, x : EraseAt(m, l, x) /\ l < j => l + n < i
  BY EraseConcat
<1> HIDE DEF c, n
<1>2. ASSUME NEW i, NEW k, EraseAt(c, i, k)
      PROVE  /\ OldKey(k) /\ \A t : Needed(t, k) => Falls(c, i, t)
             /\ \A t : k = Text(t) => Id(t) /\ ~Pending(Text(t))
             /\ \A t : k = SupersededBy(t) => Id(t) /\ Falls(c, i, t)
             /\ \A t : k = CurrentRound(t) => Id(t) /\ (interrupted \/ Closing(t) \/ Falls(c, i, t))
  <2>1. CASE EraseAt(a, i, k)
    <3>1. \A t : Falls(a, i, t) => Falls(c, i, t)
      BY <1>1, Zenon DEF Falls
    <3>2. OldKey(k) /\ \A t : Needed(t, k) => Falls(a, i, t)
      BY <2>1, Zenon DEF Safe, Careful
    <3>3. HeadCareful(a)
      BY DEF Safe
    <3>4. /\ \A t : k = Text(t) => Id(t) /\ ~Pending(Text(t))
          /\ \A t : k = SupersededBy(t) => Id(t) /\ Falls(a, i, t)
          /\ \A t : k = CurrentRound(t) => Id(t) /\ (interrupted \/ Closing(t) \/ Falls(a, i, t))
      BY <2>1, <3>3 DEF HeadCareful
    <3>5. QED
      BY <3>1, <3>2, <3>4
  <2>2. CASE ~EraseAt(a, i, k)
    <3>1. PICK j : /\ EraseAt(m, j, k) /\ \A l, x : EraseAt(a, l, x) => l < i
                   /\ \A l, x : EraseAt(m, l, x) /\ l < j => l + n < i
      BY <1>1, <1>2, <2>2
    <3>2. CASE k[1] \notin {"text", "supersededby", "currentround"} /\ Loose(a, k)
      <4>1. OldKey(k) /\ \A t : Needed(t, k) => Doomed(a, t)
        BY <3>2 DEF Loose
      <4>2. \A t : Doomed(a, t) => Falls(c, i, t)
        BY <1>1, <3>1, Zenon DEF Doomed, Falls
      <4>3. \A t : k # Text(t) /\ k # SupersededBy(t) /\ k # CurrentRound(t)
        BY <3>2, KeyIs
      <4>4. QED
        BY <4>1, <4>2, <4>3
    <3>3. CASE \E t : k = Text(t) /\ Id(t) /\ ~Pending(Text(t))
      <4>1. PICK t : k = Text(t) /\ Id(t) /\ ~Pending(Text(t))
        BY <3>3
      <4>2. k[1] = "text"
        BY <4>1, KeyIs
      <4>3. OldKey(k) /\ \A u : ~Needed(u, k)
        BY <4>2, NeededIs DEF OldKey
      <4>4. \A u : k # SupersededBy(u) /\ k # CurrentRound(u)
        BY <4>2, KeyIs
      <4>5. \A u : k = Text(u) => u = t
        BY <4>1, SameKey
      <4>6. QED
        BY <4>1, <4>3, <4>4, <4>5
    <3>4. CASE \E t, l : /\ k \in {CurrentRound(t), RoundCount(t), SupersededBy(t)} /\ Id(t)
                         /\ l < j /\ EraseAt(m, l, Text(t))
      <4>1. PICK t, l : /\ k \in {CurrentRound(t), RoundCount(t), SupersededBy(t)} /\ Id(t)
                        /\ l < j /\ EraseAt(m, l, Text(t))
        BY <3>4
      <4>2. k[1] \in {"currentround", "roundcount", "supersededby"}
        BY <4>1, KeyIs
      <4>3. OldKey(k) /\ \A u : ~Needed(u, k)
        BY <4>2, NeededIs DEF OldKey
      <4>4. \A u : k # Text(u)
        BY <4>2, KeyIs
      <4>5. Falls(c, i, t)
        <5>1. l + n < i /\ EraseAt(c, l + n, Text(t))
          BY <1>1, <3>1, <4>1
        <5>2. QED
          BY <5>1, Zenon DEF Falls
      <4>6. \A u : k = SupersededBy(u) \/ k = CurrentRound(u) => u = t
        <5>1. TAKE u
        <5>2. HAVE k = SupersededBy(u) \/ k = CurrentRound(u)
        <5>3. k[2] = u /\ k # RoundCount(t)
          BY <5>2, KeyIs
        <5>4. k[2] = t
          BY <4>1, <5>3, KeyIs
        <5>5. QED
          BY <5>3, <5>4
      <4>7. QED
        BY <4>1, <4>3, <4>4, <4>5, <4>6
    <3>5. QED
      BY <3>1, <3>2, <3>3, <3>4, Zenon DEF Frees
  <2>3. QED
    BY <2>1, <2>2
<1>3. Careful(c)
  BY <1>2, Zenon DEF Careful
<1>4. HeadCareful(c)
  BY <1>2, Zenon DEF HeadCareful
<1>5. QED
  BY <1>3, <1>4 DEF Safe, c

LEMMA EmptyIsSafe == Safe(<<>>)
<1>1. \A i, k : ~EraseAt(<<>>, i, k)
  BY DEF EraseAt
<1>2. QED
  BY <1>1, Zenon DEF Safe, Careful, HeadCareful

\* Such a batch of deletions is a good one.
LEMMA ErasesGood ==
  ASSUME NEW b, Erases(b), Safe(b)
  PROVE  GoodBatch(b)
<1>1. IsSeq(b) /\ \A i, k : ~PutsAt(b, i, k)
  BY Zenon DEF Erases, PutsAt
<1>2. /\ \A k, v : ~Puts(b, k, v)
      /\ \A i, k, v : ~PutAt(b, i, k, v)
  BY <1>1, PutsIs, Zenon
<1>3. FreshPuts(b) /\ OneText(b) /\ Agree(b) /\ SlotsFrom(b) /\ PutsRest(b) /\ Opens(b)
  BY <1>1, <1>2, Zenon DEF FreshPuts, OneText, Agree, SlotsFrom, PutsRest, Opens
<1>4. Careful(b) /\ HeadCarefulNew(b)
  <2>1. Careful(b) /\ HeadCareful(b)
    BY DEF Safe
  <2>2. HeadCarefulNew(b)
    BY <2>1, Zenon DEF HeadCareful, HeadCarefulNew
  <2>3. QED
    BY <2>1, <2>2
<1>5. QED
  BY <1>1, <1>3, <1>4 DEF GoodBatch

\* Sequences of scans.
LEMMA ScansConcat ==
  ASSUME NEW b, NEW x, NEW y, ScansOK(b, x), ScansOK(b, y)
  PROVE  ScansOK(b, x \o y)
<1> DEFINE c == x \o y
<1>1. IsSeq(x) /\ IsSeq(y)
  BY DEF ScansOK
<1>2. /\ IsSeq(c)
      /\ \A i \in DOMAIN c : \/ i \in DOMAIN x /\ c[i] = x[i]
                             \/ i - Len(x) \in DOMAIN y /\ c[i] = y[i - Len(x)]
  BY <1>1, ConcatAt
<1> HIDE DEF c
<1>3. ScansOK(b, c)
  BY <1>2, Zenon DEF ScansOK
<1>4. QED
  BY <1>3 DEF c

LEMMA ScansTail ==
  ASSUME NEW b, NEW x, ScansOK(b, x), x # <<>>
  PROVE  ScansOK(b, Tail(x)) /\ ScanOK(b, Head(x))
<1>1. IsSeq(x)
  BY DEF ScansOK
<1>2. PICK S : x \in Seq(S)
  BY <1>1 DEF IsSeq
<1> DEFINE c == Tail(x)
<1>3. /\ c \in Seq(S) /\ Head(x) = x[1] /\ 1 \in DOMAIN x
      /\ \A i \in DOMAIN c : i + 1 \in DOMAIN x /\ c[i] = x[i + 1]
  BY <1>2
<1> HIDE DEF c
<1>4. \A i \in DOMAIN c : \E j \in DOMAIN x : c[i] = x[j]
  BY <1>3
<1>5. IsSeq(c)
  BY <1>3 DEF IsSeq
<1>6. ScansOK(b, c)
  BY <1>4, <1>5, Zenon DEF ScansOK
<1>7. ScanOK(b, x[1])
  BY <1>3, Zenon DEF ScansOK
<1>8. QED
  BY <1>3, <1>6, <1>7 DEF c

LEMMA NoScans == \A b : ScansOK(b, <<>>)
BY EmptyIsSeq DEF ScansOK

\* What a deletion collects for the keys that a scan has found.
Collected(scan, keys) == Each(keys, LAMBDA k : OpsFor(scan, k))

\* The deletions for the key k that a scan has found include that of x.
Deletes(scan, k, x) == \E l \in 1 .. Len(OpsFor(scan, k)) : OpsFor(scan, k)[l].key = x

LEMMA CollectedAre ==
  ASSUME NEW scan, NEW keys, IsSeq(keys)
  PROVE  /\ Erases(Collected(scan, keys))
         /\ \A i, x : EraseAt(Collected(scan, keys), i, x) => \E j \in DOMAIN keys : Deletes(scan, keys[j], x)
<1> DEFINE n == IF keys = <<>> THEN 0 ELSE Len(OpsFor(scan, keys[1]))
           e(i) == OpsFor(scan, keys[(i - 1) \div n + 1])[((i - 1) % n) + 1]
           b == [i \in 1 .. n * Len(keys) |-> e(i)]
<1>1. Len(keys) \in Nat /\ DOMAIN keys = 1 .. Len(keys)
  BY SeqIs
<1>2. Collected(scan, keys) = b
  BY DEF Collected, Each
<1>3. PICK m \in {0, 1, 2, 4} : \A k : Len(OpsFor(scan, k)) = m
  <2>1. \E m \in {0, 1, 2, 4} : \A k : Len(OpsFor(scan, k)) = m /\ \A j \in 1 .. m : OpsFor(scan, k)[j].tombstone
    BY OpsForLength
  <2>2. QED
    BY <2>1
<1>4. n \in {0, m}
  BY <1>3
<1> HIDE DEF n
<1>5. ASSUME NEW i \in 1 .. n * Len(keys)
      PROVE  /\ (i - 1) \div n + 1 \in DOMAIN keys
             /\ ((i - 1) % n) + 1 \in 1 .. Len(OpsFor(scan, keys[(i - 1) \div n + 1]))
  <2>1. n # 0
    BY <1>1
  <2>2. n = m /\ n \in {1, 2, 4}
    BY <1>4, <2>1
  <2>3. (i - 1) \div n + 1 \in 1 .. Len(keys) /\ ((i - 1) % n) + 1 \in 1 .. n
    BY <1>1, <2>2, EachIndex
  <2>4. QED
    BY <1>1, <1>3, <2>2, <2>3
<1>6. \A i \in DOMAIN b : \E j \in DOMAIN keys : \E l \in 1 .. Len(OpsFor(scan, keys[j])) :
        b[i] = OpsFor(scan, keys[j])[l]
  BY <1>5
<1>7. Erases(Collected(scan, keys))
  BY OpsForErase DEF Collected, Each
<1> HIDE DEF b
<1>8. \A i, x : EraseAt(b, i, x) => \E j \in DOMAIN keys : Deletes(scan, keys[j], x)
  <2> SUFFICES ASSUME NEW i, NEW x, EraseAt(b, i, x)
               PROVE  \E j \in DOMAIN keys : Deletes(scan, keys[j], x)
    BY Zenon
  <2>1. i \in DOMAIN b /\ b[i].key = x
    BY DEF EraseAt
  <2>2. PICK j \in DOMAIN keys : \E l \in 1 .. Len(OpsFor(scan, keys[j])) : b[i] = OpsFor(scan, keys[j])[l]
    BY <1>6, <2>1, Zenon
  <2>3. Deletes(scan, keys[j], x)
    BY <2>1, <2>2, Zenon DEF Deletes
  <2>4. QED
    BY <2>3
<1>9. QED
  BY <1>2, <1>7, <1>8

LEMMA DeletesTwo ==
  ASSUME NEW y, NEW z, NEW x, NEW s, s = << Delete(y), Delete(z) >>, NEW l \in 1 .. Len(s), s[l].key = x
  PROVE  x = y \/ x = z
<1>1. Len(s) = 2 /\ s[1].key = y /\ s[2].key = z
  BY DEF Delete
<1>2. l \in {1, 2}
  BY <1>1
<1>3. QED
  BY <1>1, <1>2

LEMMA DeletesAre ==
  ASSUME NEW scan, NEW k, NEW x
  PROVE  Deletes(scan, k, x) /\ scan.what # "texts of user" =>
         /\ scan.what = "rounds" => x = Round(k[2]) \/ x = RoundIndex(db[k].text, k[2])
         /\ scan.what \notin {"fragments", "fragments of user", "ballots"}
         /\ scan.what # "rounds" => x = k \/ x[1] \in {"subscription", "subscriptionindex"}
<1>0. HAVE Deletes(scan, k, x) /\ scan.what # "texts of user"
<1>1. PICK s : s = OpsFor(scan, k)
  OBVIOUS
<1>2. PICK l \in 1 .. Len(s) : s[l].key = x
  BY <1>0, <1>1 DEF Deletes
<1>3. CASE scan.what = "rounds"
  <2>1. s = RoundOps(db[k].text, k[2])
    BY <1>1, <1>3 DEF OpsFor
  <2>2. x = Round(k[2]) \/ x = RoundIndex(db[k].text, k[2])
    <3>1. PICK y, z : y = Round(k[2]) /\ z = RoundIndex(db[k].text, k[2])
      OBVIOUS
    <3>2. s = << Delete(y), Delete(z) >>
      BY <2>1, <3>1 DEF RoundOps
    <3>3. x = y \/ x = z
      BY <1>2, <3>2, DeletesTwo
    <3>4. QED
      BY <3>1, <3>3
  <2>3. QED
    BY <1>3, <2>2
<1>4. CASE scan.what \in {"fragments", "fragments of user", "ballots"}
  <2>1. s = <<>>
    BY <1>1, <1>4, Zenon DEF OpsFor
  <2>2. FALSE
    BY <1>2, <2>1
  <2>3. QED
    BY <2>2
<1>5. CASE scan.what = "subscriptions"
  <2>1. s = << Delete(k), Delete(SubscriptionIndex(k[3], k[2])) >>
    BY <1>1, <1>5 DEF OpsFor
  <2>2. x = k \/ x = SubscriptionIndex(k[3], k[2])
    <3>1. PICK z : z = SubscriptionIndex(k[3], k[2])
      OBVIOUS
    <3>2. s = << Delete(k), Delete(z) >>
      BY <2>1, <3>1
    <3>3. x = k \/ x = z
      BY <1>2, <3>2, DeletesTwo
    <3>4. QED
      BY <3>1, <3>3
  <2>3. x = k \/ x[1] = "subscriptionindex"
    <3>1. SubscriptionIndex(k[3], k[2])[1] = "subscriptionindex"
      BY KeyIs
    <3>2. QED
      BY <2>2, <3>1
  <2>4. x = k \/ x[1] \in {"subscription", "subscriptionindex"}
    BY <2>3, Zenon
  <2>5. scan.what \notin {"fragments", "fragments of user", "ballots"} /\ scan.what # "rounds"
    BY <1>5
  <2>6. QED
    BY <2>4, <2>5, Zenon
<1>6. CASE scan.what = "subscriptions of user"
  <2>1. s = << Delete(k), Delete(Subscription(k[3], k[2])) >>
    BY <1>1, <1>6 DEF OpsFor
  <2>2. x = k \/ x = Subscription(k[3], k[2])
    <3>1. PICK z : z = Subscription(k[3], k[2])
      OBVIOUS
    <3>2. s = << Delete(k), Delete(z) >>
      BY <2>1, <3>1
    <3>3. x = k \/ x = z
      BY <1>2, <3>2, DeletesTwo
    <3>4. QED
      BY <3>1, <3>3
  <2>3. x = k \/ x[1] = "subscription"
    <3>1. Subscription(k[3], k[2])[1] = "subscription"
      BY KeyIs
    <3>2. QED
      BY <2>2, <3>1
  <2>4. x = k \/ x[1] \in {"subscription", "subscriptionindex"}
    BY <2>3, Zenon
  <2>5. scan.what \notin {"fragments", "fragments of user", "ballots"} /\ scan.what # "rounds"
    BY <1>6
  <2>6. QED
    BY <2>4, <2>5, Zenon
<1>7. CASE scan.what \notin {"texts of user", "rounds", "fragments", "fragments of user", "ballots",
                             "subscriptions", "subscriptions of user"}
  <2>1. s = << Delete(k) >>
    BY <1>1, <1>7 DEF OpsFor
  <2>2. x = k
    BY <1>2, <2>1 DEF Delete
  <2>3. QED
    BY <1>7, <2>2
<1>8. QED
  BY <1>0, <1>3, <1>4, <1>5, <1>6, <1>7

LEMMA FourIndex ==
  ASSUME NEW m \in Nat, NEW i \in 1 .. 4 * m
  PROVE  LET j == i - ((i - 1) % 4)
         IN  /\ j \in 1 .. 4 * m /\ (j - 1) \div 4 = (i - 1) \div 4 /\ (j - 1) % 4 = 0
             /\ (i - 1) % 4 \in 0 .. 3 /\ ((i - 1) % 4 # 0 => j < i)
OBVIOUS

LEMMA FirstOfFour ==
  ASSUME NEW m \in Nat, NEW q \in 1 .. m, NEW i, i = 4 * (q - 1) + 1
  PROVE  i \in 1 .. 4 * m /\ q = (i - 1) \div 4 + 1 /\ 1 = ((i - 1) % 4) + 1
OBVIOUS

\* The deletions of the texts of a user: four for each, the text first.
LEMMA TextOpsEach ==
  ASSUME NEW scan, NEW keys, IsSeq(keys), \A k : OpsFor(scan, k) = TextOps(k[2])
  PROVE  LET b == Collected(scan, keys)
         IN  /\ \A q \in DOMAIN keys : \E i : EraseAt(b, i, Text(keys[q][2]))
             /\ \A i, x : EraseAt(b, i, x) =>
                  \E q \in DOMAIN keys : LET t == keys[q][2] IN
                    \/ x = Text(t)
                    \/ /\ x \in {CurrentRound(t), RoundCount(t), SupersededBy(t)}
                       /\ \E j : j < i /\ EraseAt(b, j, Text(t))
<1> DEFINE b == Collected(scan, keys)
           o(q) == TextOps(keys[q][2])
<1>1. PICK m : m = Len(keys) /\ m \in Nat /\ DOMAIN keys = 1 .. m
  BY SeqIs
<1>2. \A k : OpsFor(scan, k) = TextOps(k[2])
  OBVIOUS
<1>3. CASE keys = <<>>
  <2>1. m = 0
    BY <1>1, <1>3
  <2>2. DOMAIN keys = {}
    BY <1>1, <2>1
  <2>3. \A i, x : ~EraseAt(b, i, x)
    BY <2>2, CollectedAre
  <2> HIDE DEF b
  <2>4. QED
    BY <2>2, <2>3 DEF b
<1>4. CASE keys # <<>>
  <2>1. b = [i \in 1 .. 4 * m |-> o((i - 1) \div 4 + 1)[((i - 1) % 4) + 1]]
    <3>1. Len(TextOps(keys[1][2])) = 4
      BY DEF TextOps
    <3>2. Len(OpsFor(scan, keys[1])) = 4
      BY <1>2, <3>1
    <3> HIDE DEF o
    <3>3. \A q : OpsFor(scan, keys[q]) = o(q)
      BY <1>2 DEF o
    <3>4. b = [i \in 1 .. 4 * m |-> OpsFor(scan, keys[(i - 1) \div 4 + 1])[((i - 1) % 4) + 1]]
      BY <1>1, <1>4, <3>2 DEF Collected, Each
    <3>5. QED
      BY <3>3, <3>4
  <2> HIDE DEF b
  <2>2. \A q : LET t == keys[q][2] IN
          /\ \A l \in 1 .. 4 : o(q)[l].tombstone
          /\ o(q)[1].key = Text(t)
          /\ \A l \in {2, 3, 4} : o(q)[l].key \in {CurrentRound(t), RoundCount(t), SupersededBy(t)}
    BY DEF TextOps, Delete
  <2> HIDE DEF o
  <2>3. ASSUME NEW i \in 1 .. 4 * m, NEW q, NEW l, q = (i - 1) \div 4 + 1, l = ((i - 1) % 4) + 1
        PROVE  EraseAt(b, i, o(q)[l].key) /\ b[i].key = o(q)[l].key
    <3>1. i \in DOMAIN b /\ b[i] = o(q)[l]
      BY <2>1, <2>3
    <3>2. l \in 1 .. 4
      BY <1>1, <2>3
    <3>3. QED
      BY <2>2, <3>1, <3>2 DEF EraseAt
  <2>4. ASSUME NEW q \in DOMAIN keys
        PROVE  \E i : EraseAt(b, i, Text(keys[q][2]))
    <3>1. PICK i : i = 4 * (q - 1) + 1
      OBVIOUS
    <3>2. i \in 1 .. 4 * m /\ q = (i - 1) \div 4 + 1 /\ 1 = ((i - 1) % 4) + 1
      <4>1. m \in Nat /\ q \in 1 .. m
        BY <1>1
      <4>2. QED
        BY <3>1, <4>1, FirstOfFour
    <3>3. EraseAt(b, i, o(q)[1].key)
      BY <2>3, <3>2
    <3>4. QED
      BY <2>2, <3>3
  <2>5. ASSUME NEW i, NEW x, EraseAt(b, i, x)
        PROVE  \E q \in DOMAIN keys : LET t == keys[q][2] IN
                 \/ x = Text(t)
                 \/ /\ x \in {CurrentRound(t), RoundCount(t), SupersededBy(t)}
                    /\ \E j : j < i /\ EraseAt(b, j, Text(t))
    <3>1. i \in 1 .. 4 * m /\ b[i].key = x
      BY <2>1, <2>5 DEF EraseAt
    <3>2. PICK q, l, j : q = (i - 1) \div 4 + 1 /\ l = ((i - 1) % 4) + 1 /\ j = i - ((i - 1) % 4)
      OBVIOUS
    <3>3. /\ j \in 1 .. 4 * m /\ q = (j - 1) \div 4 + 1 /\ 1 = ((j - 1) % 4) + 1
          /\ l \in 1 .. 4 /\ (l # 1 => j < i)
      BY <1>1, <3>1, <3>2, FourIndex
    <3>4. q \in DOMAIN keys
      BY <1>1, <3>1, <3>2, EachIndex
    <3>5. x = o(q)[l].key
      BY <2>3, <3>1, <3>2
    <3>6. EraseAt(b, j, Text(keys[q][2]))
      BY <2>2, <2>3, <3>3
    <3>7. x = Text(keys[q][2]) \/ (l # 1 /\ x \in {CurrentRound(keys[q][2]), RoundCount(keys[q][2]),
                                                    SupersededBy(keys[q][2])})
      BY <2>2, <3>3, <3>5
    <3>8. QED
      BY <3>3, <3>4, <3>6, <3>7
  <2>6. QED
    BY <2>4, <2>5 DEF b
<1>5. QED
  BY <1>3, <1>4

\* The keys that a scan has found are there.
LEMMA FoundIs ==
  ASSUME RoundsInv, NEW scan, NEW keys \in SetToSeqs(Found(scan))
  PROVE  /\ IsSeq(keys) /\ \A q \in DOMAIN keys : keys[q] \in Found(scan)
         /\ \A k \in Found(scan) : Has(k) /\ Written(k, db[k])
<1>1. Found(scan) \subseteq DOMAIN db
  BY DEF Found, KeysOf, Has
<1>2. keys \in Seq(Found(scan))
  BY FoundIsFinite, SetToSeqsAre
<1>3. \A k \in DOMAIN db : Written(k, db[k])
  BY Zenon DEF Written, Stored
<1>4. IsSeq(keys)
  BY <1>2 DEF IsSeq
<1> DEFINE F == Found(scan)
<1> HIDE DEF F
<1>5. \A q \in DOMAIN keys : keys[q] \in F
  BY <1>2 DEF F
<1>6. QED
  BY <1>1, <1>3, <1>4, <1>5 DEF F, Has

\* The scans to which the keys that a scan has found lead.
LEMMA VoteScansAre ==
  ASSUME NEW keys, IsSeq(keys)
  PROVE  LET b == Each(keys, LAMBDA k : << Scan("votes", k) >>)
         IN  IsSeq(b) /\ \A i \in DOMAIN b : \E q \in DOMAIN keys : b[i] = Scan("votes", keys[q])
<1> DEFINE b == Each(keys, LAMBDA k : << Scan("votes", k) >>)
           e(i) == Scan("votes", keys[i])
<1>1. PICK m : m = Len(keys) /\ m \in Nat /\ DOMAIN keys = 1 .. m /\ (keys = <<>> => m = 0)
  BY SeqIs
<1>2. PICK n : n = IF keys = <<>> THEN 0 ELSE 1
  OBVIOUS
<1>3. b = [i \in 1 .. n * m |-> << Scan("votes", keys[(i - 1) \div n + 1]) >>[((i - 1) % n) + 1]]
  BY <1>1, <1>2 DEF Each
<1> HIDE DEF b
<1>4. b = [i \in 1 .. n * m |-> << e((i - 1) \div n + 1) >>[((i - 1) % n) + 1]]
  BY <1>3, Zenon
<1> HIDE DEF e
<1>5. n * m = m /\ (m # 0 => n = 1)
  BY <1>1, <1>2
<1>6. \A i \in 1 .. m : (i - 1) \div 1 + 1 = i /\ ((i - 1) % 1) + 1 = 1
  BY <1>1
<1>7. b = [i \in 1 .. m |-> e(i)]
  <2>1. \A i \in 1 .. m : << e((i - 1) \div n + 1) >>[((i - 1) % n) + 1] = e(i)
    <3>1. TAKE i \in 1 .. m
    <3>2. n = 1
      BY <1>1, <1>5, <3>1
    <3>3. << e(i) >>[1] = e(i)
      OBVIOUS
    <3>4. QED
      BY <1>6, <3>1, <3>2, <3>3
  <2>2. QED
    BY <1>4, <1>5, <2>1
<1>8. b \in Seq({e(i) : i \in 1 .. m})
  BY <1>1, <1>7
<1>9. IsSeq(b) /\ \A i \in DOMAIN b : \E q \in DOMAIN keys : b[i] = e(q)
  BY <1>1, <1>7, <1>8 DEF IsSeq
<1>10. QED
  BY <1>9, Zenon DEF b, e

LEMMA BallotScansAre ==
  ASSUME NEW keys, IsSeq(keys)
  PROVE  LET b == Each(keys, LAMBDA k : << Scan("ballots", FragmentIndex(db[k].text, db[k].slot, k[2])) >>)
         IN  IsSeq(b) /\ \A i \in DOMAIN b : \E q \in DOMAIN keys : b[i] = Scan("ballots", FragmentIndex(db[keys[q]].text, db[keys[q]].slot, keys[q][2]))
<1> DEFINE b == Each(keys, LAMBDA k : << Scan("ballots", FragmentIndex(db[k].text, db[k].slot, k[2])) >>)
           e(i) == Scan("ballots", FragmentIndex(db[keys[i]].text, db[keys[i]].slot, keys[i][2]))
<1>1. PICK m : m = Len(keys) /\ m \in Nat /\ DOMAIN keys = 1 .. m /\ (keys = <<>> => m = 0)
  BY SeqIs
<1>2. PICK n : n = IF keys = <<>> THEN 0 ELSE 1
  OBVIOUS
<1>3. b = [i \in 1 .. n * m |-> << Scan("ballots", FragmentIndex(db[keys[(i - 1) \div n + 1]].text, db[keys[(i - 1) \div n + 1]].slot, keys[(i - 1) \div n + 1][2])) >>[((i - 1) % n) + 1]]
  BY <1>1, <1>2 DEF Each
<1> HIDE DEF b
<1>4. b = [i \in 1 .. n * m |-> << e((i - 1) \div n + 1) >>[((i - 1) % n) + 1]]
  BY <1>3, Zenon
<1> HIDE DEF e
<1>5. n * m = m /\ (m # 0 => n = 1)
  BY <1>1, <1>2
<1>6. \A i \in 1 .. m : (i - 1) \div 1 + 1 = i /\ ((i - 1) % 1) + 1 = 1
  BY <1>1
<1>7. b = [i \in 1 .. m |-> e(i)]
  <2>1. \A i \in 1 .. m : << e((i - 1) \div n + 1) >>[((i - 1) % n) + 1] = e(i)
    <3>1. TAKE i \in 1 .. m
    <3>2. n = 1
      BY <1>1, <1>5, <3>1
    <3>3. << e(i) >>[1] = e(i)
      OBVIOUS
    <3>4. QED
      BY <1>6, <3>1, <3>2, <3>3
  <2>2. QED
    BY <1>4, <1>5, <2>1
<1>8. b \in Seq({e(i) : i \in 1 .. m})
  BY <1>1, <1>7
<1>9. IsSeq(b) /\ \A i \in DOMAIN b : \E q \in DOMAIN keys : b[i] = e(q)
  BY <1>1, <1>7, <1>8 DEF IsSeq
<1>10. QED
  BY <1>9, Zenon DEF b, e

LEMMA TextScansAre ==
  ASSUME NEW keys, IsSeq(keys)
  PROVE  LET b == Each(keys, LAMBDA k : << Scan("fragments", k[2]), Scan("choices", k[2]) >>)
         IN  IsSeq(b) /\ \A i \in DOMAIN b : \E q \in DOMAIN keys :
               b[i] = Scan("fragments", keys[q][2]) \/ b[i] = Scan("choices", keys[q][2])
<1> DEFINE b == Each(keys, LAMBDA k : << Scan("fragments", k[2]), Scan("choices", k[2]) >>)
           d(q) == Scan("fragments", keys[q][2])
           f(q) == Scan("choices", keys[q][2])
<1>1. PICK m : m = Len(keys) /\ m \in Nat /\ DOMAIN keys = 1 .. m /\ (keys = <<>> => m = 0)
  BY SeqIs
<1>2. PICK n : n = IF keys = <<>> THEN 0 ELSE 2
  OBVIOUS
<1>3. b = [i \in 1 .. n * m |-> << Scan("fragments", keys[(i - 1) \div n + 1][2]),
                                   Scan("choices", keys[(i - 1) \div n + 1][2]) >>[((i - 1) % n) + 1]]
  BY <1>1, <1>2 DEF Each
<1> HIDE DEF b
<1>4. b = [i \in 1 .. n * m |-> << d((i - 1) \div n + 1), f((i - 1) \div n + 1) >>[((i - 1) % n) + 1]]
  BY <1>3, Zenon
<1> HIDE DEF d, f
<1>5. n * m = 2 * m /\ (m # 0 => n = 2)
  BY <1>1, <1>2
<1>6. ASSUME NEW i \in 1 .. 2 * m
      PROVE  \E q \in DOMAIN keys : b[i] = d(q) \/ b[i] = f(q)
  <2>1. PICK q, l : q = (i - 1) \div 2 + 1 /\ l = ((i - 1) % 2) + 1
    OBVIOUS
  <2>2. q \in 1 .. m /\ l \in 1 .. 2
    BY <1>1, <2>1, EachIndex
  <2>3. n = 2
    BY <1>1, <1>5
  <2>4. b[i] = << d(q), f(q) >>[l]
    BY <1>4, <1>5, <2>1, <2>3
  <2>5. << d(q), f(q) >>[1] = d(q) /\ << d(q), f(q) >>[2] = f(q)
    OBVIOUS
  <2>6. l = 1 \/ l = 2
    BY <2>2
  <2>7. b[i] = d(q) \/ b[i] = f(q)
    BY <2>4, <2>5, <2>6
  <2>8. QED
    BY <1>1, <2>2, <2>7
<1>7. DOMAIN b = 1 .. 2 * m
  BY <1>4, <1>5
<1>8. b \in Seq({b[i] : i \in 1 .. 2 * m})
  <2>1. b = [i \in 1 .. 2 * m |-> b[i]]
    BY <1>4, <1>5
  <2>2. QED
    BY <1>1, <2>1
<1>9. IsSeq(b) /\ \A i \in DOMAIN b : \E q \in DOMAIN keys : b[i] = d(q) \/ b[i] = f(q)
  BY <1>6, <1>7, <1>8 DEF IsSeq
<1>10. QED
  BY <1>9, Zenon DEF b, d, f

LEMMA ScanIs == \A what, of : Scan(what, of).what = what /\ Scan(what, of).of = of
BY DEF Scan

\* The keys that each scan finds.
LEMMA FoundKinds ==
  ASSUME NEW scan, NEW k \in Found(scan)
  PROVE  /\ scan.what = "texts of user" => k[1] = "text"
         /\ scan.what = "rounds" => k[1] = "round" /\ db[k].text \in scan.of
         /\ scan.what = "fragments" => k[1] = "fragmentindex" /\ k[2] = scan.of
         /\ scan.what = "fragments of user" => k[1] = "fragment" /\ db[k].author = scan.of
         /\ scan.what \notin {"texts of user", "rounds", "fragments", "fragments of user"} =>
              k[1] \in {"vote", "uservote", "subscription", "subscriptionindex"}
<1>1. PICK w : w = scan.what
  OBVIOUS
<1>2. CASE w = "texts of user"
  <2>1. k \in KeysOf("text")
    BY <1>1, <1>2 DEF Found
  <2>2. QED
    BY <1>1, <1>2, <2>1 DEF KeysOf
<1>3. CASE w = "rounds"
  <2>1. k \in KeysOf("round") /\ db[k].text \in scan.of
    BY <1>1, <1>3 DEF Found
  <2>2. QED
    BY <1>1, <1>3, <2>1 DEF KeysOf
<1>4. CASE w = "fragments"
  <2>1. k \in KeysOf("fragmentindex") /\ k[2] = scan.of
    BY <1>1, <1>4 DEF Found
  <2>2. QED
    BY <1>1, <1>4, <2>1 DEF KeysOf
<1>5. CASE w = "fragments of user"
  <2>1. k \in KeysOf("fragment") /\ db[k].author = scan.of
    BY <1>1, <1>5 DEF Found
  <2>2. QED
    BY <1>1, <1>5, <2>1 DEF KeysOf
<1>6. CASE w \notin {"texts of user", "rounds", "fragments", "fragments of user"}
  <2>1. k[1] \in {"vote", "uservote", "subscription", "subscriptionindex"}
    <3>1. CASE w \in {"votes", "ballots"}
      BY <1>1, <3>1 DEF Found, KeysOf
    <3>2. CASE w = "votes of user"
      BY <1>1, <3>2 DEF Found, KeysOf
    <3>3. CASE w \in {"choices", "choices of user"}
      BY <1>1, <3>3 DEF Found, KeysOf
    <3>4. CASE w = "choice"
      BY <1>1, <3>4, KeyIs DEF Found
    <3>5. CASE w = "subscriptions"
      BY <1>1, <3>5 DEF Found, KeysOf
    <3>6. CASE w \notin {"texts of user", "rounds", "fragments", "fragments of user", "votes", "ballots",
                         "votes of user", "choices", "choice", "choices of user", "subscriptions"}
      BY <1>1, <3>6 DEF Found, KeysOf
    <3>7. QED
      BY <1>6, <3>1, <3>2, <3>3, <3>4, <3>5, <3>6
  <2>2. QED
    BY <1>1, <1>6, <2>1
<1>7. QED
  BY <1>2, <1>3, <1>4, <1>5, <1>6

LEMMA LooseOther ==
  ASSUME NEW a, NEW k, k[1] \notin {"round", "fragment", "fragmentindex"}
  PROVE  Loose(a, k)
BY NeededIs DEF Loose, OldKey

\* Before a scan of the votes for a fragment, the fragment is deleted.
LEMMA BeforeFrees ==
  ASSUME NEW a, NEW scan, ScanOK(a, scan)
  PROVE  Frees(a, OpsBefore(scan))
<1>1. PICK w : w = scan.what
  OBVIOUS
<1>2. PICK y, z, v : y = scan.of /\ z = Fragment(scan.of[4]) /\ v = Vote(scan.of[4], scan.of[5])
  OBVIOUS
<1> DEFINE b == OpsBefore(scan)
<1>3. CASE w \in {"votes", "ballots"}
  <2>1. y[1] = "fragmentindex" /\ Loose(a, y) /\ Loose(a, z) /\ z[1] = "fragment"
    BY <1>1, <1>2, <1>3, KeyIs DEF ScanOK
  <2>2. b = << Delete(y), Delete(z) >> \/ b = << Delete(z), Delete(y) >>
    BY <1>1, <1>2, <1>3 DEF OpsBefore
  <2> HIDE DEF b
  <2>3. \A i, k : EraseAt(b, i, k) => k = y \/ k = z
    <3>1. PICK m, n : m = Delete(y) /\ n = Delete(z) /\ m.key = y /\ n.key = z
      BY OpIs
    <3>2. b = << m, n >> \/ b = << n, m >>
      BY <2>2, <3>1
    <3>3. \A i \in DOMAIN b : b[i] = m \/ b[i] = n
      BY <3>2, TwoAt
    <3>4. QED
      BY <3>1, <3>3 DEF EraseAt
  <2>4. QED
    BY <2>1, <2>3 DEF Frees, b
<1>4. CASE w = "choice"
  <2>1. b = << Delete(v) >> /\ v[1] = "vote"
    BY <1>1, <1>2, <1>4, KeyIs DEF OpsBefore
  <2> HIDE DEF b
  <2>2. \A i, k : EraseAt(b, i, k) => k = v
    <3>1. PICK m : m = Delete(v) /\ m.key = v
      BY OpIs
    <3>2. \A i \in DOMAIN b : b[i] = m
      BY <2>1, <3>1, OneAt
    <3>3. QED
      BY <3>1, <3>2 DEF EraseAt
  <2>3. Loose(a, v)
    BY <2>1, LooseOther
  <2>4. QED
    BY <2>1, <2>2, <2>3 DEF Frees, b
<1>5. CASE w \notin {"votes", "ballots", "choice"}
  <2>1. b = <<>>
    BY <1>1, <1>5 DEF OpsBefore
  <2>2. \A i, k : ~EraseAt(<<>>, i, k)
    BY DEF EraseAt
  <2>3. QED
    BY <2>1, <2>2 DEF Frees
<1>6. QED
  BY <1>3, <1>4, <1>5

\* The keys found by the scans that matter, and those that they lead to.
LEMMA RoundsFound ==
  ASSUME RoundsInv, WholeInv, NEW a, NEW scan, ScanOK(a, scan), scan.what = "rounds", NEW k \in Found(scan)
  PROVE  Loose(a, Round(k[2]))
<1>1. PICK u, r : u = db[k].text /\ r = k[2]
  OBVIOUS
<1>2. k[1] = "round" /\ Doomed(a, u)
  BY <1>1, FoundKinds DEF ScanOK
<1>3. Written(k, db[k])
  <2>1. Found(scan) \subseteq DOMAIN db
    BY DEF Found, KeysOf, Has
  <2>2. QED
    BY <2>1, Zenon DEF Written, Stored
<1>4. k = Round(r)
  BY <1>1, <1>2, <1>3, Zenon DEF RoundsInv, ShapesOK, RecordsOK, RecordOK
<1>5. OldKey(k)
  BY <1>3, Zenon DEF WholeInv, KeysOK
<1>6. Owner(r, u)
  BY <1>1, <1>3, <1>4, Zenon DEF Owner, HasSlots
<1>7. ASSUME NEW t, Needed(t, Round(r))
      PROVE  t = u
  <2>1. PICK q : Marks(t, q) /\ Round(r) = Round(q)
    <3>1. \A slot : Round(r) \notin SeedKeys(t, slot)
      BY DEF SeedKeys, Round, Fragment, FragmentIndex
    <3>2. QED
      BY <1>7, <3>1, Zenon DEF Needed
  <2>2. q = r
    BY <2>1, SameKey
  <2>3. CASE Written(CurrentRound(t), q)
    <3>1. Owner(r, t)
      BY <2>2, <2>3, Zenon DEF Owner, Points
    <3>2. QED
      BY <1>6, <3>1, Zenon DEF RoundsInv, OwnersOK
  <2>4. CASE \E v : Written(RoundIndex(t, q), v)
    BY <1>6, <2>2, <2>4, Zenon DEF WholeInv, ValuesOK, RoundIndexOK
  <2>5. QED
    BY <2>1, <2>3, <2>4, Zenon DEF Marks
<1>8. OldKey(Round(r)) /\ \A t : Needed(t, Round(r)) => Doomed(a, t)
  BY <1>2, <1>4, <1>5, <1>7
<1>9. QED
  BY <1>1, <1>8 DEF Loose

LEMMA FragmentsFound ==
  ASSUME RoundsInv, WholeInv, NEW a, NEW scan, ScanOK(a, scan), scan.what = "fragments", NEW k \in Found(scan)
  PROVE  ScanOK(a, Scan("votes", k))
<1>1. k[1] = "fragmentindex" /\ Doomed(a, k[2])
  BY FoundKinds DEF ScanOK
<1>2. Written(k, db[k])
  <2>1. Found(scan) \subseteq DOMAIN db
    BY DEF Found, KeysOf, Has
  <2>2. QED
    BY <2>1, Zenon DEF Written, Stored
<1>3. Shaped(k) /\ OldKey(k)
  BY <1>2, Zenon DEF WholeInv, KeysOK
<1>4. PICK t, s, f : t = k[2] /\ s = k[3] /\ f = k[4] /\ k = FragmentIndex(t, s, f)
  BY <1>1, <1>3 DEF Shaped
<1>5. Id(f)
  BY <1>1, <1>3, <1>4 DEF OldKey
<1>6. ASSUME NEW u, Needed(u, k)
      PROVE  u = t
  <2>1. \A r : k # Round(r)
    BY <1>1, KeyIs
  <2>2. PICK slot : k \in SeedKeys(u, slot)
    BY <1>6, <2>1, Zenon DEF Needed
  <2>3. k = FragmentIndex(u, slot.id, slot.id + 1)
    BY <1>1, <2>2, KeyIs DEF SeedKeys
  <2>4. k[2] = u
    BY <2>3, KeyIs
  <2>5. QED
    BY <1>4, <2>4
<1>7. \A u : Needed(u, Fragment(f)) => u = t
  BY <1>2, <1>4, Zenon DEF WholeInv, ValuesOK, SeedIndexOK
<1>8. Loose(a, k)
  BY <1>1, <1>3, <1>4, <1>6, Zenon DEF Loose
<1>9. Loose(a, Fragment(f))
  <2>1. OldKey(Fragment(f))
    BY <1>5, KeyIs DEF OldKey
  <2>2. Doomed(a, t)
    BY <1>1, <1>4
  <2>3. QED
    BY <1>7, <2>1, <2>2, Zenon DEF Loose
<1>10. QED
  <2>1. PICK x : x = Scan("votes", k)
    OBVIOUS
  <2>2. x.what = "votes" /\ x.of = k
    BY <2>1, ScanIs
  <2>3. ScanOK(a, x)
    BY <1>1, <1>4, <1>8, <1>9, <2>2 DEF ScanOK
  <2>4. QED
    BY <2>1, <2>3

\* No text needs a fragment that a user has proposed.
LEMMA NobodyNeeds ==
  ASSUME WholeInv, NEW f, NEW w, Written(Fragment(f), w), w.author # Seed, NEW u, NEW t, NEW n
  PROVE  ~Needed(u, Fragment(f)) /\ ~Needed(u, FragmentIndex(t, n, f))
<1>1. ASSUME NEW slot, Slot(u, slot)
      PROVE  slot.id + 1 # f
  <2>1. SUFFICES ASSUME slot.id + 1 = f PROVE FALSE
    OBVIOUS
  <2>2. Written(Fragment(slot.id + 1), w)
    BY <2>1
  <2>3. SeedOK(u, slot, w)
    BY <1>1, <2>2, Zenon DEF WholeInv, ValuesOK, SeedsOK
  <2>4. QED
    BY <2>3 DEF SeedOK
<1>2. ASSUME NEW x, x \in {Fragment(f), FragmentIndex(t, n, f)}, Needed(u, x)
      PROVE  FALSE
  <2>1. \A r : x # Round(r)
    BY <1>2 DEF Round, Fragment, FragmentIndex
  <2>2. PICK slot : Slot(u, slot) /\ x \in SeedKeys(u, slot)
    BY <1>2, <2>1, Zenon DEF Needed
  <2>3. PICK g : g = slot.id + 1
    OBVIOUS
  <2>4. x = Fragment(g) \/ x = FragmentIndex(u, slot.id, g)
    BY <2>2, <2>3 DEF SeedKeys
  <2>5. g = f
    BY <1>2, <2>4 DEF Fragment, FragmentIndex
  <2>6. QED
    BY <1>1, <2>2, <2>3, <2>5
<1>3. QED
  BY <1>2

LEMMA BallotScan ==
  ASSUME NEW a, NEW t, NEW n, NEW f, Id(f),
         \A u : ~Needed(u, Fragment(f)) /\ ~Needed(u, FragmentIndex(t, n, f))
  PROVE  ScanOK(a, Scan("ballots", FragmentIndex(t, n, f)))
<1>1. PICK y, x, z : y = FragmentIndex(t, n, f) /\ x = Scan("ballots", y) /\ z = Fragment(f)
  OBVIOUS
<1>2. y[1] = "fragmentindex" /\ y[4] = f
  BY <1>1 DEF FragmentIndex
<1>3. z[1] = "fragment" /\ z[2] = f
  BY <1>1 DEF Fragment
<1>4. OldKey(y) /\ OldKey(z)
  BY <1>2, <1>3 DEF OldKey
<1>5. Loose(a, y) /\ Loose(a, z)
  BY <1>1, <1>4, Zenon DEF Loose
<1>6. x.what = "ballots" /\ x.of = y
  BY <1>1, ScanIs
<1>7. ScanOK(a, x)
  BY <1>1, <1>2, <1>5, <1>6 DEF ScanOK
<1>8. QED
  BY <1>1, <1>7

LEMMA UserFragmentsFound ==
  ASSUME RoundsInv, WholeInv, NEW a, NEW scan, ScanOK(a, scan), scan.what = "fragments of user",
         NEW k \in Found(scan)
  PROVE  ScanOK(a, Scan("ballots", FragmentIndex(db[k].text, db[k].slot, k[2])))
<1>1. k[1] = "fragment" /\ db[k].author # Seed
  BY FoundKinds DEF ScanOK
<1>2. Written(k, db[k])
  <2>1. Found(scan) \subseteq DOMAIN db
    BY DEF Found, KeysOf, Has
  <2>2. QED
    BY <2>1, Zenon DEF Written, Stored
<1>3. Shaped(k) /\ OldKey(k)
  BY <1>2, Zenon DEF WholeInv, KeysOK
<1>4. PICK f : f = k[2] /\ k = Fragment(f)
  BY <1>1, <1>3 DEF Shaped
<1>5. Id(f)
  BY <1>1, <1>3, <1>4 DEF OldKey
<1>6. PICK t, n : t = db[k].text /\ n = db[k].slot
  OBVIOUS
<1>7. \A u : ~Needed(u, Fragment(f)) /\ ~Needed(u, FragmentIndex(t, n, f))
  BY <1>1, <1>2, <1>4, NobodyNeeds
<1>8. ScanOK(a, Scan("ballots", FragmentIndex(t, n, f)))
  BY <1>5, <1>7, BallotScan
<1>9. QED
  BY <1>4, <1>6, <1>8

\* What is deleted for the keys that a scan has found.
LEMMA TextsFound ==
  ASSUME RoundsInv, WholeInv, NEW scan, scan.what = "texts of user", NEW k \in Found(scan)
  PROVE  Id(k[2]) /\ ~Pending(Text(k[2]))
<1>1. k[1] = "text" /\ Has(k)
  BY FoundKinds DEF Found, KeysOf, Has
<1>2. Written(k, db[k])
  BY <1>1, Zenon DEF Written, Stored, Has
<1>3. k = Text(k[2])
  BY <1>1, <1>2, Zenon DEF RoundsInv, ShapesOK, RecordsOK, RecordOK
<1>4. Has(Text(k[2]))
  BY <1>1, <1>3
<1>5. Id(k[2])
  BY <1>4, LiveIs DEF Live, Coming
<1>6. ~Pending(Text(k[2]))
  BY <1>4, Zenon DEF WholeInv, TextOnce
<1>7. QED
  BY <1>5, <1>6

LEMMA CollectedFrees ==
  ASSUME RoundsInv, WholeInv, NEW a, NEW scan, ScanOK(a, scan), NEW keys \in SetToSeqs(Found(scan))
  PROVE  Frees(a, Collected(scan, keys))
<1> DEFINE b == Collected(scan, keys)
<1>1. IsSeq(keys) /\ \A q \in DOMAIN keys : keys[q] \in Found(scan)
  BY FoundIs
<1>2. CASE scan.what = "texts of user"
  <2>1. \A k : OpsFor(scan, k) = TextOps(k[2])
    BY <1>2 DEF OpsFor
  <2>2. /\ \A q \in DOMAIN keys : \E i : EraseAt(b, i, Text(keys[q][2]))
        /\ \A i, x : EraseAt(b, i, x) =>
             \E q \in DOMAIN keys : LET t == keys[q][2] IN
               \/ x = Text(t)
               \/ /\ x \in {CurrentRound(t), RoundCount(t), SupersededBy(t)}
                  /\ \E j : j < i /\ EraseAt(b, j, Text(t))
    BY <1>1, <2>1, TextOpsEach
  <2> HIDE DEF b
  <2>3. \A q \in DOMAIN keys : Id(keys[q][2]) /\ ~Pending(Text(keys[q][2]))
    BY <1>1, <1>2, TextsFound
  <2>4. ASSUME NEW i, NEW x, EraseAt(b, i, x)
        PROVE  \/ \E t : x = Text(t) /\ Id(t) /\ ~Pending(Text(t))
               \/ \E t, j : /\ x \in {CurrentRound(t), RoundCount(t), SupersededBy(t)} /\ Id(t)
                            /\ j < i /\ EraseAt(b, j, Text(t))
    <3>1. PICK q \in DOMAIN keys :
            \/ x = Text(keys[q][2])
            \/ /\ x \in {CurrentRound(keys[q][2]), RoundCount(keys[q][2]), SupersededBy(keys[q][2])}
               /\ \E j : j < i /\ EraseAt(b, j, Text(keys[q][2]))
      BY <2>2, <2>4, Zenon
    <3>2. Id(keys[q][2]) /\ ~Pending(Text(keys[q][2]))
      BY <2>3
    <3>3. QED
      BY <3>1, <3>2, Zenon
  <2>5. Frees(a, b)
    BY <2>4, Zenon DEF Frees
  <2>6. QED
    BY <2>5 DEF b
<1>3. CASE scan.what # "texts of user"
  <2>1. \A i, x : EraseAt(b, i, x) => \E j \in DOMAIN keys : Deletes(scan, keys[j], x)
    BY <1>1, CollectedAre
  <2> HIDE DEF b
  <2>2. ASSUME NEW i, NEW x, EraseAt(b, i, x)
        PROVE  x[1] \notin {"text", "supersededby", "currentround"} /\ Loose(a, x)
    <3>1. PICK k \in Found(scan) : Deletes(scan, k, x)
      BY <1>1, <2>1, <2>2, Zenon
    <3>2. /\ scan.what = "rounds" => x = Round(k[2]) \/ x = RoundIndex(db[k].text, k[2])
          /\ scan.what \notin {"fragments", "fragments of user", "ballots"}
          /\ scan.what # "rounds" => x = k \/ x[1] \in {"subscription", "subscriptionindex"}
      BY <1>3, <3>1, DeletesAre
    <3>3. CASE scan.what = "rounds"
      <4>1. CASE x = Round(k[2])
        <5>1. Loose(a, x)
          BY <3>1, <3>3, <4>1, RoundsFound
        <5>2. x[1] = "round"
          BY <4>1 DEF Round
        <5>3. QED
          BY <5>1, <5>2
      <4>2. CASE x = RoundIndex(db[k].text, k[2])
        <5>1. x[1] = "roundindex"
          BY <4>2 DEF RoundIndex
        <5>2. QED
          BY <5>1, LooseOther
      <4>3. QED
        BY <3>2, <3>3, <4>1, <4>2
    <3>4. CASE scan.what # "rounds"
      <4>1. x[1] \in {"vote", "uservote", "subscription", "subscriptionindex"}
        <5>1. k[1] \in {"vote", "uservote", "subscription", "subscriptionindex"}
          BY <1>3, <3>1, <3>2, <3>4, FoundKinds
        <5>2. QED
          BY <3>2, <3>4, <5>1
      <4>2. QED
        BY <4>1, LooseOther
    <3>5. QED
      BY <3>3, <3>4
  <2>3. Frees(a, b)
    BY <2>2, Zenon DEF Frees
  <2>4. QED
    BY <2>3 DEF b
<1>4. QED
  BY <1>2, <1>3

LEMMA ChoiceScansOK ==
  ASSUME NEW b, NEW scan, NEW keys, IsSeq(keys)
  PROVE  scan.what = "ballots" => ScansOK(b, ScansFor(scan, keys))
<1>0. HAVE scan.what = "ballots"
<1> DEFINE y == ScansFor(scan, keys)
           e(i) == Scan("choice", Append(scan.of, keys[i][3]))
<1>1. PICK m : m = Len(keys) /\ m \in Nat /\ DOMAIN keys = 1 .. m /\ (keys = <<>> => m = 0)
  BY SeqIs
<1>2. PICK n : n = IF keys = <<>> THEN 0 ELSE 1
  OBVIOUS
<1>3. y = [i \in 1 .. n * m |->
             << Scan("choice", Append(scan.of, keys[(i - 1) \div n + 1][3])) >>[((i - 1) % n) + 1]]
  <2>1. y = Each(keys, LAMBDA k : << Scan("choice", Append(scan.of, k[3])) >>)
    BY <1>0 DEF ScansFor
  <2> HIDE DEF y
  <2>2. QED
    BY <1>1, <1>2, <2>1 DEF Each
<1> HIDE DEF y
<1>4. y = [i \in 1 .. n * m |-> << e((i - 1) \div n + 1) >>[((i - 1) % n) + 1]]
  BY <1>3, Zenon
<1>5. \A q : ScanOK(b, e(q))
  <2>1. \A v : Scan("choice", v).what = "choice"
    BY ScanIs
  <2>2. \A x : x.what = "choice" => ScanOK(b, x)
    BY DEF ScanOK
  <2>3. QED
    BY <2>1, <2>2, Zenon
<1> HIDE DEF e
<1>6. n * m = m /\ (m # 0 => n = 1)
  BY <1>1, <1>2
<1>7. \A i \in 1 .. m : (i - 1) \div 1 + 1 = i /\ ((i - 1) % 1) + 1 = 1
  BY <1>1
<1>8. y = [i \in 1 .. m |-> e(i)]
  <2>1. \A i \in 1 .. m : << e((i - 1) \div n + 1) >>[((i - 1) % n) + 1] = e(i)
    <3>1. TAKE i \in 1 .. m
    <3>2. n = 1
      BY <1>1, <1>6, <3>1
    <3>3. << e(i) >>[1] = e(i)
      OBVIOUS
    <3>4. QED
      BY <1>7, <3>1, <3>2, <3>3
  <2>2. QED
    BY <1>4, <1>6, <2>1
<1>9. y \in Seq({e(i) : i \in 1 .. m})
  BY <1>1, <1>8
<1>10. IsSeq(y) /\ \A i \in DOMAIN y : ScanOK(b, y[i])
  BY <1>1, <1>5, <1>8, <1>9 DEF IsSeq
<1>11. QED
  BY <1>10 DEF ScansOK, y

\* The scans that follow will only find what may be deleted once b is done.
LEMMA ScansForOK ==
  ASSUME RoundsInv, WholeInv, NEW a, NEW b, NEW scan, ScanOK(a, scan), NEW keys \in SetToSeqs(Found(scan)),
         \A x : ScanOK(a, x) => ScanOK(b, x),
         \A i, k : EraseAt(Collected(scan, keys), i, k) => \E j : EraseAt(b, j, k)
  PROVE  ScansOK(b, ScansFor(scan, keys))
<1>1. IsSeq(keys) /\ \A q \in DOMAIN keys : keys[q] \in Found(scan)
  BY FoundIs
<1>2. CASE scan.what = "texts of user" /\ keys # <<>>
  <2>1. \A k : OpsFor(scan, k) = TextOps(k[2])
    BY <1>2 DEF OpsFor
  <2>2. \A q \in DOMAIN keys : \E i : EraseAt(Collected(scan, keys), i, Text(keys[q][2]))
    BY <1>1, <2>1, TextOpsEach
  <2>3. \A q \in DOMAIN keys : Id(keys[q][2])
    BY <1>1, <1>2, TextsFound
  <2>4. \A q \in DOMAIN keys : Doomed(b, keys[q][2])
    BY <2>2, <2>3, Zenon DEF Doomed
  <2>5. PICK x, y : /\ x = << Scan("rounds", {keys[i][2] : i \in DOMAIN keys}) >>
                    /\ y = Each(keys, LAMBDA k : << Scan("fragments", k[2]), Scan("choices", k[2]) >>)
    OBVIOUS
  <2>6. ScansFor(scan, keys) = x \o y
    BY <1>2, <2>5 DEF ScansFor
  <2>7. ScansOK(b, x)
    <3>1. PICK z : z = Scan("rounds", {keys[i][2] : i \in DOMAIN keys})
      OBVIOUS
    <3>2. z.what = "rounds" /\ z.of = {keys[i][2] : i \in DOMAIN keys}
      BY <3>1, ScanIs
    <3>3. \A t \in z.of : Doomed(b, t)
      BY <2>4, <3>2
    <3>4. ScanOK(b, z)
      BY <3>2, <3>3 DEF ScanOK
    <3>5. x = << z >>
      BY <2>5, <3>1
    <3>6. QED
      BY <3>4, <3>5, OneAt DEF ScansOK
  <2>8. ScansOK(b, y)
    <3>1. IsSeq(y) /\ \A i \in DOMAIN y : \E q \in DOMAIN keys :
            y[i] = Scan("fragments", keys[q][2]) \/ y[i] = Scan("choices", keys[q][2])
      BY <1>1, <2>5, TextScansAre
    <3>2. ASSUME NEW t, Doomed(b, t)
          PROVE  ScanOK(b, Scan("fragments", t)) /\ ScanOK(b, Scan("choices", t))
      <4>1. PICK v, w : v = Scan("fragments", t) /\ w = Scan("choices", t)
        OBVIOUS
      <4>2. v.what = "fragments" /\ v.of = t /\ w.what = "choices"
        BY <4>1, ScanIs
      <4>3. ScanOK(b, v) /\ ScanOK(b, w)
        BY <3>2, <4>2 DEF ScanOK
      <4>4. QED
        BY <4>1, <4>3
    <3>3. \A i \in DOMAIN y : ScanOK(b, y[i])
      BY <2>4, <3>1, <3>2, Zenon
    <3>4. QED
      BY <3>1, <3>3 DEF ScansOK
  <2>9. QED
    BY <2>6, <2>7, <2>8, ScansConcat
<1>3. CASE scan.what = "fragments"
  <2>1. PICK y : y = Each(keys, LAMBDA k : << Scan("votes", k) >>)
    OBVIOUS
  <2>2. ScansFor(scan, keys) = y
    BY <1>3, <2>1 DEF ScansFor
  <2>3. IsSeq(y) /\ \A i \in DOMAIN y : \E q \in DOMAIN keys : y[i] = Scan("votes", keys[q])
    BY <1>1, <2>1, VoteScansAre
  <2>4. \A q \in DOMAIN keys : ScanOK(b, Scan("votes", keys[q]))
    BY <1>1, <1>3, FragmentsFound
  <2>5. \A i \in DOMAIN y : ScanOK(b, y[i])
    BY <2>3, <2>4, Zenon
  <2>6. QED
    BY <2>2, <2>3, <2>5 DEF ScansOK
<1>4. CASE scan.what = "fragments of user"
  <2>1. PICK y : y = Each(keys, LAMBDA k : << Scan("ballots", FragmentIndex(db[k].text, db[k].slot, k[2])) >>)
    OBVIOUS
  <2>2. ScansFor(scan, keys) = y
    BY <1>4, <2>1 DEF ScansFor
  <2>3. IsSeq(y) /\ \A i \in DOMAIN y : \E q \in DOMAIN keys :
          y[i] = Scan("ballots", FragmentIndex(db[keys[q]].text, db[keys[q]].slot, keys[q][2]))
    BY <1>1, <2>1, BallotScansAre
  <2>4. \A q \in DOMAIN keys :
          ScanOK(b, Scan("ballots", FragmentIndex(db[keys[q]].text, db[keys[q]].slot, keys[q][2])))
    BY <1>1, <1>4, UserFragmentsFound
  <2>5. \A i \in DOMAIN y : ScanOK(b, y[i])
    BY <2>3, <2>4, Zenon
  <2>6. QED
    BY <2>2, <2>3, <2>5 DEF ScansOK
<1>5. CASE scan.what = "ballots"
  BY <1>1, <1>5, ChoiceScansOK
<1>6. CASE /\ ~(scan.what = "texts of user" /\ keys # <<>>)
           /\ scan.what \notin {"fragments", "fragments of user", "ballots"}
  <2>1. ScansFor(scan, keys) = <<>>
    BY <1>6 DEF ScansFor
  <2>2. QED
    BY <2>1, NoScans
<1>7. QED
  BY <1>2, <1>3, <1>4, <1>5, <1>6

-----------------------------------------------------------------------------
(* Deletions.                                                              *)

\* What one scan adds to a deletion.
LEMMA CollectGood ==
  ASSUME RoundsInv, WholeInv, NEW a, NEW scans, Erases(a), Safe(a), ScansOK(a, scans), scans # <<>>,
         NEW keys \in SetToSeqs(Found(Head(scans)))
  PROVE  LET b == a \o OpsBefore(Head(scans)) \o Collected(Head(scans), keys)
         IN  Erases(b) /\ Safe(b) /\ ScansOK(b, ScansFor(Head(scans), keys) \o Tail(scans))
<1>1. PICK scan, rest : scan = Head(scans) /\ rest = Tail(scans)
  OBVIOUS
<1>2. ScanOK(a, scan) /\ ScansOK(a, rest) /\ keys \in SetToSeqs(Found(scan))
  BY <1>1, ScansTail
<1>3. PICK m, n : m = OpsBefore(scan) /\ n = Collected(scan, keys)
  OBVIOUS
<1>4. IsSeq(keys)
  BY <1>2, FoundIs
<1>5. Erases(m) /\ Erases(n)
  BY <1>3, <1>4, OpsBeforeErase, CollectedAre
<1>6. IsSeq(a) /\ IsSeq(m) /\ IsSeq(n)
  BY <1>5 DEF Erases
<1>7. Frees(a, m)
  BY <1>2, <1>3, BeforeFrees
<1>8. PICK c : c = a \o m
  OBVIOUS
<1>9. Safe(c) /\ ScanOK(c, scan) /\ ScansOK(c, rest) /\ \A x : ScanOK(a, x) => ScanOK(c, x)
  BY <1>2, <1>6, <1>7, <1>8, SafeConcat, ScansStay
<1>10. Erases(c) /\ IsSeq(c)
  BY <1>5, <1>6, <1>8, ConcatIs
<1>11. Frees(c, n)
  BY <1>2, <1>3, <1>9, CollectedFrees
<1>12. PICK b : b = c \o n
  OBVIOUS
<1>13. Safe(b) /\ ScansOK(b, rest) /\ \A x : ScanOK(c, x) => ScanOK(b, x)
  BY <1>6, <1>9, <1>10, <1>11, <1>12, SafeConcat, ScansStay
<1>14. Erases(b)
  BY <1>5, <1>6, <1>10, <1>12, ConcatIs
<1>15. \A i, k : EraseAt(n, i, k) => \E j : EraseAt(b, j, k)
  <2>1. \A i, k : EraseAt(n, i, k) => EraseAt(b, i + Len(c), k)
    BY <1>6, <1>10, <1>12, EraseConcat
  <2>2. QED
    BY <2>1, Zenon
<1>16. ScansOK(b, ScansFor(scan, keys))
  BY <1>2, <1>3, <1>9, <1>13, <1>15, ScansForOK
<1>17. ScansOK(b, ScansFor(scan, keys) \o rest)
  BY <1>13, <1>16, ScansConcat
<1>18. QED
  BY <1>1, <1>3, <1>8, <1>12, <1>13, <1>14, <1>17

LEMMA CollectWhole ==
  ASSUME RoundsInv, WholeInv, StepOK, NEW p \in Proc, Collect(p)
  PROVE  WholeInv'
<1> DEFINE c == call[p]
           scan == Head(c.scans)
<1>1. /\ c.pc = "collect" /\ db' = db /\ nextID' = nextID /\ DeleteCall(c) /\ ops[p] = <<>>
      /\ interrupted' = interrupted
  BY SameCall DEF Collect, At, CallOK, history
<1>2. PICK keys \in SetToSeqs(Found(scan)) :
        LET batch == c.batch \o OpsBefore(scan) \o Each(keys, LAMBDA k : OpsFor(scan, k))
            scans == ScansFor(scan, keys) \o Tail(c.scans)
            after == IF c.target \in User THEN "next" ELSE "deleted"
        IN  IF scans = <<>>
              THEN /\ ops' = [ops EXCEPT ![p] = batch]
                   /\ Becomes(p, [c EXCEPT !.pc = after, !.batch = <<>>, !.scans = <<>>])
              ELSE /\ Becomes(p, [c EXCEPT !.batch = batch, !.scans = scans])
                   /\ UNCHANGED ops
  BY Zenon DEF Collect
<1> DEFINE each == Each(keys, LAMBDA k : OpsFor(scan, k))
           batch == c.batch \o OpsBefore(scan) \o each
           scans == ScansFor(scan, keys) \o Tail(c.scans)
           after == IF c.target \in User THEN "next" ELSE "deleted"
           last == [c EXCEPT !.pc = after, !.batch = <<>>, !.scans = <<>>]
           more == [c EXCEPT !.batch = batch, !.scans = scans]
<1>3. each = Collected(scan, keys)
  BY Zenon DEF Collected
<1> HIDE DEF each
<1>4. \/ call' = [call EXCEPT ![p] = last] /\ ops' = [ops EXCEPT ![p] = batch]
      \/ call' = [call EXCEPT ![p] = more] /\ ops' = ops /\ scans # <<>>
  BY <1>2, Zenon DEF Becomes, each
<1>5. /\ DeletesOK(c) /\ Erases(c.batch)
      /\ Safe(c.batch) /\ ScansOK(c.batch, c.scans) /\ c.scans # <<>>
      /\ IsSeq(c.then) /\ \A i \in DOMAIN c.then : Easy(c.then[i])
  <2>1. DeletesOK(c) /\ Erases(c.batch)
    BY <1>1 DEF WholeInv, BatchesOK, DeleteCall
  <2>2. QED
    BY <1>1, <2>1 DEF DeletesOK
<1>6. Erases(batch) /\ Safe(batch) /\ ScansOK(batch, scans)
  BY <1>3, <1>5, CollectGood
<1>7. /\ last.pc \in {"next", "deleted"} /\ last.batch = <<>> /\ last.then = c.then
      /\ more.pc = "collect" /\ more.batch = batch /\ more.scans = scans /\ more.then = c.then
  <2> HIDE DEF batch, scans
  <2>1. QED
    BY <1>1 DEF DeleteCall
<1>8. PICK b, d, e, x, then : b = batch /\ d = last /\ e = more /\ x = scans /\ then = c.then
  OBVIOUS
<1> HIDE DEF batch, scans, last, more
<1>9. IsSeq(then) /\ \A i \in DOMAIN then : Easy(then[i])
  BY <1>5, <1>8
<1>10. Erases(b) /\ Safe(b) /\ ScansOK(b, x)
  BY <1>6, <1>8
<1>11. CASE call' = [call EXCEPT ![p] = last] /\ ops' = [ops EXCEPT ![p] = batch]
  <2>1. call' = [call EXCEPT ![p] = d] /\ ops' = [ops EXCEPT ![p] = b]
    BY <1>8, <1>11
  <2>2. d.pc \in {"next", "deleted"} /\ d.batch = <<>> /\ d.then = then
    BY <1>7, <1>8
  <2>3. GoodCall(d)
    BY <1>9, <2>2 DEF GoodCall, CallSlots, CallRests, DeletesOK
  <2>4. Turn(p, d, b)
    BY <1>1, <2>1 DEF Turn, Local
  <2>5. GoodBatch(b) /\ d.pc # "idle"
    BY <1>10, <2>2, ErasesGood
  <2>6. QED
    BY <2>3, <2>4, <2>5, TurnInv
<1>12. CASE call' = [call EXCEPT ![p] = more] /\ ops' = ops /\ scans # <<>>
  <2>1. call' = [call EXCEPT ![p] = e] /\ x # <<>>
    BY <1>8, <1>12
  <2>2. e.pc = "collect" /\ e.batch = b /\ e.scans = x /\ e.then = then
    BY <1>7, <1>8
  <2>3. GoodCall(e)
    BY <1>9, <1>10, <2>1, <2>2 DEF GoodCall, CallSlots, CallRests, DeletesOK
  <2>4. QED
    BY <1>1, <1>12, <2>1, <2>3, SilentTurn
<1>13. QED
  BY <1>4, <1>11, <1>12

\* A deletion begins.
LEMMA StartDeleteGood ==
  ASSUME RoundsInv, WholeInv, StepOK, NEW p \in Proc, NEW u, NEW t, NEW batch, NEW scans, NEW then,
         StartDelete(p, u, t, batch, scans, then), db' = db, ops' = ops, interrupted' = interrupted,
         Safe(batch), ScansOK(batch, scans), scans # <<>>, IsSeq(then), \A i \in DOMAIN then : Easy(then[i])
  PROVE  WholeInv'
<1> DEFINE c == [pc |-> "collect", user |-> u, target |-> t, batch |-> batch, scans |-> scans, then |-> then]
<1>1. call' = [call EXCEPT ![p] = c] /\ ops[p] = <<>>
  BY IdleHasNoBatch DEF StartDelete, Becomes, Arrives
<1>2. c.pc = "collect" /\ c.batch = batch /\ c.scans = scans /\ c.then = then
  OBVIOUS
<1> HIDE DEF c
<1>3. GoodCall(c)
  BY <1>2 DEF GoodCall, CallSlots, CallRests, DeletesOK
<1>4. QED
  BY <1>1, <1>3, SilentTurn

LEMMA EasyScans ==
  ASSUME NEW b, NEW scans, Easy(scans)
  PROVE  ScansOK(b, scans) /\ scans # <<>>
BY DEF Easy, ScansOK, ScanOK

LEMMA TextOpsSafe ==
  ASSUME RoundsInv, NEW t, Id(t), ~Pending(Text(t))
  PROVE  IsSeq(TextOps(t)) /\ Safe(TextOps(t)) /\ EraseAt(TextOps(t), 1, Text(t))
<1>1. PICK a, b, c, d : a = Text(t) /\ b = CurrentRound(t) /\ c = RoundCount(t) /\ d = SupersededBy(t)
  OBVIOUS
<1>2. PICK v, w, x, y : v = Delete(a) /\ w = Delete(b) /\ x = Delete(c) /\ y = Delete(d)
  OBVIOUS
<1>3. /\ v.tombstone /\ v.key = a /\ w.key = b /\ x.key = c /\ y.key = d
  BY <1>2, OpIs
<1>4. PICK m : m = << v, w, x, y >>
  OBVIOUS
<1>5. m = TextOps(t)
  BY <1>1, <1>2, <1>4 DEF TextOps
<1>6. /\ IsSeq(m) /\ Does(m, 1, v)
      /\ \A i \in DOMAIN m : \/ (i = 1 /\ m[i] = v) \/ (i = 2 /\ m[i] = w) \/ (i = 3 /\ m[i] = x)
                             \/ (i = 4 /\ m[i] = y)
  BY <1>4, FourAt
<1>7. EraseAt(m, 1, a)
  BY <1>3, <1>6 DEF EraseAt, Does
<1>8. \A i, k : EraseAt(m, i, k) => k = a \/ (k \in {b, c, d} /\ 1 < i)
  BY <1>3, <1>6 DEF EraseAt
<1>9. Frees(<<>>, m)
  <2>1. ASSUME NEW i, NEW k, EraseAt(m, i, k)
        PROVE  \/ \E u : k = Text(u) /\ Id(u) /\ ~Pending(Text(u))
               \/ \E u, j : /\ k \in {CurrentRound(u), RoundCount(u), SupersededBy(u)} /\ Id(u)
                            /\ j < i /\ EraseAt(m, j, Text(u))
    <3>1. CASE k = a
      BY <1>1, <3>1
    <3>2. CASE k \in {b, c, d} /\ 1 < i
      <4>1. /\ k \in {CurrentRound(t), RoundCount(t), SupersededBy(t)} /\ Id(t)
            /\ 1 < i /\ EraseAt(m, 1, Text(t))
        BY <1>1, <1>7, <3>2
      <4>2. QED
        BY <4>1, Zenon
    <3>3. QED
      BY <1>8, <2>1, <3>1, <3>2
  <2>2. QED
    BY <2>1, Zenon DEF Frees
<1>10. <<>> \o m = m
  <2>1. PICK S : m \in Seq(S)
    BY <1>6 DEF IsSeq
  <2>2. QED
    BY <2>1
<1>11. Safe(<<>> \o m)
  BY <1>6, <1>9, EmptyIsSeq, EmptyIsSafe, SafeConcat
<1>12. Safe(m)
  BY <1>10, <1>11
<1>13. QED
  BY <1>1, <1>5, <1>6, <1>7, <1>12

LEMMA TextDeletion ==
  ASSUME RoundsInv, NEW t, NEW tags, IsSeq(tags), Id(t), ~Pending(Text(t))
  PROVE  LET b == TextOps(t) \o [i \in DOMAIN tags |-> Delete(TagIndex(tags[i], t))]
         IN  Safe(b) /\ \E i : EraseAt(b, i, Text(t))
<1>1. PICK a, m : a = TextOps(t) /\ m = [i \in DOMAIN tags |-> Delete(TagIndex(tags[i], t))]
  OBVIOUS
<1>2. IsSeq(a) /\ Safe(a) /\ EraseAt(a, 1, Text(t))
  BY <1>1, TextOpsSafe
<1>3. IsSeq(m)
  <2>1. m \in Seq({Delete(TagIndex(tags[i], t)) : i \in DOMAIN tags})
    BY <1>1, SeqIs
  <2>2. QED
    BY <2>1 DEF IsSeq
<1>4. Frees(a, m)
  <2>1. ASSUME NEW i, NEW k, EraseAt(m, i, k)
        PROVE  k[1] = "tagindex"
    <3>1. i \in DOMAIN tags /\ m[i] = Delete(TagIndex(tags[i], t)) /\ m[i].key = k
      BY <1>1, <2>1 DEF EraseAt
    <3>2. k = TagIndex(tags[i], t)
      BY <3>1, OpIs
    <3>3. QED
      BY <3>2, KeyIs
  <2>2. \A i, k : EraseAt(m, i, k) => k[1] \notin {"text", "supersededby", "currentround"} /\ Loose(a, k)
    BY <2>1, LooseOther
  <2>3. QED
    BY <2>2, Zenon DEF Frees
<1>5. Safe(a \o m) /\ EraseAt(a \o m, 1, Text(t))
  BY <1>2, <1>3, <1>4, SafeConcat, EraseConcat
<1>6. QED
  BY <1>1, <1>5

LEMMA EasyCascade ==
  ASSUME NEW u, u # Seed
  PROVE  LET c == Cascade(u)
         IN  /\ ScansOK(<<>>, c[1]) /\ c[1] # <<>>
             /\ IsSeq(Tail(c)) /\ \A i \in DOMAIN Tail(c) : Easy(Tail(c)[i])
<1>1. PICK w, x, y, y2, z :
        /\ w = Scan("texts of user", u) /\ x = Scan("fragments of user", u) /\ y = Scan("votes of user", u)
        /\ y2 = Scan("choices of user", u) /\ z = Scan("subscriptions of user", u)
  OBVIOUS
<1>2. /\ w.what = "texts of user" /\ x.what = "fragments of user" /\ x.of = u /\ y.what = "votes of user"
      /\ y2.what = "choices of user" /\ z.what = "subscriptions of user"
  BY <1>1, ScanIs
<1>3. Cascade(u) = << << w >>, << x >>, << y, y2 >>, << z >> >>
  BY <1>1 DEF Cascade
<1>4. Easy(<< w >>) /\ Easy(<< x >>) /\ Easy(<< z >>)
  <2>1. ASSUME NEW v, v \in {w, x, z}
        PROVE  Easy(<< v >>)
    <3>1. PICK b : b = << v >>
      OBVIOUS
    <3>2. IsSeq(b) /\ b # <<>> /\ \A i \in DOMAIN b : b[i] = v
      BY <3>1, OneAt
    <3>3. Easy(b)
      BY <1>2, <2>1, <3>2 DEF Easy
    <3>4. QED
      BY <3>1, <3>3
  <2>2. QED
    BY <2>1
<1>5. Easy(<< y, y2 >>)
  <2>1. PICK b : b = << y, y2 >>
    OBVIOUS
  <2>2. IsSeq(b) /\ b # <<>> /\ \A i \in DOMAIN b : b[i] = y \/ b[i] = y2
    BY <2>1, TwoAt
  <2>3. Easy(b)
    BY <1>2, <2>2 DEF Easy
  <2>4. QED
    BY <2>1, <2>3
<1>6. PICK a, b, c, d : a = << w >> /\ b = << x >> /\ c = << y, y2 >> /\ d = << z >>
  OBVIOUS
<1>7. Easy(a) /\ Easy(b) /\ Easy(c) /\ Easy(d) /\ Cascade(u) = << a, b, c, d >>
  BY <1>3, <1>4, <1>5, <1>6
<1>8. << a, b, c, d >>[1] = a /\ Tail(<< a, b, c, d >>) = << b, c, d >>
  OBVIOUS
<1>9. IsSeq(<< b, c, d >>) /\ \A i \in DOMAIN << b, c, d >> : Easy(<< b, c, d >>[i])
  <2>1. PICK l : l = << b, c, d >>
    OBVIOUS
  <2>2. IsSeq(l) /\ \A i \in DOMAIN l : l[i] = b \/ l[i] = c \/ l[i] = d
    BY <2>1, ThreeAt
  <2>3. QED
    BY <1>7, <2>1, <2>2
<1>10. ScansOK(<<>>, a) /\ a # <<>>
  BY <1>7, EasyScans
<1>11. QED
  BY <1>7, <1>8, <1>9, <1>10

LEMMA NextCascadeWhole ==
  ASSUME RoundsInv, WholeInv, StepOK, NEW p \in Proc, NextCascade(p)
  PROVE  WholeInv'
<1>1. PICK c : c = call[p]
  OBVIOUS
<1>2. /\ c.pc = "next" /\ db' = db /\ ops' = ops /\ ops[p] = <<>> /\ DeleteCall(c)
      /\ interrupted' = interrupted
  BY <1>1, SameCall DEF NextCascade, At, CallOK, history
<1>3. DeletesOK(c)
  BY <1>1 DEF WholeInv, BatchesOK
<1>4. c.batch = <<>> /\ IsSeq(c.then) /\ \A i \in DOMAIN c.then : Easy(c.then[i])
  BY <1>2, <1>3 DEF DeletesOK
<1> DEFINE d == [c EXCEPT !.pc = "collect", !.scans = Head(c.then), !.then = Tail(c.then)]
<1>5. call' = [call EXCEPT ![p] = Idle] \/ (call' = [call EXCEPT ![p] = d] /\ c.then # <<>>)
  BY <1>1 DEF NextCascade, Becomes
<1>6. CASE call' = [call EXCEPT ![p] = Idle]
  BY <1>2, <1>6, EndsWhole
<1>7. CASE call' = [call EXCEPT ![p] = d] /\ c.then # <<>>
  <2>1. d.pc = "collect" /\ d.batch = <<>> /\ d.scans = Head(c.then) /\ d.then = Tail(c.then)
    BY <1>2, <1>4 DEF DeleteCall
  <2>2. PICK then : then = c.then
    OBVIOUS
  <2> HIDE DEF d
  <2>3. /\ IsSeq(Tail(then)) /\ Head(then) = then[1] /\ 1 \in DOMAIN then
        /\ \A i \in DOMAIN Tail(then) : i + 1 \in DOMAIN then /\ Tail(then)[i] = then[i + 1]
    <3>1. PICK S : then \in Seq(S)
      BY <1>4, <2>2 DEF IsSeq
    <3>2. /\ Tail(then) \in Seq(S) /\ Head(then) = then[1] /\ 1 \in DOMAIN then
          /\ \A i \in DOMAIN Tail(then) : i + 1 \in DOMAIN then /\ Tail(then)[i] = then[i + 1]
      BY <1>7, <2>2, <3>1
    <3>3. QED
      BY <3>2 DEF IsSeq
  <2>4. Easy(Head(then)) /\ \A i \in DOMAIN Tail(then) : Easy(Tail(then)[i])
    BY <1>4, <2>2, <2>3
  <2>5. ScansOK(<<>>, d.scans) /\ d.scans # <<>> /\ Safe(<<>>)
    BY <2>1, <2>2, <2>4, EasyScans, EmptyIsSafe
  <2>6. GoodCall(d)
    BY <2>1, <2>2, <2>3, <2>4, <2>5 DEF GoodCall, CallSlots, CallRests, DeletesOK
  <2>7. QED
    BY <1>2, <1>7, <2>6, SilentTurn
<1>8. QED
  BY <1>5, <1>6, <1>7

LEMMA DeleteTextWhole ==
  ASSUME RoundsInv, WholeInv, StepOK, NEW p \in Proc, NEW u, NEW t \in Texts, DeleteText(p, u, t)
  PROVE  WholeInv'
<1>1. PICK tags : tags = SetToSeq(db[Text(t)].tags)
  OBVIOUS
<1>2. PICK batch : batch = TextOps(t) \o [i \in DOMAIN tags |-> Delete(TagIndex(tags[i], t))]
  OBVIOUS
<1>3. PICK v, w, x, y :
        /\ v = Scan("rounds", {t}) /\ w = Scan("fragments", t) /\ x = Scan("choices", t)
        /\ y = Scan("subscriptions", t)
  OBVIOUS
<1>4. PICK scans : scans = << v, w, x, y >>
  OBVIOUS
<1>5. /\ StartDelete(p, u, t, batch, scans, <<>>)
      /\ db' = db /\ ops' = ops /\ interrupted' = interrupted
  BY <1>1, <1>2, <1>3, <1>4, Zenon DEF DeleteText
<1>6. Has(Text(t)) /\ IsText(db[Text(t)])
  BY TextsAreThere, TextIs
<1>7. IsSeq(tags)
  BY <1>1, <1>6, SetToSeqIs DEF IsText, IsSeq
<1>8. Id(t) /\ ~Pending(Text(t))
  <2>1. Id(t)
    BY <1>6, LiveIs DEF Live, Coming
  <2>2. ~Pending(Text(t))
    BY <1>6, Zenon DEF WholeInv, TextOnce
  <2>3. QED
    BY <2>1, <2>2
<1>9. Safe(batch) /\ Doomed(batch, t)
  <2>1. Safe(batch) /\ \E i : EraseAt(batch, i, Text(t))
    BY <1>2, <1>7, <1>8, TextDeletion
  <2>2. QED
    BY <1>8, <2>1, Zenon DEF Doomed
<1>10. /\ v.what = "rounds" /\ v.of = {t} /\ w.what = "fragments" /\ w.of = t
       /\ x.what = "choices" /\ y.what = "subscriptions"
  BY <1>3, ScanIs
<1>11. ScanOK(batch, v) /\ ScanOK(batch, w) /\ ScanOK(batch, x) /\ ScanOK(batch, y)
  BY <1>9, <1>10 DEF ScanOK
<1>12. ScansOK(batch, scans) /\ scans # <<>>
  BY <1>4, <1>11, FourAt DEF ScansOK
<1>13. IsSeq(<<>>) /\ \A i \in DOMAIN <<>> : Easy(<<>>[i])
  BY EmptyIsSeq
<1>14. QED
  BY <1>5, <1>9, <1>12, <1>13, StartDeleteGood

LEMMA DeleteUserWhole ==
  ASSUME RoundsInv, WholeInv, StepOK, NEW p \in Proc, NEW u, NEW victim \in User, DeleteUser(p, u, victim)
  PROVE  WholeInv'
<1>1. PICK scans, then : scans = Cascade(victim)[1] /\ then = Tail(Cascade(victim))
  OBVIOUS
<1>2. /\ StartDelete(p, u, victim, <<>>, scans, then)
      /\ db' = db /\ ops' = ops /\ interrupted' = interrupted
  BY <1>1 DEF DeleteUser
<1>3. victim # Seed
  BY SeedAssumption
<1>4. /\ ScansOK(<<>>, scans) /\ scans # <<>>
      /\ IsSeq(then) /\ \A i \in DOMAIN then : Easy(then[i])
  BY <1>1, <1>3, EasyCascade
<1>5. QED
  BY <1>2, <1>4, EmptyIsSafe, StartDeleteGood

-----------------------------------------------------------------------------
(* The invariant.                                                          *)

LEMMA InitWhole == Init => WholeInv
<1> SUFFICES ASSUME Init
             PROVE  WholeInv
  OBVIOUS
<1>1. DOMAIN db = {} /\ call = [p \in Proc |-> Idle] /\ ops = [p \in Proc |-> <<>>]
  BY DEF Init
<1>2. \A p \in Proc : call[p] = Idle /\ ops[p] = <<>>
  BY <1>1
<1>3. \A k, v : ~Written(k, v) /\ ~Stored(k, v)
  BY <1>1, <1>2, EmptyIsSeq DEF Written, Stored
<1>4. \A i, k, v : ~PutsAt(<<>>, i, k) /\ ~PutAt(<<>>, i, k, v) /\ ~EraseAt(<<>>, i, k)
  BY DEF PutsAt, PutAt, EraseAt
<1>5. \A k : ~Has(k) /\ ~Pending(k)
  BY <1>1, <1>2, <1>4 DEF Has, Pending
<1>6. \A r, t, s : ~HasSlots(r, t, s)
  <2>1. \A r, t, s : ~CallSlots(Idle, r, t, s)
    BY DEF CallSlots, Idle
  <2>2. QED
    BY <1>2, <1>3, <2>1, Zenon DEF HasSlots
<1>7. \A t, k : ~Needed(t, k)
  BY <1>3, <1>6, Zenon DEF Needed, Marks, Slot
<1>8. KeysOK /\ NeedsOK /\ StoreRests
  BY <1>3, <1>7, Zenon DEF KeysOK, NeedsOK, StoreRests
<1>9. TextOnce
  BY <1>2, <1>4, <1>5 DEF TextOnce
<1>10. ValuesOK
  BY <1>3, Zenon DEF ValuesOK, SeedsOK, SeedIndexOK, FragmentsOK, RoundIndexOK, SupersededOK
<1>11. HeadsOK
  BY <1>5, Zenon DEF HeadsOK, Live, Coming
<1>12. BatchesOK
  <2>1. BatchRests(<<>>)
    BY <1>4, Zenon DEF BatchRests
  <2>2. QED
    BY <1>2, <2>1, EmptyIsSafe, IdleIsFine, Zenon DEF BatchesOK
<1>13. QED
  BY <1>8, <1>9, <1>10, <1>11, <1>12 DEF WholeInv

LEMMA StepWhole == RoundsInv /\ WholeInv /\ [Next]_vars => WholeInv'
<1> SUFFICES ASSUME RoundsInv, WholeInv, [Next]_vars
             PROVE  WholeInv'
  OBVIOUS
<1>0. StepOK
  BY StepInv
<1>1. CASE Calls
  <2>1. PICK p \in Proc, u \in User :
          \/ \E tags \in TagSets : CreateText(p, u, tags)
          \/ \E f \in {k[2] : k \in KeysOf("fragment")} : CastVote(p, u, f)
          \/ \E t \in Texts :
               \/ \E range \in Proposals : ProposeEdit(p, u, t, range)
               \/ ScheduleRoundClose(p, u, t)
               \/ CloseRound(p, u, t)
               \/ Subscribe(p, u, t)
               \/ DeleteText(p, u, t)
          \/ \E t \in Texts \cup {k[2] : k \in KeysOf("subscription")} : Unsubscribe(p, u, t)
          \/ \E victim \in User : DeleteUser(p, u, victim)
    BY <1>1, Zenon DEF Calls
  <2>2. ASSUME NEW tags \in TagSets, CreateText(p, u, tags) PROVE WholeInv'
    BY <1>0, <2>2, CreateTextWhole
  <2>3. ASSUME NEW t, NEW f, NEW range,
               \/ CastVote(p, u, f) \/ ProposeEdit(p, u, t, range) \/ ScheduleRoundClose(p, u, t)
               \/ CloseRound(p, u, t)
        PROVE  WholeInv'
    BY <1>0, <2>3, StartWhole
  <2>4. ASSUME NEW t, Subscribe(p, u, t) \/ Unsubscribe(p, u, t) PROVE WholeInv'
    BY <1>0, <2>4, SubscribeWhole
  <2>5. ASSUME NEW t \in Texts, DeleteText(p, u, t) PROVE WholeInv'
    BY <1>0, <2>5, DeleteTextWhole
  <2>6. ASSUME NEW victim \in User, DeleteUser(p, u, victim) PROVE WholeInv'
    BY <1>0, <2>6, DeleteUserWhole
  <2>7. QED
    BY <2>1, <2>2, <2>3, <2>4, <2>5, <2>6, Zenon
<1>2. CASE Steps
  <2>1. PICK p \in Proc :
          \/ ApplyOp(p) \/ Fails(p) \/ ReadPointer(p) \/ CheckSuperseded(p) \/ OpenRound(p)
          \/ ResolveCurrent(p) \/ ResolveOpened(p) \/ AddFirstFragment(p) \/ ReadChoice(p)
          \/ Schedule(p) \/ (\E t \in due : CloseDue(p, t)) \/ RoundGone(p) \/ ReadRound(p)
          \/ ReadText(p) \/ Tally(p) \/ Fork(p) \/ Collect(p) \/ NextCascade(p)
    BY <1>2, Zenon DEF Steps
  <2>2. ASSUME NEW t, CloseDue(p, t) PROVE WholeInv'
    BY <1>0, <2>2, StartWhole
  <2>3. CASE ApplyOp(p) \/ Fails(p)
    BY <1>0, <2>3, ApplyInv, FailsWhole
  <2>4. CASE ReadPointer(p) \/ CheckSuperseded(p) \/ OpenRound(p)
    BY <1>0, <2>4, ReadPointerWhole, CheckSupersededWhole, OpenRoundWhole
  <2>5. CASE ResolveCurrent(p) \/ ResolveOpened(p) \/ AddFirstFragment(p) \/ ReadChoice(p) \/ Schedule(p)
    BY <1>0, <2>5, ResolveCurrentWhole, ResolveOpenedWhole, AddFirstFragmentWhole, ReadChoiceWhole, ScheduleWhole
  <2>6. CASE RoundGone(p) \/ ReadRound(p) \/ ReadText(p) \/ Tally(p) \/ Fork(p)
    BY <1>0, <2>6, RoundGoneWhole, ReadRoundWhole, ReadTextWhole, TallyWhole, ForkWhole
  <2>7. CASE Collect(p) \/ NextCascade(p)
    BY <1>0, <2>7, CollectWhole, NextCascadeWhole
  <2>8. QED
    BY <2>1, <2>2, <2>3, <2>4, <2>5, <2>6, <2>7, Zenon
<1>3. CASE Tick
  BY <1>3, UnchangedWhole DEF Tick, history
<1>4. CASE UNCHANGED vars
  BY <1>4, UnchangedWhole DEF vars, history
<1>5. QED
  BY <1>1, <1>2, <1>3, <1>4 DEF Next

LEMMA WholeKeepsSeeds == RoundsInv /\ WholeInv => SeedKept
<1> SUFFICES ASSUME RoundsInv, WholeInv, NEW k \in KeysOf("round"), Has(Text(db[k].text)),
                    NEW i \in DOMAIN db[k].slots
             PROVE  \E f \in Fragments(db[k].text, db[k].slots[i].id) :
                      /\ Has(Fragment(f))
                      /\ db[Fragment(f)].author = Seed
                      /\ db[Fragment(f)].content =
                           SubSeq(db[Text(db[k].text)].content, db[k].slots[i].start + 1, db[k].slots[i].end)
  BY DEF SeedKept
<1>1. PICK t, slot, v, x : t = db[k].text /\ slot = db[k].slots[i] /\ v = db[k] /\ x = db[Text(t)].content
  OBVIOUS
<1>2. PICK f, y : f = slot.id + 1 /\ y = FragmentIndex(t, slot.id, f)
  OBVIOUS
<1>3. k[1] = "round" /\ Has(k)
  BY DEF KeysOf, Has
<1>4. Stored(k, v) /\ Written(k, v)
  BY <1>1, <1>3, Zenon DEF Stored, Written, Has
<1>5. PICK r : k = Round(r)
  BY <1>3, <1>4, Zenon DEF RoundsInv, ShapesOK, RecordsOK, RecordOK
<1>6. Live(t)
  BY <1>1 DEF Live, Coming
<1>7. Rests(t, k, v, Fragment(f)) /\ Rests(t, k, v, y)
  <2>1. Fragment(f) \in SeedKeys(t, slot) /\ y \in SeedKeys(t, slot)
    BY <1>2 DEF SeedKeys
  <2>2. v.text = t /\ i \in DOMAIN v.slots /\ v.slots[i] = slot
    BY <1>1
  <2>3. \A z : z \in SeedKeys(t, slot) => Rests(t, k, v, z)
    BY <1>5, <2>2, Zenon DEF Rests
  <2>4. QED
    BY <2>1, <2>3
<1>8. Has(Fragment(f)) /\ Has(y)
  BY <1>4, <1>6, <1>7, Zenon DEF WholeInv, StoreRests
<1>9. f \in Fragments(t, slot.id)
  <2>1. y \in DOMAIN db /\ y[1] = "fragmentindex" /\ y[2] = t /\ y[3] = slot.id /\ y[4] = f
    BY <1>2, <1>8, KeyIs DEF Has
  <2>2. QED
    BY <2>1 DEF Fragments, KeysOf
<1>10. Slot(t, slot)
  <2>1. HasSlots(r, t, v.slots)
    BY <1>1, <1>4, <1>5, Zenon DEF HasSlots
  <2>2. i \in DOMAIN v.slots /\ slot = v.slots[i]
    BY <1>1
  <2>3. QED
    BY <2>1, <2>2, Zenon DEF Slot
<1>11. Written(Fragment(f), db[Fragment(f)])
  BY <1>8, Zenon DEF Written, Stored, Has
<1>12. SeedOK(t, slot, db[Fragment(f)])
  <2>1. Written(Fragment(slot.id + 1), db[Fragment(f)])
    BY <1>2, <1>11
  <2>2. QED
    BY <1>10, <2>1, Zenon DEF WholeInv, ValuesOK, SeedsOK
<1>13. HasContent(t, x)
  BY <1>1, TextIs
<1>14. db[Fragment(f)].author = Seed /\ db[Fragment(f)].content = SubSeq(x, slot.start + 1, slot.end)
  BY <1>12, <1>13 DEF SeedOK, SeedContent
<1>15. QED
  BY <1>1, <1>8, <1>9, <1>14

LEMMA PointersAre ==
  ASSUME RoundsInv, WholeInv, NEW t, Live(t)
  PROVE  /\ Has(CurrentRound(t)) => LET r == db[CurrentRound(t)] IN Has(Round(r)) /\ db[Round(r)].text = t
         /\ \A r : Has(RoundIndex(t, r)) => Has(Round(r)) /\ db[Round(r)].text = t
<1>1. ASSUME NEW r, Has(Round(r))
      PROVE  Owner(r, db[Round(r)].text)
  <2>1. Written(Round(r), db[Round(r)])
    BY <1>1, Zenon DEF Written, Stored, Has
  <2>2. QED
    BY <2>1, Zenon DEF Owner, HasSlots
<1>2. ASSUME Has(CurrentRound(t))
      PROVE  LET r == db[CurrentRound(t)] IN Has(Round(r)) /\ db[Round(r)].text = t
  <2>1. PICK r : r = db[CurrentRound(t)]
    OBVIOUS
  <2>2. Stored(CurrentRound(t), r) /\ Written(CurrentRound(t), r)
    BY <1>2, <2>1, Zenon DEF Stored, Written, Has
  <2>3. Rests(t, CurrentRound(t), r, Round(r))
    BY DEF Rests
  <2>4. Has(Round(r))
    BY <2>2, <2>3, Zenon DEF WholeInv, StoreRests
  <2>5. Owner(r, t) /\ Owner(r, db[Round(r)].text)
    BY <1>1, <2>2, <2>4, Zenon DEF Owner, Points
  <2>6. db[Round(r)].text = t
    BY <2>5, Zenon DEF RoundsInv, OwnersOK
  <2>7. QED
    BY <2>1, <2>4, <2>6
<1>3. ASSUME NEW r, Has(RoundIndex(t, r))
      PROVE  Has(Round(r)) /\ db[Round(r)].text = t
  <2>1. PICK v : Stored(RoundIndex(t, r), v) /\ Written(RoundIndex(t, r), v)
    BY <1>3, Zenon DEF Stored, Written, Has
  <2>2. Rests(t, RoundIndex(t, r), v, Round(r))
    BY Zenon DEF Rests
  <2>3. Has(Round(r))
    BY <2>1, <2>2, Zenon DEF WholeInv, StoreRests
  <2>4. QED
    BY <1>1, <2>1, <2>3, Zenon DEF WholeInv, ValuesOK, RoundIndexOK
<1>4. QED
  BY <1>2, <1>3

LEMMA WholeResolves == RoundsInv /\ WholeInv => PointersResolve
<1> SUFFICES ASSUME RoundsInv, WholeInv
             PROVE  PointersResolve
  OBVIOUS
<1>1. ASSUME NEW k, Has(k)
      PROVE  Written(k, db[k]) /\ Shaped(k)
  <2>1. Written(k, db[k])
    BY <1>1, Zenon DEF Written, Stored, Has
  <2>2. QED
    BY <2>1, Zenon DEF WholeInv, KeysOK
<1>2. ASSUME NEW k \in KeysOf("currentround"), Has(Text(k[2]))
      PROVE  Has(Round(db[k])) /\ db[Round(db[k])].text = k[2]
  <2>1. k[1] = "currentround" /\ Has(k)
    BY DEF KeysOf, Has
  <2>2. k = CurrentRound(k[2])
    BY <1>1, <2>1 DEF Shaped
  <2>3. QED
    BY <1>2, <2>1, <2>2, PointersAre DEF Live, Coming
<1>3. ASSUME NEW k \in KeysOf("roundindex"), Has(Text(k[2]))
      PROVE  Has(Round(k[3])) /\ db[Round(k[3])].text = k[2]
  <2>1. k[1] = "roundindex" /\ Has(k)
    BY DEF KeysOf, Has
  <2>2. k = RoundIndex(k[2], k[3])
    BY <1>1, <2>1 DEF Shaped
  <2>3. Has(RoundIndex(k[2], k[3]))
    BY <2>1, <2>2
  <2>4. QED
    BY <1>3, <2>3, PointersAre DEF Live, Coming
<1>4. ASSUME NEW k \in KeysOf("supersededby"), Has(Text(db[k]))
      PROVE  db[Text(db[k])].previous = k[2]
  <2>1. k[1] = "supersededby" /\ Has(k)
    BY DEF KeysOf, Has
  <2>2. k = SupersededBy(k[2]) /\ Written(k, db[k])
    BY <1>1, <2>1 DEF Shaped
  <2>3. PICK u : u = db[k]
    OBVIOUS
  <2>4. PICK t : t = k[2]
    OBVIOUS
  <2>5. Written(SupersededBy(t), u)
    BY <2>2, <2>3, <2>4
  <2>6. Written(Text(u), db[Text(u)])
    BY <1>1, <1>4, <2>3
  <2>7. db[Text(u)].previous = t
    BY <2>5, <2>6, Zenon DEF WholeInv, ValuesOK, SupersededOK
  <2>8. QED
    BY <2>3, <2>4, <2>7
<1>5. QED
  BY <1>2, <1>3, <1>4 DEF PointersResolve

LEMMA WholeIsOpen == RoundsInv /\ WholeInv => HeadIsOpen
<1> SUFFICES ASSUME RoundsInv, WholeInv, Quiet, ~interrupted, NEW t \in Texts, ~Has(SupersededBy(t))
             PROVE  Has(CurrentRound(t)) /\ db[Round(db[CurrentRound(t)])].status = "open"
  BY DEF HeadIsOpen
<1>1. \A p \in Proc : ops[p] = <<>>
  BY IdleHasNoBatch DEF Quiet
<1>2. \A k : ~Pending(k)
  BY <1>1 DEF Pending, PutsAt
<1>3. Has(Text(t))
  BY TextsAreThere
<1>4. Live(t) /\ ~Closing(t)
  BY <1>2, <1>3 DEF Live, Closing, Coming
<1>5. OpenText(t)
  BY <1>4 DEF WholeInv, HeadsOK
<1>6. Has(CurrentRound(t))
  BY <1>2, <1>5 DEF OpenText, Coming
<1>7. PICK r : r = db[CurrentRound(t)] /\ Has(Round(r)) /\ db[Round(r)].text = t
  BY <1>4, <1>6, PointersAre
<1>8. Written(Round(r), db[Round(r)])
  BY <1>7, Zenon DEF Written, Stored, Has
<1>9. db[Round(r)].status = "open"
  BY <1>5, <1>7, <1>8, Zenon DEF OpenText
<1>10. QED
  BY <1>6, <1>7, <1>9

(* Whatever proposals, votes, closes, schedules, subscriptions and          *)
(* deletions interleave, and whichever batches stop half-way, the records   *)
(* of a text that is there stay whole: in the store, in what is still to be *)
(* written, in what a close has read and in what a deletion has collected,  *)
(* a record comes after those it leads to and goes only with its text       *)
(* (CreateText, openRound, resolveSlot, CloseRound, DeleteText,             *)
(* DeleteUserTexts, DeleteUserFragments, WriteBatch).                       *)
THEOREM RecordsStayWhole == Spec => [](RoundsInv /\ WholeInv)
<1>1. RoundsInv /\ [Next]_vars => RoundsInv'
  BY StepInv DEF StepOK
<1>2. RoundsInv /\ WholeInv /\ [Next]_vars => WholeInv'
  BY StepWhole
<1>3. QED
  BY InitInv, InitWhole, <1>1, <1>2, PTL DEF Spec

(* "A slot always keeps at least its seed" (DeleteUserFragments), for any   *)
(* number of goroutines, texts, proposals and users who are deleted: the    *)
(* fallback on which WinningFragment and CloseRound rely is there, and says *)
(* what the text said.                                                      *)
THEOREM SlotsKeepTheirSeed == Spec => []SeedKept
<1>1. RoundsInv /\ WholeInv => SeedKept
  BY WholeKeepsSeeds
<1>2. QED
  BY <1>1, RecordsStayWhole, PTL

(* The pointer to the current round, the index of rounds and the pointer to *)
(* the next version lead to the records of their text, as long as that is   *)
(* there, whatever stops half-way or is deleted (CurrentRound,              *)
(* RoundsForText, DueScheduledRounds, SupersededBy).                        *)
THEOREM PointersAlwaysResolve == Spec => []PointersResolve
<1>1. RoundsInv /\ WholeInv => PointersResolve
  BY WholeResolves
<1>2. QED
  BY <1>1, RecordsStayWhole, PTL

(* "A text is open for proposals from creation to its latest version        *)
(* without a gap" (CloseRound): between calls, and as long as no batch has  *)
(* stopped half-way, a version that nothing supersedes has an open round.   *)
THEOREM LatestVersionIsOpen == Spec => []HeadIsOpen
<1>1. RoundsInv /\ WholeInv => HeadIsOpen
  BY WholeIsOpen
<1>2. QED
  BY <1>1, RecordsStayWhole, PTL
=============================================================================
