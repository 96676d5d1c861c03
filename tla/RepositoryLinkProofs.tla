------------------------ MODULE RepositoryLinkProofs ------------------------
(* Who follows a text, which fragments the indexes and the votes lead to,   *)
(* and which versions a version leads to, for every value of the constants: *)
(* whatever closes race, a follower follows some version; an index or a     *)
(* vote leads to a fragment; the history is the same from every version.    *)
EXTENDS RepositoryRecordProofs

-----------------------------------------------------------------------------
(* The invariant of those who follow a text.                               *)

\* A subscription of u is in the store, or a batch has one still to put.
SubscriptionOf(k, u) == k[1] = "subscription" /\ k[3] = u
Follows(u) ==
  \/ \E k : Has(k) /\ SubscriptionOf(k, u)
  \/ \E p \in Proc : \E i, k : PutsAt(ops[p], i, k) /\ SubscriptionOf(k, u)

Entering == {"created", "subscribed"}
Deletion == {"collect", "next", "deleted"}
Enters(c, u) == c.pc \in Entering /\ c.user = u
Leaves(c, u) == c.pc = "unsubscribed" /\ c.user = u

\* Who loses a subscription by a batch gets one by it later; or is the one who leaves.
Carries(b) ==
  \A i, k, u : EraseAt(b, i, k) /\ SubscriptionOf(k, u) =>
    \E j, k2 : j > i /\ PutsAt(b, j, k2) /\ SubscriptionOf(k2, u)
GivesUp(c, b) ==
  c.pc = "unsubscribed" /\ \A i, k, u : EraseAt(b, i, k) /\ SubscriptionOf(k, u) => u = c.user

\* A deletion is alone.
Alone == \A p, q \in Proc : Deleting(p) /\ q # p => call[q].pc = "idle"

FollowOK ==
  /\ Alone
  /\ \A p \in Proc : Deleting(p) => following = {}
  /\ \A u : u \in following \/ (\E p \in Proc : Enters(call[p], u)) => Follows(u)
  /\ \A p \in Proc : Deleting(p) \/ GivesUp(call[p], ops[p]) \/ Carries(ops[p])
  /\ \A p, q \in Proc : \A u : Leaves(call[p], u) => u \notin following /\ ~Enters(call[q], u)
FollowInv == ~Overlap /\ ~interrupted /\ ~unclean => FollowOK

-----------------------------------------------------------------------------
(* A step that leaves the store alone.                                     *)

\* p's call becomes c, with the batch b to write; what it had to write is written.
Moves(p, c, b) ==
  /\ Local(p, c, b) /\ ops[p] = <<>>
  /\ interrupted' = interrupted /\ (unclean => unclean')

LEMMA MovesAre ==
  ASSUME RoundsInv, NEW p \in Proc, NEW c, NEW b, Moves(p, c, b)
  PROVE  /\ db' = db /\ call'[p] = c /\ ops'[p] = b /\ ops[p] = <<>>
         /\ \A q \in Proc : q # p => call'[q] = call[q] /\ ops'[q] = ops[q]
         /\ \A i, k : ~PutsAt(ops[p], i, k) /\ ~EraseAt(ops[p], i, k)
<1>1. /\ call'[p] = c /\ \A q \in Proc : q # p => call'[q] = call[q]
  BY OthersStay DEF Moves, Local, RoundsInv, ShapesOK
<1>2. /\ ops'[p] = b /\ \A q \in Proc : q # p => ops'[q] = ops[q]
  BY OthersStay DEF Moves, Local, RoundsInv, ShapesOK
<1>3. \A i, k : ~PutsAt(ops[p], i, k) /\ ~EraseAt(ops[p], i, k)
  BY DEF PutsAt, EraseAt, Moves
<1>4. QED
  BY <1>1, <1>2, <1>3 DEF Moves, Local

LEMMA FollowsStay ==
  ASSUME RoundsInv, NEW p \in Proc, NEW c, NEW b, Moves(p, c, b), NEW u, Follows(u)
  PROVE  Follows(u)'
<1>1. /\ db' = db /\ \A q \in Proc : q # p => ops'[q] = ops[q]
      /\ \A i, k : ~PutsAt(ops[p], i, k)
  BY MovesAre
<1>2. CASE \E k : Has(k) /\ SubscriptionOf(k, u)
  BY <1>1, <1>2, Zenon DEF Follows, Has
<1>3. CASE \E q \in Proc : \E i, k : PutsAt(ops[q], i, k) /\ SubscriptionOf(k, u)
  BY <1>1, <1>3, Zenon DEF Follows
<1>4. QED
  BY <1>2, <1>3 DEF Follows

LEMMA FollowMoves ==
  ASSUME RoundsInv, FollowInv, NEW p \in Proc, NEW c, NEW b, Moves(p, c, b), following' \subseteq following,
         \A u : Enters(c, u) => \E i, k : PutsAt(b, i, k) /\ SubscriptionOf(k, u),
         ~Overlap => \A u : Leaves(c, u) => u \notin following' /\ \A q \in Proc : ~Enters(call[q], u),
         ~Overlap => \A u : Enters(c, u) => c.pc # "unsubscribed" /\ \A q \in Proc : ~Leaves(call[q], u),
         FollowOK /\ ~unclean' /\ c.pc \in Deletion =>
           following' = {} /\ \A q \in Proc : q # p => call[q].pc = "idle",
         FollowOK /\ ~unclean' /\ c.pc # "idle" => \A q \in Proc : q # p => ~Deleting(q),
         c.pc \in Deletion \/ GivesUp(c, b) \/ Carries(b)
  PROVE  FollowInv'
<1> SUFFICES ASSUME ~Overlap, ~interrupted', ~unclean'
             PROVE  FollowOK'
  BY DEF FollowInv
<1>1. FollowOK /\ ~unclean'
  BY DEF FollowInv, Moves
<1>2. /\ call'[p] = c /\ ops'[p] = b
      /\ \A q \in Proc : q # p => call'[q] = call[q] /\ ops'[q] = ops[q]
  BY MovesAre
<1>3. \A q \in Proc : q # p => (Deleting(q)' <=> Deleting(q))
  BY <1>2 DEF Deleting
<1>4. Deleting(p)' <=> c.pc \in Deletion
  BY <1>2 DEF Deleting, Deletion
<1>5. Alone'
  <2> SUFFICES ASSUME NEW q \in Proc, NEW r \in Proc, Deleting(q)', r # q
               PROVE  call'[r].pc = "idle"
    BY Zenon DEF Alone
  <2>1. CASE q = p
    BY <1>1, <1>2, <1>4, <2>1
  <2>2. CASE r = p
    BY <1>1, <1>2, <1>3, <2>2
  <2>3. CASE q # p /\ r # p
    BY <1>1, <1>2, <1>3, <2>3 DEF FollowOK, Alone
  <2>4. QED
    BY <2>1, <2>2, <2>3
<1>6. \A q \in Proc : Deleting(q)' => following' = {}
  BY <1>1, <1>3, <1>4 DEF FollowOK
<1>7. \A u : u \in following' \/ (\E q \in Proc : Enters(call'[q], u)) => Follows(u)'
  <2> SUFFICES ASSUME NEW u, u \in following' \/ (\E q \in Proc : Enters(call'[q], u))
               PROVE  Follows(u)'
    BY Zenon
  <2>1. CASE Enters(c, u)
    BY <1>2, <2>1, Zenon DEF Follows
  <2>2. CASE ~Enters(c, u)
    <3>1. u \in following \/ (\E q \in Proc : Enters(call[q], u))
      BY <1>2, <2>2
    <3>2. QED
      BY <1>1, <3>1, FollowsStay DEF FollowOK
  <2>3. QED
    BY <2>1, <2>2
<1>8. \A q \in Proc : Deleting(q)' \/ GivesUp(call'[q], ops'[q]) \/ Carries(ops'[q])
  BY <1>1, <1>2, <1>3, <1>4, Zenon DEF FollowOK
<1>9. \A q, r \in Proc : \A u : Leaves(call'[q], u) => u \notin following' /\ ~Enters(call'[r], u)
  <2> SUFFICES ASSUME NEW q \in Proc, NEW r \in Proc, NEW u, Leaves(call'[q], u)
               PROVE  u \notin following' /\ ~Enters(call'[r], u)
    BY Zenon
  <2>1. CASE q = p
    <3>1. Leaves(c, u)
      BY <1>2, <2>1
    <3>2. ~Enters(c, u)
      BY <3>1 DEF Leaves, Enters, Entering
    <3>3. QED
      BY <1>2, <3>1, <3>2
  <2>2. CASE q # p
    <3>1. Leaves(call[q], u)
      BY <1>2, <2>2
    <3>2. u \notin following'
      BY <1>1, <3>1 DEF FollowOK
    <3>3. CASE r = p
      BY <1>2, <3>1, <3>2, <3>3
    <3>4. CASE r # p
      BY <1>1, <1>2, <3>1, <3>2, <3>4 DEF FollowOK
    <3>5. QED
      BY <3>3, <3>4
  <2>3. QED
    BY <2>1, <2>2
<1>10. QED
  BY <1>5, <1>6, <1>7, <1>8, <1>9 DEF FollowOK

LEMMA EmptyCarries == Carries(<<>>)
BY DEF Carries, EraseAt

\* A call goes on: it neither begins nor becomes another kind of call.
LEMMA FollowGoes ==
  ASSUME RoundsInv, FollowInv, NEW p \in Proc, NEW c, NEW b, Moves(p, c, b), following' = following,
         call[p].pc # "idle", c.pc \notin Entering, c.pc # "unsubscribed",
         c.pc \in Deletion => call[p].pc \in Deletion,
         c.pc \in Deletion \/ Carries(b)
  PROVE  FollowInv'
<1>1. \A u : ~Enters(c, u) /\ ~Leaves(c, u)
  BY DEF Enters, Leaves
<1>2. FollowOK /\ c.pc \in Deletion => following' = {} /\ \A q \in Proc : q # p => call[q].pc = "idle"
  BY DEF FollowOK, Alone, Deleting, Deletion
<1>3. FollowOK => \A q \in Proc : q # p => ~Deleting(q)
  BY DEF FollowOK, Alone
<1>4. QED
  BY <1>1, <1>2, <1>3, FollowMoves

\* A call begins, for a user who has no other unless calls overlap.
Begins(p, c, b, kind) ==
  /\ Moves(p, c, b) /\ call[p].pc = "idle"
  /\ unclean' = (unclean \/ Meets(p, kind))

LEMMA MeetsIs ==
  ASSUME NEW p \in Proc, NEW kind, ~Meets(p, kind)
  PROVE  /\ \A q \in Proc : q # p => ~Deleting(q)
         /\ kind = "delete" => \A q \in Proc : q # p => call[q].pc = "idle"
<1>1. \A q \in Proc \ {p} : ~(call[q].pc # "idle" /\ (Deleting(q) \/ kind = "delete"))
  BY Zenon DEF Meets
<1>2. \A q \in Proc : Deleting(q) => call[q].pc # "idle"
  BY DEF Deleting
<1>3. QED
  BY <1>1, <1>2

LEMMA FollowBegins ==
  ASSUME RoundsInv, FollowInv, NEW p \in Proc, NEW c, NEW b, NEW kind, Begins(p, c, b, kind),
         following' \subseteq following,
         \A u : Enters(c, u) => \E i, k : PutsAt(b, i, k) /\ SubscriptionOf(k, u),
         \A u : Leaves(c, u) => u \notin following',
         c.pc \in Entering \cup {"unsubscribed"} /\ ~Overlap => ~Busy(c.user),
         c.pc \in Deletion => kind = "delete" /\ following' = {},
         c.pc \in Deletion \/ GivesUp(c, b) \/ Carries(b)
  PROVE  FollowInv'
<1>1. Moves(p, c, b) /\ (~unclean' => ~Meets(p, kind))
  BY DEF Begins
<1>2. ~unclean' => \A q \in Proc : q # p => ~Deleting(q)
  BY <1>1, MeetsIs
<1>3. ~unclean' /\ c.pc \in Deletion => following' = {} /\ \A q \in Proc : q # p => call[q].pc = "idle"
  BY <1>1, MeetsIs
<1>4. ASSUME ~Overlap, c.pc \in Entering \cup {"unsubscribed"}, NEW q \in Proc
      PROVE  ~Enters(call[q], c.user) /\ ~Leaves(call[q], c.user)
  <2>1. call[q].pc = "idle" \/ call[q].user # c.user
    BY <1>4, Zenon DEF Busy
  <2>2. QED
    BY <2>1 DEF Enters, Leaves, Entering
<1>5. ~Overlap => \A u : Leaves(c, u) => u \notin following' /\ \A q \in Proc : ~Enters(call[q], u)
  BY <1>4 DEF Leaves
<1>6. ~Overlap => \A u : Enters(c, u) => c.pc # "unsubscribed" /\ \A q \in Proc : ~Leaves(call[q], u)
  BY <1>4 DEF Enters, Entering
<1>7. QED
  BY <1>1, <1>2, <1>3, <1>5, <1>6, FollowMoves

\* One operation of a batch.
LEMMA FollowApply ==
  ASSUME RoundsInv, FollowInv, NEW p \in Proc, ApplyOp(p)
  PROVE  FollowInv'
<1> SUFFICES ASSUME ~Overlap, ~interrupted', ~unclean'
             PROVE  FollowOK'
  BY DEF FollowInv
<1>1. FollowOK
  BY DEF FollowInv, ApplyOp, meta
<1>2. /\ IsSeq(ops[p]) /\ ops[p] # <<>> /\ ops'[p] = Tail(ops[p])
      /\ \A q \in Proc : q # p => ops'[q] = ops[q]
      /\ \A q \in Proc : call'[q] = call[q] \/ (call'[q] = Idle /\ ops'[q] = <<>>)
      /\ \A k : Has(k) => Has(k)' \/ EraseAt(ops[p], 1, k)
      /\ \A k : PutsAt(ops[p], 1, k) => Has(k)'
  BY ApplyIs
<1>3. \A u : u \in following' => u \in following \/ Enters(call[p], u)
  <2>1. following' = following \/ following' = IF call[p].pc \in Entering THEN following \cup {call[p].user} ELSE following
    BY DEF ApplyOp, Returned, Entering
  <2>2. QED
    BY <2>1 DEF Enters
<1>4. Idle.pc = "idle"
  BY DEF Idle
<1>5. \A q \in Proc : Deleting(q)' => Deleting(q)
  BY <1>2, <1>4 DEF Deleting
<1>6. \A q \in Proc : \A u : (Enters(call'[q], u) => Enters(call[q], u)) /\ (Leaves(call'[q], u) => Leaves(call[q], u))
  BY <1>2, <1>4 DEF Enters, Leaves, Entering
<1>7. \A q \in Proc : Deleting(q) => following = {} /\ \A r \in Proc : \A u : ~Enters(call[r], u)
  <2> SUFFICES ASSUME NEW q \in Proc, Deleting(q), NEW r \in Proc, NEW u
               PROVE  following = {} /\ ~Enters(call[r], u)
    BY Zenon
  <2>1. r # q => call[r].pc = "idle"
    BY <1>1 DEF FollowOK, Alone
  <2>2. QED
    BY <1>1, <2>1 DEF FollowOK, Deleting, Enters, Entering
<1>8. Alone'
  <2> SUFFICES ASSUME NEW q \in Proc, NEW r \in Proc, Deleting(q)', r # q
               PROVE  call'[r].pc = "idle"
    BY Zenon DEF Alone
  <2>1. call[r].pc = "idle"
    BY <1>1, <1>5 DEF FollowOK, Alone
  <2>2. QED
    BY <1>2, <1>4, <2>1
<1>9. \A q \in Proc : Deleting(q)' => following' = {}
  BY <1>3, <1>5, <1>7
<1>10. /\ \A i, k : PutsAt(ops[p], i, k) => i = 1 \/ (i - 1 \in Nat /\ PutsAt(ops'[p], i - 1, k))
       /\ \A i, k : PutsAt(ops[p], i, k) \/ EraseAt(ops[p], i, k) => i \in Nat
       /\ \A i, k : EraseAt(ops'[p], i, k) => i \in Nat /\ EraseAt(ops[p], i + 1, k)
  BY <1>2, TailShift
<1>11. ASSUME NEW u, u \in following' \/ (\E q \in Proc : Enters(call'[q], u))
       PROVE  Follows(u)'
  <2>1. u \in following \/ (\E q \in Proc : Enters(call[q], u))
    BY <1>3, <1>6, <1>11
  <2>2. ASSUME NEW i, NEW k, i # 1, PutsAt(ops[p], i, k), SubscriptionOf(k, u)
        PROVE  Follows(u)'
    <3>1. PutsAt(ops'[p], i - 1, k)
      BY <1>10, <2>2
    <3>2. QED
      BY <2>2, <3>1, Zenon DEF Follows
  <2>3. ASSUME NEW k, Has(k)', SubscriptionOf(k, u)
        PROVE  Follows(u)'
    BY <2>3, Zenon DEF Follows
  <2>4. ASSUME NEW k, Has(k), SubscriptionOf(k, u)
        PROVE  Follows(u)'
    <3>1. CASE Has(k)'
      BY <2>3, <2>4, <3>1
    <3>2. CASE EraseAt(ops[p], 1, k)
      <4>1. ~Deleting(p)
        BY <1>7, <2>1
      <4>2. ~GivesUp(call[p], ops[p])
        <5> SUFFICES ASSUME GivesUp(call[p], ops[p])
                     PROVE  FALSE
          OBVIOUS
        <5>1. Leaves(call[p], u)
          BY <2>4, <3>2, Zenon DEF GivesUp, Leaves
        <5>2. QED
          BY <1>1, <2>1, <5>1 DEF FollowOK
      <4>3. Carries(ops[p])
        BY <1>1, <4>1, <4>2 DEF FollowOK
      <4>4. PICK j, k2 : j > 1 /\ PutsAt(ops[p], j, k2) /\ SubscriptionOf(k2, u)
        BY <2>4, <3>2, <4>3, Zenon DEF Carries
      <4>5. j # 1
        BY <1>10, <4>4
      <4>6. QED
        BY <2>2, <4>4, <4>5
    <3>3. QED
      BY <1>2, <2>4, <3>1, <3>2
  <2>5. ASSUME NEW q \in Proc, NEW i, NEW k, PutsAt(ops[q], i, k), SubscriptionOf(k, u)
        PROVE  Follows(u)'
    <3>1. CASE q # p
      BY <1>2, <2>5, <3>1, Zenon DEF Follows
    <3>2. CASE q = p /\ i = 1
      <4>1. Has(k)'
        BY <1>2, <2>5, <3>2
      <4>2. QED
        BY <2>3, <2>5, <4>1
    <3>3. CASE q = p /\ i # 1
      BY <2>2, <2>5, <3>3
    <3>4. QED
      BY <3>1, <3>2, <3>3
  <2>6. Follows(u)
    BY <1>1, <2>1 DEF FollowOK
  <2>7. QED
    BY <2>4, <2>5, <2>6, Zenon DEF Follows
<1>12. \A q \in Proc : Deleting(q)' \/ GivesUp(call'[q], ops'[q]) \/ Carries(ops'[q])
  <2> SUFFICES ASSUME NEW q \in Proc
               PROVE  Deleting(q)' \/ GivesUp(call'[q], ops'[q]) \/ Carries(ops'[q])
    OBVIOUS
  <2>1. CASE ops'[q] = <<>>
    BY <2>1, EmptyCarries
  <2>2. CASE call'[q] = call[q] /\ q # p
    BY <1>1, <1>2, <2>2 DEF FollowOK, Deleting
  <2>3. CASE call'[q] = call[q] /\ q = p
    <3>1. CASE Deleting(p)
      BY <2>3, <3>1 DEF Deleting
    <3>2. CASE GivesUp(call[p], ops[p])
      <4>1. \A i, k, u : EraseAt(ops'[p], i, k) /\ SubscriptionOf(k, u) => u = call[p].user
        BY <1>10, <3>2 DEF GivesUp
      <4>2. QED
        BY <2>3, <3>2, <4>1 DEF GivesUp
    <3>3. CASE Carries(ops[p])
      <4> SUFFICES ASSUME NEW i, NEW k, NEW u, EraseAt(ops'[p], i, k), SubscriptionOf(k, u)
                   PROVE  \E j, k2 : j > i /\ PutsAt(ops'[p], j, k2) /\ SubscriptionOf(k2, u)
        BY <2>3, Zenon DEF Carries
      <4>1. i \in Nat /\ EraseAt(ops[p], i + 1, k)
        BY <1>10
      <4>2. PICK j, k2 : j > i + 1 /\ PutsAt(ops[p], j, k2) /\ SubscriptionOf(k2, u)
        BY <3>3, <4>1 DEF Carries
      <4>3. j \in Nat /\ j # 1 /\ j - 1 > i
        BY <1>10, <4>1, <4>2
      <4>4. PutsAt(ops'[p], j - 1, k2)
        BY <1>10, <4>2, <4>3
      <4>5. QED
        BY <4>2, <4>3, <4>4
    <3>4. QED
      BY <1>1, <3>1, <3>2, <3>3 DEF FollowOK
  <2>4. QED
    BY <1>2, <2>1, <2>2, <2>3
<1>13. \A q, r \in Proc : \A u : Leaves(call'[q], u) => u \notin following' /\ ~Enters(call'[r], u)
  BY <1>1, <1>3, <1>6, Zenon DEF FollowOK
<1>14. QED
  BY <1>8, <1>9, <1>11, <1>12, <1>13 DEF FollowOK

-----------------------------------------------------------------------------
(* What the batches that are written touch.                                *)

\* An index entry or a vote leads to a fragment.
Leads(k, f) == (k[1] = "fragmentindex" /\ k[4] = f) \/ (k[1] = "vote" /\ k[2] = f)

Linking == {"fragment", "fragmentindex", "vote", "uservote"}
Lacks(b, families) == IsSeq(b) /\ \A i \in DOMAIN b : b[i].key[1] \notin families

\* A batch puts a fragment before what leads to it, and deletes none.
Links(b) ==
  /\ \A i, k, f : PutsAt(b, i, k) /\ Leads(k, f) => \E j : j < i /\ PutsAt(b, j, Fragment(f))
  /\ \A i, k : EraseAt(b, i, k) => k[1] # "fragment"
  /\ \A i, k : PutsAt(b, i, k) \/ EraseAt(b, i, k) => k[1] \notin {"vote", "uservote"}

LEMMA LacksIs ==
  ASSUME NEW b, NEW families, Lacks(b, families)
  PROVE  \A i, k : PutsAt(b, i, k) \/ EraseAt(b, i, k) => k[1] \notin families
BY Zenon DEF Lacks, PutsAt, EraseAt

LEMMA LacksLinks ==
  ASSUME NEW b, Lacks(b, Linking)
  PROVE  Links(b)
<1>1. \A i, k : PutsAt(b, i, k) \/ EraseAt(b, i, k) => k[1] \notin Linking
  BY LacksIs
<1>2. QED
  BY <1>1 DEF Links, Leads, Linking

LEMMA LacksCarries ==
  ASSUME NEW b, Lacks(b, {"subscription"})
  PROVE  Carries(b)
<1>1. \A i, k : PutsAt(b, i, k) \/ EraseAt(b, i, k) => k[1] \notin {"subscription"}
  BY LacksIs
<1>2. QED
  BY <1>1 DEF Carries, SubscriptionOf

LEMMA LacksConcat ==
  ASSUME NEW a, NEW m, NEW families, Lacks(a, families), Lacks(m, families)
  PROVE  Lacks(a \o m, families)
<1>1. IsSeq(a) /\ IsSeq(m)
  BY DEF Lacks
<1> DEFINE c == a \o m
<1>2. /\ IsSeq(c)
      /\ \A i \in DOMAIN c : \/ i \in DOMAIN a /\ c[i] = a[i]
                             \/ i - Len(a) \in DOMAIN m /\ c[i] = m[i - Len(a)]
  BY <1>1, ConcatAt
<1> HIDE DEF c
<1>3. Lacks(c, families)
  BY <1>2 DEF Lacks
<1>4. QED
  BY <1>3 DEF c

LEMMA CarriesConcat ==
  ASSUME NEW a, NEW m, IsSeq(a), IsSeq(m), Carries(a), Carries(m)
  PROVE  Carries(a \o m)
<1> DEFINE c == a \o m
<1>0. Joins(c, a, m)
  BY JoinsAt
<1> HIDE DEF c
<1>1. PICK n : /\ n = Len(a) /\ n \in Nat
               /\ \A i \in DOMAIN c : \/ i \in DOMAIN a /\ c[i] = a[i]
                                      \/ i - n \in DOMAIN m /\ c[i] = m[i - n] /\ i \in Nat /\ n < i
               /\ \A i \in DOMAIN a : i \in DOMAIN c /\ c[i] = a[i] /\ i \in Nat /\ i <= n
               /\ \A i \in DOMAIN m : i + n \in DOMAIN c /\ c[i + n] = m[i]
  BY <1>0 DEF Joins
<1>2. \A i \in DOMAIN m : i \in Nat
  BY SeqIs
<1>3. \A i, k : EraseAt(c, i, k) => EraseAt(a, i, k) \/ (i \in Nat /\ EraseAt(m, i - n, k))
  BY <1>1, Zenon DEF EraseAt
<1>4. \A i, k : PutsAt(a, i, k) => PutsAt(c, i, k)
  BY <1>1, Zenon DEF PutsAt
<1>5. \A i, k : PutsAt(m, i, k) => i \in Nat /\ PutsAt(c, i + n, k)
  BY <1>1, <1>2, Zenon DEF PutsAt
<1>6. Carries(c)
  <2> SUFFICES ASSUME NEW i, NEW k, NEW u, EraseAt(c, i, k), SubscriptionOf(k, u)
               PROVE  \E j, k2 : j > i /\ PutsAt(c, j, k2) /\ SubscriptionOf(k2, u)
    BY Zenon DEF Carries
  <2>1. CASE EraseAt(a, i, k)
    <3>1. PICK j, k2 : j > i /\ PutsAt(a, j, k2) /\ SubscriptionOf(k2, u)
      BY <2>1, Zenon DEF Carries
    <3>2. QED
      BY <1>4, <3>1
  <2>2. CASE i \in Nat /\ EraseAt(m, i - n, k)
    <3>1. PICK j, k2 : j > i - n /\ PutsAt(m, j, k2) /\ SubscriptionOf(k2, u)
      BY <2>2, Zenon DEF Carries
    <3>2. j \in Nat /\ PutsAt(c, j + n, k2)
      BY <1>5, <3>1
    <3>3. j + n > i
      BY <1>1, <2>2, <3>1, <3>2
    <3>4. QED
      BY <3>1, <3>2, <3>3
  <2>3. QED
    BY <1>3, <2>1, <2>2
<1>7. QED
  BY <1>6 DEF c

\* A batch touches no other families of keys.
Only(b, families) == IsSeq(b) /\ \A i \in DOMAIN b : b[i].key[1] \in families

LEMMA OnlyIs ==
  ASSUME NEW b, NEW families, Only(b, families)
  PROVE  \A i, k : PutsAt(b, i, k) \/ EraseAt(b, i, k) => k[1] \in families
BY Zenon DEF Only, PutsAt, EraseAt

LEMMA OpenRoundOpsOnly ==
  ASSUME NEW t, NEW r, NEW number
  PROVE  Only(OpenRoundOps(t, r, number), {"round", "currentround", "roundcount", "roundindex"})
<1> DEFINE w == Put(Round(r), [text |-> t, number |-> number, status |-> "open",
                               slots |-> <<>>, scheduled |-> FALSE])
           x == Put(CurrentRound(t), r)
           y == Put(RoundCount(t), number)
           z == Put(RoundIndex(t, r), r)
           b == << w, x, y, z >>
<1>1. /\ w.key[1] = "round" /\ x.key[1] = "currentround" /\ y.key[1] = "roundcount"
      /\ z.key[1] = "roundindex"
  BY OpIs, KeyIs
<1> HIDE DEF w, x, y, z
<1>2. /\ IsSeq(b)
      /\ \A i \in DOMAIN b : b[i] = w \/ b[i] = x \/ b[i] = y \/ b[i] = z
  BY FourAt
<1> HIDE DEF b
<1>3. Only(b, {"round", "currentround", "roundcount", "roundindex"})
  BY <1>1, <1>2 DEF Only
<1>4. QED
  BY <1>3 DEF b, w, x, y, z, OpenRoundOps

LEMMA OpenRoundOpsLack ==
  ASSUME NEW t, NEW r, NEW number
  PROVE  Lacks(OpenRoundOps(t, r, number), Linking \cup {"subscription"})
BY OpenRoundOpsOnly DEF Only, Lacks, Linking

LEMMA LacksFewer ==
  ASSUME NEW b, Lacks(b, Linking \cup {"subscription"})
  PROVE  Links(b) /\ Carries(b) /\ IsSeq(b) /\ Lacks(b, Linking)
<1>1. Lacks(b, Linking) /\ Lacks(b, {"subscription"})
  BY DEF Lacks
<1>2. QED
  BY <1>1, LacksLinks, LacksCarries DEF Lacks

\* The subscribers of a text are carried over to its next version.
LEMMA MovedCarry ==
  ASSUME NEW t, NEW new, NEW users, IsSeq(users)
  PROVE  Carries(MoveSubscriptionOps(users, t, new))
<1> DEFINE Op(u) == << Delete(Subscription(t, u)), Delete(SubscriptionIndex(u, t)),
                       Put(Subscription(new, u), u), Put(SubscriptionIndex(u, new), new) >>
           n == IF users = <<>> THEN 0 ELSE 4
           b == [i \in 1 .. n * Len(users) |-> Op(users[(i - 1) \div n + 1])[((i - 1) % n) + 1]]
<1>1. PICK m : m = Len(users) /\ m \in Nat
  BY SeqIs
<1>2. MoveSubscriptionOps(users, t, new) = b
  BY DEF MoveSubscriptionOps, Each
<1>3. CASE users = <<>>
  <2>1. DOMAIN b = {}
    BY <1>1, <1>3
  <2> HIDE DEF b
  <2>2. QED
    BY <1>2, <2>1 DEF Carries, EraseAt
<1>4. CASE users # <<>>
  <2>1. b = [i \in 1 .. 4 * m |-> Op(users[(i - 1) \div 4 + 1])[((i - 1) % 4) + 1]]
    BY <1>1, <1>4
  <2> HIDE DEF b
  <2>2. \A u : /\ Op(u)[1].tombstone /\ Op(u)[1].key = Subscription(t, u)
               /\ Op(u)[2].tombstone /\ Op(u)[2].key = SubscriptionIndex(u, t)
               /\ ~Op(u)[3].tombstone /\ Op(u)[3].key = Subscription(new, u)
               /\ ~Op(u)[4].tombstone
    BY OpIs
  <2>3. \A u : /\ SubscriptionOf(Subscription(t, u), u) /\ SubscriptionOf(Subscription(new, u), u)
               /\ SubscriptionIndex(u, t)[1] # "subscription"
               /\ \A v : SubscriptionOf(Subscription(t, u), v) => v = u
    BY DEF SubscriptionOf, Subscription, SubscriptionIndex
  <2> HIDE DEF Op
  <2> SUFFICES ASSUME NEW i, NEW k, NEW u, EraseAt(b, i, k), SubscriptionOf(k, u)
               PROVE  \E j, k2 : j > i /\ PutsAt(b, j, k2) /\ SubscriptionOf(k2, u)
    BY <1>2, Zenon DEF Carries
  <2>4. i \in 1 .. 4 * m
    BY <2>1 DEF EraseAt
  <2>5. PICK q, l : q = (i - 1) \div 4 + 1 /\ l = ((i - 1) % 4) + 1
    OBVIOUS
  <2>6. b[i] = Op(users[q])[l] /\ l \in 1 .. 4
    BY <1>1, <2>1, <2>4, <2>5, EachIndex
  <2>7. b[i].tombstone /\ b[i].key = k
    BY DEF EraseAt
  <2>8. l = 1 \/ l = 2
    BY <2>2, <2>6, <2>7
  <2>9. l = 1
    BY <2>2, <2>3, <2>6, <2>7, <2>8 DEF SubscriptionOf
  <2>10. u = users[q]
    BY <2>2, <2>3, <2>6, <2>7, <2>9
  <2>11. /\ i + 2 \in 1 .. 4 * m /\ i + 2 > i
         /\ q = ((i + 2) - 1) \div 4 + 1 /\ 3 = (((i + 2) - 1) % 4) + 1
    BY <1>1, <2>4, <2>5, <2>9
  <2>12. i + 2 \in DOMAIN b /\ b[i + 2] = Op(users[q])[3]
    BY <2>1, <2>11
  <2>13. PutsAt(b, i + 2, Subscription(new, u))
    BY <2>2, <2>10, <2>12 DEF PutsAt
  <2>14. QED
    BY <2>3, <2>11, <2>13
<1>5. QED
  BY <1>3, <1>4

-----------------------------------------------------------------------------
(* Calls that go on.                                                       *)

\* What a call that goes on may write.
Resolves(p) == ResolveCurrent(p) \/ ResolveOpened(p) \/ AddFirstFragment(p)
Writes(p, b) ==
  \/ Only(b, {"round", "currentround", "roundcount", "roundindex"})
  \/ Resolves(p) /\ Only(b, {"round", "fragment", "fragmentindex"})
  \/ Fork(p)

\* A call goes on or ends; what it has to write carries the followers and
\* puts fragments before what leads to them.
Going(p, c, b) ==
  /\ Moves(p, c, b) /\ unclean' = unclean /\ following' = following /\ erased' = erased
  /\ call[p].pc \notin Deletion \cup {"idle"}
  /\ c.pc \notin Entering \cup Deletion \cup {"unsubscribed", "choice"}
  /\ Carries(b) /\ Links(b) /\ Writes(p, b)
Goes(p) == \E c, b : Going(p, c, b)

LEMMA SilentGoes ==
  ASSUME RoundsInv, NEW p \in Proc, NEW c, db' = db, ops' = ops, ops[p] = <<>>,
         interrupted' = interrupted, unclean' = unclean, following' = following, erased' = erased,
         call' = [call EXCEPT ![p] = c], call[p].pc \notin Deletion \cup {"idle"},
         c.pc \notin Entering \cup Deletion \cup {"unsubscribed", "choice"}
  PROVE  Goes(p)
<1>1. ops = [ops EXCEPT ![p] = ops[p]]
  BY OwnBatchIsKnown
<1>2. Moves(p, c, <<>>)
  BY <1>1 DEF Moves, Local
<1>3. Carries(<<>>) /\ Links(<<>>)
  BY DEF Carries, Links, PutsAt, EraseAt
<1>4. Going(p, c, <<>>)
  <2>1. Writes(p, <<>>)
    BY EmptyIsSeq DEF Writes, Only
  <2>2. QED
    BY <1>2, <1>3, <2>1 DEF Going
<1>5. QED
  BY <1>4, Zenon DEF Goes

LEMMA EndsGoes ==
  ASSUME RoundsInv, NEW p \in Proc, db' = db, ops' = ops, ops[p] = <<>>,
         interrupted' = interrupted, unclean' = unclean, following' = following, erased' = erased,
         call' = [call EXCEPT ![p] = Idle], call[p].pc \notin Deletion \cup {"idle"}
  PROVE  Goes(p)
<1>1. Idle.pc \notin Entering \cup Deletion \cup {"unsubscribed", "choice"}
  BY DEF Idle, Entering, Deletion
<1>2. QED
  BY <1>1, SilentGoes

LEMMA NoRoundGoes ==
  ASSUME RoundsInv, NEW p \in Proc, call[p].pc \in {"pointer", "round"}, ops[p] = <<>>, NoRound(p),
         db' = db, ops' = ops, interrupted' = interrupted, unclean' = unclean, following' = following, erased' = erased
  PROVE  Goes(p)
<1>1. PICK c : c = call[p]
  OBVIOUS
<1>2. call[p].pc \notin Deletion \cup {"idle"}
  BY DEF Deletion
<1>3. CASE c.for = "propose"
  <2> DEFINE d == [c EXCEPT !.pc = "superseded"]
  <2>1. call' = [call EXCEPT ![p] = d]
    BY <1>1, <1>3 DEF NoRound, Becomes
  <2>2. ProposeCall(c) \/ RoundCall(c)
    BY <1>1, SameCall DEF CallOK
  <2>3. d.pc = "superseded"
    BY <2>2 DEF ProposeCall, RoundCall
  <2> HIDE DEF d
  <2>4. d.pc \notin Entering \cup Deletion \cup {"unsubscribed", "choice"}
    BY <2>3 DEF Entering, Deletion
  <2>5. QED
    BY <1>2, <2>1, <2>4, SilentGoes
<1>4. CASE c.for # "propose"
  BY <1>1, <1>2, <1>4, EndsGoes DEF NoRound, Becomes
<1>5. QED
  BY <1>3, <1>4

LEMMA ReadPointerGoes ==
  ASSUME RoundsInv, NEW p \in Proc, ReadPointer(p)
  PROVE  Goes(p)
<1>1. PICK c, r : c = call[p] /\ r = db[CurrentRound(c.text)]
  OBVIOUS
<1>2. /\ c.pc = "pointer" /\ ops[p] = <<>> /\ db' = db /\ ops' = ops
      /\ interrupted' = interrupted /\ unclean' = unclean /\ following' = following /\ erased' = erased
  BY <1>1 DEF ReadPointer, At, history, meta
<1> DEFINE d == [c EXCEPT !.pc = "round", !.round = r]
<1>3. NoRound(p) \/ call' = [call EXCEPT ![p] = d]
  BY <1>1 DEF ReadPointer, Becomes
<1>4. CASE NoRound(p)
  BY <1>1, <1>2, <1>4, NoRoundGoes
<1>5. CASE call' = [call EXCEPT ![p] = d]
  <2>1. ProposeCall(c) \/ RoundCall(c)
    BY <1>1, <1>2, SameCall DEF CallOK
  <2>2. d.pc = "round"
    BY <2>1 DEF ProposeCall, RoundCall
  <2> HIDE DEF d
  <2>3. /\ d.pc \notin Entering \cup Deletion \cup {"unsubscribed", "choice"}
        /\ call[p].pc \notin Deletion \cup {"idle"}
    BY <1>1, <1>2, <2>2 DEF Entering, Deletion
  <2>4. QED
    BY <1>2, <1>5, <2>3, SilentGoes
<1>6. QED
  BY <1>3, <1>4, <1>5

LEMMA RoundGoneGoes ==
  ASSUME RoundsInv, NEW p \in Proc, RoundGone(p)
  PROVE  Goes(p)
BY NoRoundGoes DEF RoundGone, At, history, meta

LEMMA CheckSupersededGoes ==
  ASSUME RoundsInv, NEW p \in Proc, CheckSuperseded(p)
  PROVE  Goes(p)
<1>1. PICK c : c = call[p]
  OBVIOUS
<1> DEFINE d == [c EXCEPT !.pc = "count"]
<1>2. /\ c.pc = "superseded" /\ ops[p] = <<>> /\ db' = db /\ ops' = ops
      /\ interrupted' = interrupted /\ unclean' = unclean /\ following' = following /\ erased' = erased
  BY <1>1 DEF CheckSuperseded, At, history, meta
<1>3. call' = [call EXCEPT ![p] = Idle] \/ call' = [call EXCEPT ![p] = d]
  BY <1>1 DEF CheckSuperseded, Becomes
<1>4. d.pc = "count"
  BY <1>1, <1>2, SameCall DEF CallOK, ProposeCall
<1> HIDE DEF d
<1>5. /\ d.pc \notin Entering \cup Deletion \cup {"unsubscribed", "choice"}
      /\ call[p].pc \notin Deletion \cup {"idle"}
  BY <1>1, <1>2, <1>4 DEF Entering, Deletion
<1>6. QED
  BY <1>2, <1>3, <1>5, EndsGoes, SilentGoes

LEMMA ReadRoundGoes ==
  ASSUME RoundsInv, NEW p \in Proc, ReadRound(p)
  PROVE  Goes(p)
<1>1. PICK c, r, round : c = call[p] /\ r = c.round /\ round = db[Round(r)]
  OBVIOUS
<1> DEFINE d == [pc |-> "text", user |-> c.user, text |-> c.text, round |-> r, read |-> round]
<1>2. /\ c.pc = "round" /\ ops[p] = <<>> /\ db' = db /\ ops' = ops
      /\ interrupted' = interrupted /\ unclean' = unclean /\ following' = following /\ erased' = erased
  BY <1>1 DEF ReadRound, AtRound, At, history, meta
<1>3. call' = [call EXCEPT ![p] = Idle] \/ call' = [call EXCEPT ![p] = d]
  BY <1>1 DEF ReadRound, Becomes
<1>4. d.pc = "text"
  OBVIOUS
<1> HIDE DEF d
<1>5. /\ d.pc \notin Entering \cup Deletion \cup {"unsubscribed", "choice"}
      /\ call[p].pc \notin Deletion \cup {"idle"}
  BY <1>1, <1>2, <1>4 DEF Entering, Deletion
<1>6. QED
  BY <1>2, <1>3, <1>5, EndsGoes, SilentGoes

LEMMA ReadTextGoes ==
  ASSUME RoundsInv, NEW p \in Proc, ReadText(p)
  PROVE  Goes(p)
<1>1. PICK c, old : c = call[p] /\ old = db[Text(c.text)]
  OBVIOUS
<1> DEFINE d == [pc |-> "tally", user |-> c.user, text |-> c.text, round |-> c.round,
                 read |-> c.read, old |-> old, winners |-> <<>>]
<1>2. /\ c.pc = "text" /\ ops[p] = <<>> /\ db' = db /\ ops' = ops
      /\ interrupted' = interrupted /\ unclean' = unclean /\ following' = following /\ erased' = erased
  BY <1>1 DEF ReadText, At, history, meta
<1>3. call' = [call EXCEPT ![p] = Idle] \/ call' = [call EXCEPT ![p] = d]
  BY <1>1 DEF ReadText, Becomes
<1>4. d.pc = "tally"
  OBVIOUS
<1> HIDE DEF d
<1>5. /\ d.pc \notin Entering \cup Deletion \cup {"unsubscribed", "choice"}
      /\ call[p].pc \notin Deletion \cup {"idle"}
  BY <1>1, <1>2, <1>4 DEF Entering, Deletion
<1>6. QED
  BY <1>2, <1>3, <1>5, EndsGoes, SilentGoes

LEMMA TallyGoes ==
  ASSUME RoundsInv, NEW p \in Proc, Tally(p)
  PROVE  Goes(p)
<1>1. PICK c : c = call[p]
  OBVIOUS
<1>2. /\ c.pc = "tally" /\ ops[p] = <<>> /\ db' = db /\ ops' = ops
      /\ interrupted' = interrupted /\ unclean' = unclean /\ following' = following /\ erased' = erased
  BY <1>1 DEF Tally, At, history, meta
<1>3. call' = [call EXCEPT ![p] = Idle] \/ \E w : call' = [call EXCEPT ![p] = [c EXCEPT !.winners = w]]
  <2>1. CASE Becomes(p, Idle)
    BY <2>1 DEF Becomes
  <2>2. CASE \E f : Becomes(p, [call[p] EXCEPT !.winners = Append(@, db[Fragment(f)].content)])
    BY <1>1, <2>2, Zenon DEF Becomes
  <2>3. QED
    BY <2>1, <2>2, Zenon DEF Tally
<1>4. TallyCall(c)
  BY <1>1, <1>2, SameCall DEF CallOK
<1>5. call[p].pc \notin Deletion \cup {"idle"}
  BY <1>1, <1>2 DEF Deletion
<1>6. CASE call' = [call EXCEPT ![p] = Idle]
  BY <1>2, <1>5, <1>6, EndsGoes
<1>7. CASE \E w : call' = [call EXCEPT ![p] = [c EXCEPT !.winners = w]]
  <2>1. PICK w : call' = [call EXCEPT ![p] = [c EXCEPT !.winners = w]]
    BY <1>7
  <2>2. PICK d : d = [c EXCEPT !.winners = w]
    OBVIOUS
  <2>3. d.pc = "tally" /\ call' = [call EXCEPT ![p] = d]
    BY <1>2, <1>4, <2>1, <2>2 DEF TallyCall
  <2>4. d.pc \notin Entering \cup Deletion \cup {"unsubscribed", "choice"}
    BY <2>3 DEF Entering, Deletion
  <2>5. QED
    BY <1>2, <1>5, <2>3, <2>4, SilentGoes
<1>8. QED
  BY <1>3, <1>6, <1>7

\* A call goes on with a batch to write.
LEMMA WritesGoes ==
  ASSUME NEW p \in Proc, NEW c, NEW b, Local(p, c, b), ops[p] = <<>>,
         interrupted' = interrupted, unclean' = unclean, following' = following, erased' = erased,
         call[p].pc \notin Deletion \cup {"idle"}, Carries(b), Links(b), Writes(p, b),
         c.pc \notin Entering \cup Deletion \cup {"unsubscribed", "choice"}
  PROVE  Goes(p)
<1>1. Going(p, c, b)
  BY DEF Going, Moves
<1>2. QED
  BY <1>1, Zenon DEF Goes

LEMMA OpenRoundGoes ==
  ASSUME RoundsInv, NEW p \in Proc, OpenRound(p)
  PROVE  Goes(p)
<1>0. PICK c, r, number : /\ c = call[p] /\ r = nextID
                          /\ number = IF Has(RoundCount(c.text)) THEN db[RoundCount(c.text)] + 1 ELSE 1
  OBVIOUS
<1> DEFINE d == [c EXCEPT !.pc = "opened", !.round = r, !.number = number]
           b == OpenRoundOps(c.text, r, number)
<1>1. /\ c.pc = "count" /\ Local(p, d, b) /\ ops[p] = <<>>
      /\ interrupted' = interrupted /\ unclean' = unclean /\ following' = following /\ erased' = erased
  BY <1>0 DEF OpenRound, At, Becomes, Local, history, meta
<1>2. d.pc = "opened"
  BY <1>0, <1>1, SameCall DEF CallOK, ProposeCall
<1> HIDE DEF d
<1>3. Carries(b) /\ Links(b)
  BY OpenRoundOpsLack, LacksFewer
<1>a. Writes(p, b)
  BY OpenRoundOpsOnly DEF Writes
<1> HIDE DEF b
<1>4. /\ d.pc \notin Entering \cup Deletion \cup {"unsubscribed", "choice"}
      /\ call[p].pc \notin Deletion \cup {"idle"}
  BY <1>0, <1>1, <1>2 DEF Entering, Deletion
<1>5. QED
  BY <1>1, <1>3, <1>4, <1>a, WritesGoes

\* A fragment, its index entry, and perhaps the round with the slot.
LEMMA FragmentBatch ==
  ASSUME NEW b, NEW n, NEW t, NEW s, NEW x, NEW y, Does(b, 1, x),
         ~x.tombstone, x.key = Fragment(n), ~y.tombstone, y.key = FragmentIndex(t, s, n),
         \A i \in DOMAIN b : \/ (i = 1 /\ b[i] = x) \/ (i = 2 /\ b[i] = y)
                             \/ (~b[i].tombstone /\ b[i].key[1] = "round")
  PROVE  Carries(b) /\ Links(b) /\ (IsSeq(b) => Only(b, {"round", "fragment", "fragmentindex"}))
<1>1. \A i, k : ~EraseAt(b, i, k)
  BY DEF EraseAt
<1>2. PutsAt(b, 1, Fragment(n))
  BY DEF Does, PutsAt
<1>3. x.key[1] = "fragment" /\ y.key[1] = "fragmentindex" /\ y.key[4] = n
  BY KeyIs
<1>4. \A i, k : PutsAt(b, i, k) => \/ (i = 1 /\ k = x.key) \/ (i = 2 /\ k = y.key) \/ k[1] = "round"
  BY DEF PutsAt
<1>5. ASSUME NEW i, NEW k, NEW f, PutsAt(b, i, k), Leads(k, f)
      PROVE  \E j : j < i /\ PutsAt(b, j, Fragment(f))
  <2>1. i = 2 /\ k = y.key
    BY <1>3, <1>4, <1>5 DEF Leads
  <2>2. f = n
    BY <1>3, <1>5, <2>1 DEF Leads
  <2>3. QED
    BY <1>2, <2>1, <2>2
<1>6. \A i, k : PutsAt(b, i, k) => k[1] \notin {"vote", "uservote"}
  BY <1>3, <1>4
<1>7. \A i \in DOMAIN b : b[i].key[1] \in {"round", "fragment", "fragmentindex"}
  BY <1>3
<1>8. QED
  BY <1>1, <1>5, <1>6, <1>7, Zenon DEF Carries, Links, Only

LEMMA AddFragmentGoes ==
  ASSUME RoundsInv, NEW p \in Proc, Resolves(p), ProposeCall(call[p]), call[p].pc \notin Deletion \cup {"idle"},
         ops[p] = <<>>, db' = db, interrupted' = interrupted, unclean' = unclean, following' = following, erased' = erased,
         NEW s0, AddFragment(p, s0, nextID)
  PROVE  Goes(p)
<1>0. PICK c, n, s : c = call[p] /\ n = nextID /\ s = s0
  OBVIOUS
<1> DEFINE t == c.text
           w == [text |-> t, slot |-> s, author |-> c.user, content |-> Typed(n, c.range.length)]
           o1 == Put(Fragment(n), w)
           o2 == Put(FragmentIndex(t, s, n), n)
           b == << o1, o2 >>
           d == [c EXCEPT !.pc = "proposed"]
<1>1. Local(p, d, b)
  BY <1>0 DEF AddFragment, WriteBatch, Local
<1>2. d.pc = "proposed"
  BY <1>0 DEF ProposeCall
<1>3. /\ ~o1.tombstone /\ o1.key = Fragment(n) /\ ~o2.tombstone /\ o2.key = FragmentIndex(t, s, n)
  BY OpIs
<1> HIDE DEF d, w, o1, o2
<1>4. IsSeq(b) /\ Does(b, 1, o1) /\ \A i \in DOMAIN b : (i = 1 /\ b[i] = o1) \/ (i = 2 /\ b[i] = o2)
  BY TwoAt
<1> HIDE DEF b, t
<1>5. Carries(b) /\ Links(b) /\ Only(b, {"round", "fragment", "fragmentindex"})
  BY <1>3, <1>4, FragmentBatch
<1>6. d.pc \notin Entering \cup Deletion \cup {"unsubscribed", "choice"}
  BY <1>2 DEF Entering, Deletion
<1>7. QED
  BY <1>1, <1>5, <1>6, WritesGoes DEF Writes

LEMMA ResolveSlotGoes ==
  ASSUME RoundsInv, NEW p \in Proc, Resolves(p), ProposeCall(call[p]), call[p].pc \notin Deletion \cup {"idle"},
         NEW c, c = call[p], NEW r, NEW round, ResolveSlot(p, r, round),
         ops[p] = <<>>, db' = db, interrupted' = interrupted, unclean' = unclean, following' = following, erased' = erased
  PROVE  Goes(p)
<1>1. CASE /\ ops' = [ops EXCEPT ![p] = SeedOps(c.text, c.content, c.range, nextID, nextID + 1, r, round)]
           /\ call' = [call EXCEPT ![p] = [c EXCEPT !.pc = "seeded", !.round = r, !.slot = nextID]]
  <2>1. PICK n, f : n = nextID /\ f = nextID + 1
    OBVIOUS
  <2> DEFINE t == c.text
             range == c.range
             w == [text |-> t, slot |-> n, author |-> Seed,
                   content |-> SubSeq(c.content, range.start + 1, range.end)]
             y == [round EXCEPT !.slots = Append(@, [id |-> n, start |-> range.start, end |-> range.end,
                                                     round |-> round.number])]
             o1 == Put(Fragment(f), w)
             o2 == Put(FragmentIndex(t, n, f), f)
             o3 == Put(Round(r), y)
             b == << o1, o2, o3 >>
             d == [c EXCEPT !.pc = "seeded", !.round = r, !.slot = n]
  <2>2. Local(p, d, b)
    BY <1>1, <2>1 DEF Local, SeedOps
  <2>3. d.pc = "seeded"
    BY DEF ProposeCall
  <2>4. /\ ~o1.tombstone /\ o1.key = Fragment(f) /\ ~o2.tombstone /\ o2.key = FragmentIndex(t, n, f)
        /\ ~o3.tombstone /\ o3.key[1] = "round"
    BY OpIs, KeyIs
  <2> HIDE DEF d, w, o1, o2, o3, y
  <2>5. /\ IsSeq(b) /\ Does(b, 1, o1)
        /\ \A i \in DOMAIN b : (i = 1 /\ b[i] = o1) \/ (i = 2 /\ b[i] = o2) \/ (i = 3 /\ b[i] = o3)
    BY ThreeAt
  <2> HIDE DEF b, t
  <2>6. Carries(b) /\ Links(b) /\ Only(b, {"round", "fragment", "fragmentindex"})
    BY <2>4, <2>5, FragmentBatch
  <2>7. d.pc \notin Entering \cup Deletion \cup {"unsubscribed", "choice"}
    BY <2>3 DEF Entering, Deletion
  <2>8. QED
    BY <2>2, <2>6, <2>7, WritesGoes DEF Writes
<1>2. ASSUME NEW s, AddFragment(p, s, nextID)
      PROVE  Goes(p)
  BY <1>2, AddFragmentGoes
<1>3. CASE Ends(p)
  BY <1>3, EndsGoes DEF Ends, Becomes
<1>4. QED
  BY <1>1, <1>2, <1>3 DEF ResolveSlot, Becomes

LEMMA ResolveGoes ==
  ASSUME RoundsInv, NEW p \in Proc, ResolveCurrent(p) \/ ResolveOpened(p) \/ AddFirstFragment(p)
  PROVE  Goes(p)
<1>1. /\ call[p].pc \in {"round", "opened", "seeded"} /\ ops[p] = <<>> /\ db' = db
      /\ interrupted' = interrupted /\ unclean' = unclean /\ following' = following /\ erased' = erased
  BY DEF ResolveCurrent, ResolveOpened, AddFirstFragment, AtRound, At, history, meta
<1>2. ProposeCall(call[p])
  BY SameCall DEF ResolveCurrent, ResolveOpened, AddFirstFragment, AtRound, At, CallOK, RoundCall
<1>3. call[p].pc \notin Deletion \cup {"idle"}
  BY <1>1 DEF Deletion
<1>4. PICK c : c = call[p]
  OBVIOUS
<1>a. Resolves(p)
  BY DEF Resolves
<1>5. CASE ResolveCurrent(p)
  <2>1. PICK r, round : r = call[p].round /\ round = db[Round(call[p].round)]
    OBVIOUS
  <2>2. ResolveSlot(p, r, round)
    BY <1>5, <2>1 DEF ResolveCurrent
  <2>3. QED
    BY <1>1, <1>2, <1>3, <1>4, <1>a, <2>2, ResolveSlotGoes
<1>6. CASE ResolveOpened(p)
  <2>1. PICK r, round : ResolveSlot(p, r, round)
    BY <1>6 DEF ResolveOpened
  <2>2. QED
    BY <1>1, <1>2, <1>3, <1>4, <1>a, <2>1, ResolveSlotGoes
<1>7. CASE AddFirstFragment(p)
  <2>1. PICK s : s = call[p].slot
    OBVIOUS
  <2>2. AddFragment(p, s, nextID)
    BY <1>7, <2>1 DEF AddFirstFragment
  <2>3. QED
    BY <1>1, <1>2, <1>3, <1>a, <2>2, AddFragmentGoes
<1>8. QED
  BY <1>5, <1>6, <1>7

LEMMA ScheduleGoes ==
  ASSUME RoundsInv, NEW p \in Proc, Schedule(p)
  PROVE  Goes(p)
<1>0. PICK c, r, v : c = call[p] /\ r = c.round /\ v = db[Round(r)]
  OBVIOUS
<1>1. /\ c.pc = "round" /\ c.for = "schedule" /\ ops[p] = <<>> /\ db' = db
      /\ interrupted' = interrupted /\ unclean' = unclean /\ following' = following /\ erased' = erased
  BY <1>0 DEF Schedule, AtRound, At, history, meta
<1> DEFINE o == Put(Round(r), [v EXCEPT !.scheduled = TRUE])
           b == << o >>
           d == [c EXCEPT !.pc = "scheduled"]
<1>2. Ends(p) \/ WriteBatch(p, "scheduled", b)
  BY <1>0 DEF Schedule
<1>3. call[p].pc \notin Deletion \cup {"idle"}
  BY <1>0, <1>1 DEF Deletion
<1>4. CASE Ends(p)
  BY <1>1, <1>3, <1>4, EndsGoes DEF Ends, Becomes
<1>5. CASE WriteBatch(p, "scheduled", b)
  <2>1. Local(p, d, b)
    BY <1>0, <1>1, <1>5 DEF WriteBatch, Local
  <2>2. d.pc = "scheduled"
    BY <1>0, <1>1, SameCall DEF CallOK, RoundCall, ProposeCall
  <2>3. o.key[1] = "round"
    BY OpIs, KeyIs
  <2> HIDE DEF d, o
  <2>4. IsSeq(b) /\ \A i \in DOMAIN b : b[i] = o
    BY OneAt
  <2> HIDE DEF b
  <2>5. Lacks(b, Linking \cup {"subscription"}) /\ Writes(p, b)
    BY <2>3, <2>4 DEF Lacks, Linking, Writes, Only
  <2>6. d.pc \notin Entering \cup Deletion \cup {"unsubscribed", "choice"}
    BY <2>2 DEF Entering, Deletion
  <2>7. QED
    BY <1>1, <1>3, <2>1, <2>5, <2>6, LacksFewer, WritesGoes
<1>6. QED
  BY <1>2, <1>4, <1>5

LEMMA ForkGoes ==
  ASSUME RoundsInv, NEW p \in Proc, Fork(p)
  PROVE  Goes(p)
<1>0. PICK c, new : c = call[p] /\ new = nextID
  OBVIOUS
<1> DEFINE t == c.text
           w == Put(Text(new), [c.old EXCEPT !.previous = t,
                                  !.content = SpliceContent(@, c.read.slots, WinningContent(c))])
           x == Put(Round(c.round), [c.read EXCEPT !.status = "closed"])
           y == Delete(CurrentRound(t))
           z == Put(SupersededBy(t), new)
           a == << w, x, y, z >>
           o == OpenRoundOps(new, new + 1, c.read.number + 1)
           g == MoveTagOps(c.old.tags, t, new)
           d == [c EXCEPT !.pc = "closed"]
<1>1. /\ c.pc = "tally" /\ ops[p] = <<>> /\ db' = db
      /\ interrupted' = interrupted /\ unclean' = unclean /\ following' = following /\ erased' = erased
  BY <1>0 DEF Fork, At, meta
<1>2. TallyCall(c)
  BY <1>0, <1>1, SameCall DEF CallOK
<1>3. PICK users \in SetToSeqs(Subscribers(t)) :
        WriteBatch(p, "closed", << w, x, y, z >> \o o \o g \o MoveSubscriptionOps(users, t, new))
  BY <1>0 DEF Fork, NextRoundOps
<1> DEFINE m == MoveSubscriptionOps(users, t, new)
<1>4. Local(p, d, a \o o \o g \o m)
  BY <1>0, <1>1, <1>3 DEF WriteBatch, Local
<1>5. d.pc = "closed"
  BY <1>2 DEF TallyCall
<1>6. IsSeq(m) /\ Carries(m) /\ Lacks(m, Linking)
  <2>1. IsSeq(users)
    BY SubscribersAre
  <2>2. /\ Mild(m) /\ \A i \in DOMAIN m : m[i].key[1] \in {"subscription", "subscriptionindex"}
        /\ Carries(m)
    BY <2>1, MovedCarry, MoveSubscriptionOpsAreMild
  <2> HIDE DEF m
  <2>3. QED
    BY <2>2 DEF Mild, Lacks, Linking
<1>7. Lacks(g, Linking \cup {"subscription"})
  <2>1. Mild(g) /\ \A i \in DOMAIN g : g[i].key[1] = "tagindex"
    BY <1>2, MoveTagOpsAreMild DEF TallyCall, IsText
  <2> HIDE DEF g
  <2>2. QED
    BY <2>1 DEF Mild, Lacks, Linking
<1>8. Lacks(o, Linking \cup {"subscription"})
  BY OpenRoundOpsLack
<1> HIDE DEF d, m, g, o
<1>9. Lacks(a, Linking \cup {"subscription"})
  <2>1. /\ w.key[1] = "text" /\ x.key[1] = "round" /\ y.key[1] = "currentround" /\ z.key[1] = "supersededby"
    BY OpIs, KeyIs
  <2> HIDE DEF w, x, y, z
  <2>2. /\ IsSeq(a)
        /\ \A i \in DOMAIN a : a[i] = w \/ a[i] = x \/ a[i] = y \/ a[i] = z
    BY FourAt
  <2> HIDE DEF a
  <2>3. \A i \in DOMAIN a : a[i].key[1] \in {"text", "round", "currentround", "supersededby"}
    BY <2>1, <2>2
  <2>4. \A i \in DOMAIN a : a[i].key[1] \notin Linking \cup {"subscription"}
    BY <2>3 DEF Linking
  <2>5. QED
    BY <2>2, <2>4 DEF Lacks
<1> HIDE DEF a
<1> DEFINE e == a \o o
           h == e \o g
           b == h \o m
<1>10. Lacks(e, Linking \cup {"subscription"})
  BY <1>8, <1>9, LacksConcat
<1> HIDE DEF e
<1>11. Lacks(h, Linking \cup {"subscription"})
  BY <1>7, <1>10, LacksConcat
<1> HIDE DEF h
<1>12. IsSeq(h) /\ Carries(h) /\ Lacks(h, Linking)
  BY <1>11, LacksFewer
<1>13. Carries(b)
  BY <1>6, <1>12, CarriesConcat
<1>14. Links(b)
  <2>1. Lacks(b, Linking)
    BY <1>6, <1>12, LacksConcat
  <2>2. QED
    BY <2>1, LacksLinks
<1>15. Local(p, d, b)
  BY <1>4 DEF b, h, e
<1> HIDE DEF b
<1>16. /\ d.pc \notin Entering \cup Deletion \cup {"unsubscribed", "choice"}
       /\ call[p].pc \notin Deletion \cup {"idle"}
  BY <1>0, <1>1, <1>5 DEF Entering, Deletion
<1>17. Writes(p, b)
  BY DEF Writes
<1>18. QED
  BY <1>1, <1>13, <1>14, <1>15, <1>16, <1>17, WritesGoes

\* All steps of a call that goes on, but those that write votes or delete.
LEMMA StepGoes ==
  ASSUME RoundsInv, NEW p \in Proc,
         \/ ReadPointer(p) \/ CheckSuperseded(p) \/ OpenRound(p) \/ ResolveCurrent(p)
         \/ ResolveOpened(p) \/ AddFirstFragment(p) \/ Schedule(p) \/ RoundGone(p)
         \/ ReadRound(p) \/ ReadText(p) \/ Tally(p) \/ Fork(p)
  PROVE  Goes(p)
BY ReadPointerGoes, CheckSupersededGoes, OpenRoundGoes, ResolveGoes, ScheduleGoes, RoundGoneGoes,
   ReadRoundGoes, ReadTextGoes, TallyGoes, ForkGoes

-----------------------------------------------------------------------------
(* Calls that begin.                                                       *)

\* Only users, when they act again, are no longer counted among those who were deleted.
Forgets == erased' \subseteq erased /\ \A x \in erased : x \in erased' \/ x \in User

LEMMA ArrivesForgets ==
  ASSUME NEW p \in Proc, NEW u \in User, NEW kind, Arrives(p, u, kind)
  PROVE  Forgets
BY DEF Arrives, Forgets

\* What it writes, if anything, when it begins.
Creates(p) == \E u \in User, tags \in TagSets : CreateText(p, u, tags)
Begun(p, b) == Only(b, {"subscription", "subscriptionindex"}) \/ Creates(p)

\* A call begins that deletes nothing; who enters is subscribed by its batch.
Starting(p, c, b, kind) ==
  /\ Begins(p, c, b, kind) /\ following' \subseteq following
  /\ \A u : Enters(c, u) => \E i, k : PutsAt(b, i, k) /\ SubscriptionOf(k, u)
  /\ \A u : Leaves(c, u) => u \notin following'
  /\ c.pc \in Entering \cup {"unsubscribed"} /\ ~Overlap => ~Busy(c.user)
  /\ c.pc \notin Deletion
  /\ GivesUp(c, b) \/ Carries(b)
  /\ Links(b)
  /\ c.pc = "choice" => Has(Fragment(c.fragment))
  /\ Forgets
  /\ Begun(p, b)
Starts(p) == \E c, b, kind : Starting(p, c, b, kind)

LEMMA EmptyStarts ==
  ASSUME RoundsInv, WholeInv, NEW p \in Proc, NEW c, NEW kind, db' = db, ops' = ops,
         interrupted' = interrupted, unclean' = (unclean \/ Meets(p, kind)), following' = following,
         call' = [call EXCEPT ![p] = c], call[p].pc = "idle", c.pc \in {"pointer", "choice"},
         c.pc = "choice" => Has(Fragment(c.fragment)),
         Forgets
  PROVE  Starts(p)
<1>1. ops[p] = <<>> /\ ops = [ops EXCEPT ![p] = ops[p]]
  BY IdleHasNoBatch, OwnBatchIsKnown
<1>2. Begins(p, c, <<>>, kind)
  BY <1>1 DEF Begins, Moves, Local
<1>3. Carries(<<>>) /\ Links(<<>>)
  BY DEF Carries, Links, PutsAt, EraseAt
<1>4. c.pc \notin Entering \cup Deletion \cup {"unsubscribed"}
  BY DEF Entering, Deletion
<1>5. Begun(p, <<>>)
  BY EmptyIsSeq DEF Begun, Only
<1>6. Starting(p, c, <<>>, kind)
  BY <1>2, <1>3, <1>4, <1>5 DEF Starting, Enters, Leaves
<1>7. QED
  BY <1>6, Zenon DEF Starts

LEMMA ReadsStart ==
  ASSUME RoundsInv, WholeInv, NEW p \in Proc, NEW u, NEW t, NEW f, NEW range,
         \/ u \in User /\ (CastVote(p, u, f) \/ ProposeEdit(p, u, t, range)
                            \/ ScheduleRoundClose(p, u, t) \/ CloseRound(p, u, t))
         \/ CloseDue(p, t)
  PROVE  Starts(p)
<1>a. Forgets
  <2>1. CASE CloseDue(p, t)
    BY <2>1 DEF CloseDue, Forgets
  <2>2. CASE u \in User /\ \E kind : Arrives(p, u, kind)
    BY <2>2, ArrivesForgets
  <2>3. QED
    BY <2>1, <2>2, Zenon DEF CastVote, ProposeEdit, ScheduleRoundClose, CloseRound
<1>1. CASE CastVote(p, u, f)
  <2> DEFINE c == [pc |-> "choice", user |-> u, fragment |-> f,
                   text |-> db[Fragment(f)].text, slot |-> db[Fragment(f)].slot]
  <2>1. c.pc = "choice" /\ c.fragment = f /\ call' = [call EXCEPT ![p] = c]
    BY <1>1 DEF CastVote, Becomes
  <2> HIDE DEF c
  <2>2. /\ Has(Fragment(f)) /\ db' = db /\ ops' = ops /\ interrupted' = interrupted /\ following' = following
        /\ call[p].pc = "idle" /\ unclean' = (unclean \/ Meets(p, "vote"))
    BY <1>1 DEF CastVote, Arrives, history
  <2>3. QED
    BY <1>a, <2>1, <2>2, EmptyStarts
<1>2. CASE ProposeEdit(p, u, t, range)
  <2> DEFINE c == [pc |-> "pointer", for |-> "propose", user |-> u, text |-> t, round |-> 0,
                   content |-> db[Text(t)].content, range |-> range, number |-> 0, slot |-> 0]
  <2>1. c.pc = "pointer" /\ call' = [call EXCEPT ![p] = c]
    BY <1>2 DEF ProposeEdit, Becomes
  <2> HIDE DEF c
  <2>2. /\ db' = db /\ ops' = ops /\ interrupted' = interrupted /\ following' = following
        /\ call[p].pc = "idle" /\ unclean' = (unclean \/ Meets(p, "propose"))
    BY <1>2 DEF ProposeEdit, Arrives, history
  <2>3. QED
    BY <1>a, <2>1, <2>2, EmptyStarts
<1>3. CASE ScheduleRoundClose(p, u, t)
  <2> DEFINE c == [pc |-> "pointer", for |-> "schedule", user |-> u, text |-> t, round |-> 0]
  <2>1. c.pc = "pointer" /\ call' = [call EXCEPT ![p] = c]
    BY <1>3 DEF ScheduleRoundClose, Becomes
  <2> HIDE DEF c
  <2>2. /\ db' = db /\ ops' = ops /\ interrupted' = interrupted /\ following' = following
        /\ call[p].pc = "idle" /\ unclean' = (unclean \/ Meets(p, "schedule"))
    BY <1>3 DEF ScheduleRoundClose, Arrives, history
  <2>3. QED
    BY <1>a, <2>1, <2>2, EmptyStarts
<1>4. CASE CloseRound(p, u, t) \/ CloseDue(p, t)
  <2>1. PICK w : StartClose(p, w, t)
    BY <1>4 DEF CloseRound, CloseDue
  <2> DEFINE c == [pc |-> "pointer", for |-> "close", user |-> w, text |-> t, round |-> 0]
  <2>2. c.pc = "pointer" /\ call' = [call EXCEPT ![p] = c]
    BY <2>1 DEF StartClose, Becomes
  <2> HIDE DEF c
  <2>3. /\ db' = db /\ ops' = ops /\ interrupted' = interrupted /\ following' = following
        /\ call[p].pc = "idle" /\ unclean' = (unclean \/ Meets(p, "close"))
    BY <1>4 DEF CloseRound, CloseDue, Arrives, history
  <2>4. QED
    BY <1>a, <2>2, <2>3, EmptyStarts
<1>5. QED
  BY <1>1, <1>2, <1>3, <1>4

LEMMA SubscribeStarts ==
  ASSUME RoundsInv, WholeInv, NEW p \in Proc, NEW u \in User, NEW t, Subscribe(p, u, t)
  PROVE  Starts(p)
<1> DEFINE c == [pc |-> "subscribed", user |-> u]
           x == Put(Subscription(t, u), u)
           y == Put(SubscriptionIndex(u, t), t)
           b == << x, y >>
<1>1. ops[p] = <<>>
  BY IdleHasNoBatch DEF Subscribe, Arrives
<1>2. /\ Begins(p, c, b, "subscribe") /\ following' = following
      /\ ~Overlap => ~Busy(u)
  BY <1>1 DEF Subscribe, Becomes, Begins, Moves, Local, Arrives, history
<1>3. c.pc = "subscribed" /\ c.user = u
  OBVIOUS
<1>4. /\ ~x.tombstone /\ x.key = Subscription(t, u) /\ ~y.tombstone /\ y.key = SubscriptionIndex(u, t)
  BY OpIs
<1> HIDE DEF c, x, y
<1>5. IsSeq(b) /\ Does(b, 1, x) /\ \A i \in DOMAIN b : b[i] = x \/ b[i] = y
  BY TwoAt
<1> HIDE DEF b
<1>6. /\ x.key[1] = "subscription" /\ y.key[1] = "subscriptionindex" /\ SubscriptionOf(x.key, u)
  BY <1>4 DEF Subscription, SubscriptionIndex, SubscriptionOf
<1>7. PutsAt(b, 1, x.key)
  BY <1>4, <1>5 DEF Does, PutsAt
<1>8. Carries(b)
  BY <1>4, <1>5 DEF Carries, EraseAt
<1>9. Links(b)
  <2>1. Lacks(b, Linking)
    BY <1>5, <1>6 DEF Lacks, Linking
  <2>2. QED
    BY <2>1, LacksLinks
<1>10. \A v : Enters(c, v) => v = u
  BY <1>3 DEF Enters
<1>11. c.pc \notin Deletion /\ \A v : ~Leaves(c, v)
  BY <1>3 DEF Deletion, Leaves
<1>a. Forgets
  BY ArrivesForgets DEF Subscribe
<1>b. Begun(p, b)
  BY <1>5, <1>6 DEF Begun, Only
<1>12. Starting(p, c, b, "subscribe")
  BY <1>a, <1>b, <1>2, <1>3, <1>6, <1>7, <1>8, <1>9, <1>10, <1>11 DEF Starting
<1>13. QED
  BY <1>12, Zenon DEF Starts

LEMMA UnsubscribeStarts ==
  ASSUME RoundsInv, WholeInv, NEW p \in Proc, NEW u \in User, NEW t, Unsubscribe(p, u, t)
  PROVE  Starts(p)
<1> DEFINE c == [pc |-> "unsubscribed", user |-> u]
           x == Delete(Subscription(t, u))
           y == Delete(SubscriptionIndex(u, t))
           b == << x, y >>
<1>1. ops[p] = <<>>
  BY IdleHasNoBatch DEF Unsubscribe, Arrives
<1>2. /\ Begins(p, c, b, "unsubscribe") /\ following' = following \ {u}
      /\ ~Overlap => ~Busy(u)
  BY <1>1 DEF Unsubscribe, Becomes, Begins, Moves, Local, Arrives
<1>3. c.pc = "unsubscribed" /\ c.user = u
  OBVIOUS
<1>4. /\ x.tombstone /\ x.key = Subscription(t, u) /\ y.tombstone /\ y.key = SubscriptionIndex(u, t)
  BY OpIs
<1> HIDE DEF c, x, y
<1>5. IsSeq(b) /\ \A i \in DOMAIN b : b[i] = x \/ b[i] = y
  BY TwoAt
<1> HIDE DEF b
<1>6. /\ x.key[1] = "subscription" /\ x.key[3] = u /\ y.key[1] = "subscriptionindex"
  BY <1>4 DEF Subscription, SubscriptionIndex
<1>7. GivesUp(c, b)
  <2> SUFFICES ASSUME NEW i, NEW k, NEW v, EraseAt(b, i, k), SubscriptionOf(k, v)
               PROVE  v = u
    BY <1>3, Zenon DEF GivesUp
  <2>1. k = x.key \/ k = y.key
    BY <1>5 DEF EraseAt
  <2>2. QED
    BY <1>6, <2>1 DEF SubscriptionOf
<1>8. Links(b)
  <2>1. Lacks(b, Linking)
    BY <1>5, <1>6 DEF Lacks, Linking
  <2>2. QED
    BY <2>1, LacksLinks
<1>9. \A v : Leaves(c, v) => v = u
  BY <1>3 DEF Leaves
<1>10. c.pc \notin Deletion /\ \A v : ~Enters(c, v)
  BY <1>3 DEF Deletion, Enters, Entering
<1>a. Forgets
  BY ArrivesForgets DEF Unsubscribe
<1>b. Begun(p, b)
  BY <1>5, <1>6 DEF Begun, Only, Subscription
<1>11. Starting(p, c, b, "unsubscribe")
  BY <1>a, <1>b, <1>2, <1>3, <1>7, <1>8, <1>9, <1>10 DEF Starting
<1>12. QED
  BY <1>11, Zenon DEF Starts

LEMMA CreateTextStarts ==
  ASSUME RoundsInv, WholeInv, NEW p \in Proc, NEW u \in User, NEW tags \in TagSets, CreateText(p, u, tags)
  PROVE  Starts(p)
<1>0. PICK t, r : t = nextID /\ r = nextID + 1
  OBVIOUS
<1> DEFINE w == Put(Text(t), [content |-> Typed(t, Length), previous |-> 0, createdBy |-> u, tags |-> tags])
           x == Put(Subscription(t, u), u)
           y == Put(SubscriptionIndex(u, t), t)
           a == << w, x, y >>
           o == OpenRoundOps(t, r, 1)
           g == TagOps(t, tags)
           c == [pc |-> "created", user |-> u]
<1>1. ops[p] = <<>>
  BY IdleHasNoBatch DEF CreateText, Arrives
<1>2. /\ Begins(p, c, a \o o \o g, "create") /\ following' = following
      /\ ~Overlap => ~Busy(u)
  BY <1>0, <1>1 DEF CreateText, Becomes, Begins, Moves, Local, Arrives, history
<1>3. c.pc = "created" /\ c.user = u
  OBVIOUS
<1>4. /\ ~w.tombstone /\ w.key = Text(t) /\ ~x.tombstone /\ x.key = Subscription(t, u)
      /\ ~y.tombstone /\ y.key = SubscriptionIndex(u, t)
  BY OpIs
<1> HIDE DEF c, w, x, y
<1>5. /\ IsSeq(a) /\ Does(a, 2, x)
      /\ \A i \in DOMAIN a : a[i] = w \/ a[i] = x \/ a[i] = y
  BY ThreeAt
<1> HIDE DEF a
<1>6. /\ w.key[1] = "text" /\ x.key[1] = "subscription" /\ y.key[1] = "subscriptionindex"
      /\ SubscriptionOf(x.key, u)
  BY <1>4 DEF Text, Subscription, SubscriptionIndex, SubscriptionOf
<1>7. PutsAt(a, 2, x.key)
  BY <1>4, <1>5 DEF Does, PutsAt
<1>8. Carries(a) /\ Lacks(a, Linking)
  BY <1>4, <1>5, <1>6 DEF Carries, EraseAt, Lacks, Linking
<1>9. Lacks(g, Linking \cup {"subscription"})
  <2>1. IsFiniteSet(tags)
    BY TagsAssumption
  <2>2. Mild(g) /\ \A i \in DOMAIN g : g[i].key[1] = "tagindex"
    BY <2>1, TagOpsAreMild
  <2> HIDE DEF g
  <2>3. QED
    BY <2>2 DEF Mild, Lacks, Linking
<1>10. Lacks(o, Linking \cup {"subscription"})
  BY OpenRoundOpsLack
<1> HIDE DEF o, g
<1>11. Carries(o) /\ Lacks(o, Linking) /\ IsSeq(o) /\ Carries(g) /\ Lacks(g, Linking) /\ IsSeq(g)
  BY <1>9, <1>10, LacksFewer
<1> DEFINE e == a \o o
           b == e \o g
<1>12. Carries(e) /\ Lacks(e, Linking)
  BY <1>5, <1>8, <1>11, CarriesConcat, LacksConcat
<1>13. PutsAt(e, 2, x.key) /\ IsSeq(e)
  BY <1>5, <1>7, <1>11, ConcatAt DEF PutsAt
<1>14. Begins(p, c, b, "create")
  BY <1>2
<1> HIDE DEF e
<1>15. Carries(b) /\ Lacks(b, Linking)
  BY <1>11, <1>12, <1>13, CarriesConcat, LacksConcat
<1>16. PutsAt(b, 2, x.key)
  BY <1>11, <1>13, ConcatAt DEF PutsAt
<1> HIDE DEF b
<1>17. Links(b)
  BY <1>15, LacksLinks
<1>18. \A v : Enters(c, v) => v = u
  BY <1>3 DEF Enters
<1>19. c.pc \notin Deletion /\ \A v : ~Leaves(c, v)
  BY <1>3 DEF Deletion, Leaves
<1>a. Forgets
  BY ArrivesForgets DEF CreateText
<1>b. Begun(p, b)
  BY DEF Begun, Creates
<1>20. Starting(p, c, b, "create")
  BY <1>a, <1>b, <1>2, <1>3, <1>6, <1>14, <1>15, <1>16, <1>17, <1>18, <1>19 DEF Starting
<1>21. QED
  BY <1>20, Zenon DEF Starts

-----------------------------------------------------------------------------
(* The invariant of those who follow a text holds.                         *)

LEMMA GoesFollow ==
  ASSUME RoundsInv, FollowInv, NEW p \in Proc, Goes(p)
  PROVE  FollowInv'
<1>1. PICK c, b : Going(p, c, b)
  BY Zenon DEF Goes
<1>2. /\ Moves(p, c, b) /\ following' = following /\ call[p].pc # "idle"
      /\ c.pc \notin Entering /\ c.pc # "unsubscribed" /\ c.pc \notin Deletion /\ Carries(b)
  BY <1>1 DEF Going
<1>3. QED
  BY <1>2, FollowGoes

LEMMA StartsFollow ==
  ASSUME RoundsInv, FollowInv, NEW p \in Proc, Starts(p)
  PROVE  FollowInv'
<1>1. PICK c, b, kind : Starting(p, c, b, kind)
  BY Zenon DEF Starts
<1>2. /\ Begins(p, c, b, kind) /\ following' \subseteq following
      /\ \A u : Enters(c, u) => \E i, k : PutsAt(b, i, k) /\ SubscriptionOf(k, u)
      /\ \A u : Leaves(c, u) => u \notin following'
      /\ c.pc \in Entering \cup {"unsubscribed"} /\ ~Overlap => ~Busy(c.user)
      /\ c.pc \in Deletion => kind = "delete" /\ following' = {}
      /\ c.pc \in Deletion \/ GivesUp(c, b) \/ Carries(b)
  BY <1>1, Zenon DEF Starting
<1>3. QED
  BY <1>2, FollowBegins

LEMMA ReadChoiceFollow ==
  ASSUME RoundsInv, FollowInv, NEW p \in Proc, ReadChoice(p)
  PROVE  FollowInv'
<1>1. PICK c : c = call[p]
  OBVIOUS
<1>2. PICK choice, other, b : /\ choice = UserChoice(c.text, c.slot, c.user) /\ other = db[choice]
                              /\ b = VoteOps(c.fragment, choice, c.user)
  OBVIOUS
<1> DEFINE d == [c EXCEPT !.pc = "voted"]
           x == Put(Vote(c.fragment, c.user), c.user)
           y == Put(choice, c.fragment)
           z == Delete(Vote(other, c.user))
<1>3. c.pc = "choice" /\ VoteCall(c)
  BY <1>1, SameCall DEF ReadChoice, At, CallOK
<1>4. Moves(p, d, b) /\ following' = following
  BY <1>1, <1>2 DEF ReadChoice, At, WriteBatch, Local, Moves, history, meta
<1>5. d.pc = "voted"
  BY <1>3 DEF VoteCall
<1>6. b = << x, y >> \o << z >> \/ b = << x, y >> \o <<>>
  BY <1>2 DEF VoteOps
<1>7. x.key = Vote(c.fragment, c.user) /\ y.key = choice /\ z.key = Vote(other, c.user)
  BY OpIs
<1>8. x.key[1] = "vote" /\ y.key[1] = "uservote" /\ z.key[1] = "vote"
  BY <1>2, <1>7, KeyIs
<1> HIDE DEF d, x, y, z
<1>9. Lacks(<< x, y >>, {"subscription"})
  <2> DEFINE e == << x, y >>
  <2>1. IsSeq(e) /\ \A i \in DOMAIN e : (i = 1 /\ e[i] = x) \/ (i = 2 /\ e[i] = y)
    BY TwoAt
  <2> HIDE DEF e
  <2>2. Lacks(e, {"subscription"})
    BY <1>8, <2>1 DEF Lacks
  <2>3. QED
    BY <2>2 DEF e
<1>10. Lacks(<< z >>, {"subscription"}) /\ Lacks(<<>>, {"subscription"})
  <2> DEFINE e == << z >>
  <2>1. IsSeq(e) /\ \A i \in DOMAIN e : i = 1 /\ e[i] = z
    BY OneAt
  <2> HIDE DEF e
  <2>2. Lacks(e, {"subscription"})
    BY <1>8, <2>1 DEF Lacks
  <2>3. Lacks(<<>>, {"subscription"})
    BY EmptyIsSeq DEF Lacks
  <2>4. QED
    BY <2>2, <2>3 DEF e
<1>11. Lacks(b, {"subscription"})
  BY <1>6, <1>9, <1>10, LacksConcat
<1>12. Carries(b) /\ call[p].pc # "idle"
  BY <1>1, <1>3, <1>11, LacksCarries
<1>13. d.pc \notin Entering /\ d.pc # "unsubscribed" /\ d.pc \notin Deletion
  BY <1>5 DEF Entering, Deletion
<1>14. QED
  BY <1>4, <1>12, <1>13, FollowGoes

\* A deletion goes on or ends.
Erasing(p, c, b) ==
  /\ Moves(p, c, b) /\ unclean' = unclean /\ following' = following
  /\ call[p].pc \in Deletion
  /\ c.pc \in Deletion \/ (c.pc = "idle" /\ b = <<>>)

LEMMA ErasingFollow ==
  ASSUME RoundsInv, FollowInv, NEW p \in Proc, NEW c, NEW b, Erasing(p, c, b)
  PROVE  FollowInv'
<1>1. /\ Moves(p, c, b) /\ following' = following /\ call[p].pc # "idle"
      /\ c.pc \notin Entering /\ c.pc # "unsubscribed" /\ (c.pc \in Deletion => call[p].pc \in Deletion)
  BY DEF Erasing, Entering, Deletion
<1>2. c.pc \in Deletion \/ Carries(b)
  BY EmptyCarries DEF Erasing
<1>3. QED
  BY <1>1, <1>2, FollowGoes

LEMMA CollectFollow ==
  ASSUME RoundsInv, FollowInv, NEW p \in Proc, Collect(p)
  PROVE  FollowInv'
<1> DEFINE c == call[p]
           scan == Head(c.scans)
<1>1. /\ c.pc = "collect" /\ db' = db /\ DeleteCall(c) /\ ops[p] = <<>>
      /\ interrupted' = interrupted /\ unclean' = unclean /\ following' = following
  BY SameCall DEF Collect, At, CallOK, history
<1>2. PICK keys \in SetToSeqs(Found(scan)) :
        LET batch == c.batch \o OpsBefore(scan) \o Each(keys, LAMBDA k : OpsFor(scan, k))
            scans == ScansFor(scan, keys) \o Tail(c.scans)
            after == IF c.target \in User THEN "next" ELSE "deleted"
        IN  IF scans = <<>>
              THEN /\ ops' = [ops EXCEPT ![p] = batch]
                   /\ Becomes(p, [c EXCEPT !.pc = after, !.batch = <<>>, !.scans = <<>>])
              ELSE /\ Becomes(p, [c EXCEPT !.batch = batch, !.scans = scans])
                   /\ UNCHANGED ops
  BY Zenon DEF Collect
<1> DEFINE batch == c.batch \o OpsBefore(scan) \o Each(keys, LAMBDA k : OpsFor(scan, k))
           scans == ScansFor(scan, keys) \o Tail(c.scans)
           after == IF c.target \in User THEN "next" ELSE "deleted"
           last == [c EXCEPT !.pc = after, !.batch = <<>>, !.scans = <<>>]
           more == [c EXCEPT !.batch = batch, !.scans = scans]
<1>3. \/ call' = [call EXCEPT ![p] = last] /\ ops' = [ops EXCEPT ![p] = batch]
      \/ call' = [call EXCEPT ![p] = more] /\ ops' = ops
  BY <1>2, Zenon DEF Becomes
<1> HIDE DEF batch, scans
<1>4. last.pc \in {"next", "deleted"} /\ more.pc = "collect"
  BY <1>1 DEF DeleteCall
<1>5. PICK b, d, e : b = batch /\ d = last /\ e = more
  OBVIOUS
<1>6. call[p].pc \in Deletion /\ d.pc \in Deletion /\ e.pc \in Deletion
  BY <1>1, <1>4, <1>5 DEF Deletion
<1> HIDE DEF last, more
<1>7. CASE call' = [call EXCEPT ![p] = last] /\ ops' = [ops EXCEPT ![p] = batch]
  <2>1. Moves(p, d, b)
    BY <1>1, <1>5, <1>7 DEF Moves, Local
  <2>2. Erasing(p, d, b)
    BY <1>1, <1>6, <2>1 DEF Erasing
  <2>3. QED
    BY <2>2, ErasingFollow
<1>8. CASE call' = [call EXCEPT ![p] = more] /\ ops' = ops
  <2>1. ops = [ops EXCEPT ![p] = ops[p]]
    BY OwnBatchIsKnown
  <2>2. Moves(p, e, <<>>)
    BY <1>1, <1>5, <1>8, <2>1 DEF Moves, Local
  <2>3. Erasing(p, e, <<>>)
    BY <1>1, <1>6, <2>2 DEF Erasing
  <2>4. QED
    BY <2>3, ErasingFollow
<1>9. QED
  BY <1>3, <1>7, <1>8

LEMMA NextCascadeFollow ==
  ASSUME RoundsInv, FollowInv, NEW p \in Proc, NextCascade(p)
  PROVE  FollowInv'
<1>1. PICK c : c = call[p]
  OBVIOUS
<1>2. /\ c.pc = "next" /\ db' = db /\ ops' = ops /\ ops[p] = <<>> /\ DeleteCall(c)
      /\ interrupted' = interrupted /\ unclean' = unclean /\ following' = following
  BY <1>1, SameCall DEF NextCascade, At, CallOK, history
<1> DEFINE d == [c EXCEPT !.pc = "collect", !.scans = Head(c.then), !.then = Tail(c.then)]
<1>3. call' = [call EXCEPT ![p] = Idle] \/ call' = [call EXCEPT ![p] = d]
  BY <1>1 DEF NextCascade, Becomes
<1>4. d.pc = "collect" /\ Idle.pc = "idle"
  BY <1>2 DEF DeleteCall, Idle
<1> HIDE DEF d
<1>5. PICK e : e \in {d, Idle} /\ call' = [call EXCEPT ![p] = e]
  BY <1>3
<1>6. ops = [ops EXCEPT ![p] = ops[p]]
  BY OwnBatchIsKnown
<1>7. Moves(p, e, <<>>)
  BY <1>2, <1>5, <1>6 DEF Moves, Local
<1>8. call[p].pc \in Deletion /\ (e.pc \in Deletion \/ e.pc = "idle")
  BY <1>1, <1>2, <1>4, <1>5 DEF Deletion
<1>9. Erasing(p, e, <<>>)
  BY <1>2, <1>7, <1>8 DEF Erasing
<1>10. QED
  BY <1>9, ErasingFollow

LEMMA DeletionFollow ==
  ASSUME RoundsInv, WholeInv, FollowInv, NEW p \in Proc, NEW u, NEW t, DeleteText(p, u, t) \/ DeleteUser(p, u, t)
  PROVE  FollowInv'
<1>1. PICK batch, scans, then :
        /\ StartDelete(p, u, t, batch, scans, then) /\ following' = {}
        /\ db' = db /\ ops' = ops /\ interrupted' = interrupted
  BY Zenon DEF DeleteText, DeleteUser
<1> DEFINE c == [pc |-> "collect", user |-> u, target |-> t, batch |-> batch, scans |-> scans, then |-> then]
<1>2. /\ call' = [call EXCEPT ![p] = c] /\ call[p].pc = "idle"
      /\ unclean' = (unclean \/ Meets(p, "delete"))
  BY <1>1, Zenon DEF StartDelete, Becomes, Arrives
<1>3. c.pc = "collect"
  OBVIOUS
<1> HIDE DEF c
<1>4. ops[p] = <<>> /\ ops = [ops EXCEPT ![p] = ops[p]]
  BY <1>2, IdleHasNoBatch, OwnBatchIsKnown
<1>5. Begins(p, c, <<>>, "delete")
  BY <1>1, <1>2, <1>4 DEF Begins, Moves, Local
<1>6. /\ following' \subseteq following /\ \A v : ~Enters(c, v) /\ ~Leaves(c, v)
      /\ c.pc \notin Entering \cup {"unsubscribed"} /\ c.pc \in Deletion
  BY <1>1, <1>3 DEF Enters, Leaves, Entering, Deletion
<1>7. QED
  BY <1>1, <1>5, <1>6, FollowBegins

LEMMA UnchangedFollow ==
  ASSUME FollowInv, db' = db, call' = call, ops' = ops, following' = following,
         interrupted' = interrupted, unclean' = unclean
  PROVE  FollowInv'
BY DEF FollowInv, FollowOK, Alone, Deleting, Follows, Enters, Leaves, GivesUp, Carries, Has

LEMMA InitFollow == Init => FollowInv
<1> SUFFICES ASSUME Init
             PROVE  FollowOK
  BY DEF FollowInv
<1>1. following = {} /\ \A p \in Proc : call[p] = Idle /\ ops[p] = <<>>
  BY DEF Init
<1>2. \A p \in Proc : call[p].pc = "idle"
  BY <1>1 DEF Idle
<1>3. \A p \in Proc : ~Deleting(p) /\ \A u : ~Enters(call[p], u) /\ ~Leaves(call[p], u)
  BY <1>2 DEF Deleting, Enters, Leaves, Entering
<1>4. \A p \in Proc : Carries(ops[p])
  BY <1>1, EmptyCarries
<1>5. QED
  BY <1>1, <1>3, <1>4, Zenon DEF FollowOK, Alone

LEMMA StepFollow == RoundsInv /\ WholeInv /\ FollowInv /\ [Next]_vars => FollowInv'
<1> SUFFICES ASSUME RoundsInv, WholeInv, FollowInv, [Next]_vars
             PROVE  FollowInv'
  OBVIOUS
<1>1. CASE Calls
  <2>1. PICK p \in Proc, u \in User :
          \/ \E tags \in TagSets : CreateText(p, u, tags)
          \/ \E f \in {k[2] : k \in KeysOf("fragment")} : CastVote(p, u, f)
          \/ \E t \in Texts :
               \/ \E range \in Proposals : ProposeEdit(p, u, t, range)
               \/ ScheduleRoundClose(p, u, t)
               \/ CloseRound(p, u, t)
               \/ Subscribe(p, u, t)
               \/ DeleteText(p, u, t)
          \/ \E t \in Texts \cup {k[2] : k \in KeysOf("subscription")} : Unsubscribe(p, u, t)
          \/ \E victim \in User : DeleteUser(p, u, victim)
    BY <1>1, Zenon DEF Calls
  <2>2. ASSUME NEW tags \in TagSets, CreateText(p, u, tags) PROVE Starts(p)
    BY <2>2, CreateTextStarts
  <2>3. ASSUME NEW t, NEW f, NEW range,
               \/ CastVote(p, u, f) \/ ProposeEdit(p, u, t, range) \/ ScheduleRoundClose(p, u, t)
               \/ CloseRound(p, u, t)
        PROVE  Starts(p)
    BY <2>3, ReadsStart
  <2>4. ASSUME NEW t, Subscribe(p, u, t) \/ Unsubscribe(p, u, t) PROVE Starts(p)
    BY <2>4, SubscribeStarts, UnsubscribeStarts
  <2>5. ASSUME NEW t, DeleteText(p, u, t) \/ DeleteUser(p, u, t) PROVE FollowInv'
    BY <2>5, DeletionFollow
  <2>6. Starts(p) => FollowInv'
    BY StartsFollow
  <2>7. QED
    BY <2>1, <2>2, <2>3, <2>4, <2>5, <2>6, Zenon
<1>2. CASE Steps
  <2>1. PICK p \in Proc :
          \/ ApplyOp(p) \/ Fails(p) \/ ReadPointer(p) \/ CheckSuperseded(p) \/ OpenRound(p)
          \/ ResolveCurrent(p) \/ ResolveOpened(p) \/ AddFirstFragment(p) \/ ReadChoice(p)
          \/ Schedule(p) \/ (\E t \in due : CloseDue(p, t)) \/ RoundGone(p) \/ ReadRound(p)
          \/ ReadText(p) \/ Tally(p) \/ Fork(p) \/ Collect(p) \/ NextCascade(p)
    BY <1>2, Zenon DEF Steps
  <2>2. ASSUME NEW t, CloseDue(p, t) PROVE FollowInv'
    <3>1. Starts(p)
      BY <2>2, ReadsStart
    <3>2. QED
      BY <3>1, StartsFollow
  <2>3. CASE Fails(p)
    BY <2>3 DEF Fails, FollowInv
  <2>4. CASE \/ ReadPointer(p) \/ CheckSuperseded(p) \/ OpenRound(p) \/ ResolveCurrent(p)
             \/ ResolveOpened(p) \/ AddFirstFragment(p) \/ Schedule(p) \/ RoundGone(p)
             \/ ReadRound(p) \/ ReadText(p) \/ Tally(p) \/ Fork(p)
    BY <2>4, StepGoes, GoesFollow
  <2>5. CASE ApplyOp(p) \/ ReadChoice(p) \/ Collect(p) \/ NextCascade(p)
    BY <2>5, FollowApply, ReadChoiceFollow, CollectFollow, NextCascadeFollow
  <2>6. QED
    BY <2>1, <2>2, <2>3, <2>4, <2>5, Zenon
<1>3. CASE Tick
  BY <1>3, UnchangedFollow DEF Tick, history
<1>4. CASE UNCHANGED vars
  BY <1>4, UnchangedFollow DEF vars, history, meta
<1>5. QED
  BY <1>1, <1>2, <1>3, <1>4 DEF Next

LEMMA FollowersFollow == FollowInv /\ ~Overlap => NobodyLosesTheText
<1> SUFFICES ASSUME FollowInv, ~Overlap, ~interrupted, ~unclean, NEW u \in following
             PROVE  \/ \E k \in KeysOf("subscription") : k[3] = u
                    \/ \E p \in Proc : \E i \in DOMAIN ops[p] :
                         ops[p][i].key[1] = "subscription" /\ ops[p][i].key[3] = u /\ ~ops[p][i].tombstone
  BY Zenon DEF NobodyLosesTheText
<1>1. Follows(u)
  BY Zenon DEF FollowInv, FollowOK
<1>2. CASE \E k : Has(k) /\ SubscriptionOf(k, u)
  BY <1>2 DEF Has, SubscriptionOf, KeysOf
<1>3. CASE \E p \in Proc : \E i, k : PutsAt(ops[p], i, k) /\ SubscriptionOf(k, u)
  <2>0. PICK p \in Proc : \E i, k : PutsAt(ops[p], i, k) /\ SubscriptionOf(k, u)
    BY <1>3
  <2>1. PICK i, k : PutsAt(ops[p], i, k) /\ SubscriptionOf(k, u)
    BY <2>0
  <2>2. /\ i \in DOMAIN ops[p] /\ ~ops[p][i].tombstone /\ ops[p][i].key = k
        /\ k[1] = "subscription" /\ k[3] = u
    BY <2>1, Zenon DEF PutsAt, SubscriptionOf
  <2>3. QED
    BY <2>2
<1>4. QED
  BY <1>1, <1>2, <1>3 DEF Follows

(* "Closing a round carries every subscriber forward" (CloseRound), for any *)
(* number of goroutines and users, whatever closes, votes, proposals and    *)
(* deletions race: a user who followed a text, and has not left it nor seen *)
(* it deleted, follows some version, or a batch is about to say so.  This   *)
(* is when no user has two calls under way: then who subscribes and leaves  *)
(* at once is left with the one that came last to the store.                *)
THEOREM FollowersAreCarried ==
  ASSUME ~Overlap
  PROVE  Spec => []NobodyLosesTheText
<1>1. Init => FollowInv
  BY InitFollow
<1>2. RoundsInv /\ WholeInv /\ FollowInv /\ [Next]_vars => FollowInv'
  BY StepFollow
<1>3. FollowInv => NobodyLosesTheText
  BY FollowersFollow
<1>4. QED
  BY RecordsStayWhole, <1>1, <1>2, <1>3, PTL DEF Spec

-----------------------------------------------------------------------------
(* The invariant of the indexes of fragments and of the votes.             *)

Gone(b, k) == \E i : EraseAt(b, i, k)

\* The fragment is there to stay.
Kept(f) == Has(Fragment(f)) /\ \A p \in Proc : ~Gone(ops[p], Fragment(f))

\* A fragment is there before what the batch puts leads to it.
Founded(b) ==
  /\ \A i, k, f : PutsAt(b, i, k) /\ Leads(k, f) =>
       Has(Fragment(f)) \/ \E j : j < i /\ PutsAt(b, j, Fragment(f))
  /\ \A i, k : EraseAt(b, i, k) => k[1] # "fragment"

\* A deletion that has collected a fragment has collected what leads to it, or has
\* still to read the choice of a voter, after which it collects the vote.
Sought(scans, k) ==
  \E j \in DOMAIN scans : scans[j].what = "choice" /\ k = Vote(scans[j].of[4], scans[j].of[5])
Clears(b, scans) ==
  \A k, f : Leads(k, f) /\ Has(k) /\ Gone(b, Fragment(f)) => Gone(b, k) \/ Sought(scans, k)

\* The only entry that a fragment has in the index.
Indexes(x) ==
  /\ x = FragmentIndex(x[2], x[3], x[4])
  /\ \A k : Has(k) /\ k[1] = "fragmentindex" /\ k[4] = x[4] => k = x
KnownScan(scan) == scan.what \in {"votes", "ballots"} => Indexes(scan.of)
KnownScans(scans) == IsSeq(scans) /\ \A j \in DOMAIN scans : KnownScan(scans[j])

VotesShaped == \A k : Coming(k) /\ k[1] = "vote" => k = Vote(k[2], k[3])

LinksOK ==
  /\ Alone
  /\ \A k, f : Leads(k, f) /\ Has(k) => Kept(f) \/ \E p \in Proc : Deleting(p) /\ Gone(ops[p], k)
  /\ \A p \in Proc : ~Deleting(p) => Founded(ops[p])
  /\ \A p \in Proc : Deleting(p) => \A i, k : ~PutsAt(ops[p], i, k)
  /\ \A p \in Proc : call[p].pc = "choice" => Has(Fragment(call[p].fragment))
  /\ \A p \in Proc : call[p].pc = "collect" =>
       ops[p] = <<>> /\ Clears(call[p].batch, call[p].scans) /\ KnownScans(call[p].scans)
LinkInv == VotesShaped /\ (~unclean => LinksOK)

LEMMA DeletionIs == \A p \in Proc : (Deleting(p) <=> call[p].pc \in Deletion) /\ ("choice" \notin Deletion)
BY DEF Deleting, Deletion

\* The votes that a batch puts have the keys of votes.
VotesPut(b) == \A i, k : PutsAt(b, i, k) /\ k[1] = "vote" => k = Vote(k[2], k[3])

LEMMA MovesShaped ==
  ASSUME RoundsInv, LinkInv, NEW p \in Proc, NEW c, NEW b, Moves(p, c, b), VotesPut(b)
  PROVE  VotesShaped'
<1>1. /\ db' = db /\ ops'[p] = b /\ \A q \in Proc : q # p => ops'[q] = ops[q]
  BY MovesAre
<1>2. ASSUME NEW k, Pending(k)'
      PROVE  Pending(k) \/ \E i : PutsAt(b, i, k)
  <2>1. PICK q \in Proc : \E i : PutsAt(ops'[q], i, k)
    BY <1>2 DEF Pending
  <2>2. CASE q = p
    BY <1>1, <2>1, <2>2
  <2>3. CASE q # p
    BY <1>1, <2>1, <2>3 DEF Pending
  <2>4. QED
    BY <2>2, <2>3
<1>3. ASSUME NEW k, Coming(k)', k[1] = "vote"
      PROVE  k = Vote(k[2], k[3])
  <2>1. Coming(k) \/ \E i : PutsAt(b, i, k)
    BY <1>1, <1>2, <1>3 DEF Coming, Has
  <2>2. CASE Coming(k)
    BY <1>3, <2>2 DEF LinkInv, VotesShaped
  <2>3. CASE \E i : PutsAt(b, i, k)
    BY <1>3, <2>3 DEF VotesPut
  <2>4. QED
    BY <2>1, <2>2, <2>3
<1>4. QED
  BY <1>3, Zenon DEF VotesShaped

\* A call that deletes nothing begins or goes on.
LEMMA LinkTurns ==
  ASSUME RoundsInv, LinkInv, NEW p \in Proc, NEW c, NEW b, Moves(p, c, b), VotesPut(b),
         call[p].pc \notin Deletion, c.pc \notin Deletion,
         ~unclean' => \A q \in Proc : q # p => ~Deleting(q),
         LinksOK => Founded(b) /\ (c.pc = "choice" => Has(Fragment(c.fragment)))
  PROVE  LinkInv'
<1>1. VotesShaped'
  BY MovesShaped
<1> SUFFICES ASSUME ~unclean'
             PROVE  LinksOK'
  BY <1>1 DEF LinkInv
<1>2. LinksOK
  BY DEF LinkInv, Moves
<1>3. /\ db' = db /\ call'[p] = c /\ ops'[p] = b /\ ops[p] = <<>>
      /\ \A q \in Proc : q # p => call'[q] = call[q] /\ ops'[q] = ops[q]
  BY MovesAre
<1>4. \A q \in Proc : ~Deleting(q) /\ call'[q].pc \notin Deletion
  BY <1>3, DeletionIs
<1>5. \A q \in Proc : ~Deleting(q)' /\ call'[q].pc # "collect"
  BY <1>4 DEF Deleting, Deletion
<1>6. \A k : Has(k)' <=> Has(k)
  BY <1>3 DEF Has
<1>7. \A q \in Proc : Founded(ops'[q])
  BY <1>2, <1>3, <1>4 DEF LinksOK
<1>8. \A q \in Proc : Founded(ops[q])
  BY <1>2, <1>4 DEF LinksOK
<1>9. \A q \in Proc : Founded(ops[q])'
  BY <1>6, <1>7, Zenon DEF Founded
<1>10. ASSUME NEW k, NEW f, Leads(k, f), Has(k)'
       PROVE  Kept(f)'
  <2>1. Has(k)
    BY <1>6, <1>10
  <2>2. Kept(f)
    BY <1>2, <1>4, <1>10, <2>1 DEF LinksOK
  <2>3. Has(Fragment(f))'
    BY <1>6, <2>2 DEF Kept
  <2>4. Fragment(f)[1] = "fragment"
    BY KeyIs
  <2>5. \A q \in Proc : ~Gone(ops'[q], Fragment(f))
    BY <1>7, <2>4, Zenon DEF Founded, Gone
  <2>6. QED
    BY <2>3, <2>5, Zenon DEF Kept
<1>11. \A q \in Proc : (call[q].pc = "choice" => Has(Fragment(call[q].fragment)))'
  <2> SUFFICES ASSUME NEW q \in Proc, call'[q].pc = "choice", NEW f, f = call'[q].fragment
               PROVE  Fragment(f) \in DOMAIN db'
    BY DEF Has
  <2>1. Has(Fragment(f))
    BY <1>2, <1>3 DEF LinksOK
  <2>2. QED
    BY <1>3, <2>1 DEF Has
<1>12. Alone'
  BY <1>5, Zenon DEF Alone
<1>13. QED
  BY <1>5, <1>9, <1>10, <1>11, <1>12, Zenon DEF LinksOK

LEMMA LinksFound ==
  ASSUME NEW b, Links(b)
  PROVE  Founded(b) /\ VotesPut(b)
BY Zenon DEF Links, Founded, VotesPut

LEMMA GoesLink ==
  ASSUME RoundsInv, LinkInv, NEW p \in Proc, Goes(p)
  PROVE  LinkInv'
<1>1. PICK c, b : Going(p, c, b)
  BY Zenon DEF Goes
<1>2. /\ Moves(p, c, b) /\ call[p].pc \notin Deletion /\ call[p].pc # "idle" /\ unclean' = unclean
      /\ c.pc \notin Deletion /\ c.pc # "choice" /\ Links(b)
  BY <1>1 DEF Going
<1>3. ~unclean' => \A q \in Proc : q # p => ~Deleting(q)
  BY <1>2, Zenon DEF LinkInv, LinksOK, Alone
<1>4. QED
  BY <1>2, <1>3, LinksFound, LinkTurns

LEMMA StartsLink ==
  ASSUME RoundsInv, LinkInv, NEW p \in Proc, Starts(p)
  PROVE  LinkInv'
<1>1. PICK c, b, kind : Starting(p, c, b, kind)
  BY Zenon DEF Starts
<1>2. /\ Begins(p, c, b, kind) /\ c.pc \notin Deletion /\ Links(b)
      /\ c.pc = "choice" => Has(Fragment(c.fragment))
  BY <1>1, Zenon DEF Starting
<1>3. Moves(p, c, b) /\ call[p].pc \notin Deletion /\ (~unclean' => ~Meets(p, kind))
  BY <1>2 DEF Begins, Deletion
<1>4. ~unclean' => \A q \in Proc : q # p => ~Deleting(q)
  BY <1>3, MeetsIs
<1>5. QED
  BY <1>2, <1>3, <1>4, LinksFound, LinkTurns

\* A vote is cast for a fragment that is there.
LEMMA ReadChoiceLink ==
  ASSUME RoundsInv, WholeInv, LinkInv, NEW p \in Proc, ReadChoice(p)
  PROVE  LinkInv'
<1>1. PICK c : c = call[p]
  OBVIOUS
<1>2. PICK choice, other, f, u, b :
        /\ f = c.fragment /\ u = c.user
        /\ choice = UserChoice(c.text, c.slot, c.user) /\ other = db[choice]
        /\ b = VoteOps(f, choice, u)
  OBVIOUS
<1> DEFINE d == [c EXCEPT !.pc = "voted"]
           x == Put(Vote(f, u), u)
           y == Put(choice, f)
           z == Delete(Vote(other, u))
<1>3. c.pc = "choice" /\ VoteCall(c)
  BY <1>1, SameCall DEF ReadChoice, At, CallOK
<1>4. Moves(p, d, b) /\ unclean' = unclean
  BY <1>1, <1>2 DEF ReadChoice, At, WriteBatch, Local, Moves, history, meta
<1>5. d.pc = "voted"
  BY <1>3 DEF VoteCall
<1>6. b = << x, y >> \o << z >> \/ b = << x, y >> \o <<>>
  BY <1>2 DEF VoteOps
<1>7. /\ x.key = Vote(f, u) /\ ~x.tombstone /\ y.key = choice /\ ~y.tombstone
      /\ z.key = Vote(other, u) /\ z.tombstone
  BY OpIs
<1> DEFINE k1 == Vote(f, u)
           k3 == Vote(other, u)
<1>8. k1[1] = "vote" /\ k1[2] = f /\ k1[3] = u /\ choice[1] = "uservote" /\ k3[1] = "vote"
  BY <1>2, KeyIs
<1> HIDE DEF d, x, y, z
<1> DEFINE a == << x, y >>
           e == << z >>
<1>9. IsSeq(a) /\ \A i \in DOMAIN a : a[i] = x \/ a[i] = y
  BY TwoAt
<1>10. IsSeq(e) /\ \A i \in DOMAIN e : e[i] = z
  BY OneAt
<1>11. IsSeq(<<>>) /\ DOMAIN <<>> = {}
  BY EmptyIsSeq
<1>12. b = a \o e \/ b = a \o <<>>
  BY <1>6
<1> HIDE DEF a, e
<1>13. \A i \in DOMAIN b : b[i] = x \/ b[i] = y \/ b[i] = z
  <2>1. CASE b = a \o e
    <3> DEFINE g == a \o e
    <3>0. Joins(g, a, e)
      BY <1>9, <1>10, JoinsAt
    <3> HIDE DEF g
    <3>1. \A i \in DOMAIN g : \/ i \in DOMAIN a /\ g[i] = a[i]
                              \/ i - Len(a) \in DOMAIN e /\ g[i] = e[i - Len(a)]
      BY <3>0 DEF Joins
    <3>2. \A i \in DOMAIN g : g[i] = x \/ g[i] = y \/ g[i] = z
      BY <1>9, <1>10, <3>1, Zenon
    <3>3. QED
      BY <2>1, <3>2 DEF g
  <2>2. CASE b = a \o <<>>
    <3> DEFINE g == a \o <<>>
    <3>1. \A i \in DOMAIN g : \/ i \in DOMAIN a /\ g[i] = a[i]
                              \/ i - Len(a) \in DOMAIN <<>> /\ g[i] = <<>>[i - Len(a)]
      BY <1>9, <1>11, ConcatAt
    <3> HIDE DEF g
    <3>2. \A i \in DOMAIN g : g[i] = x \/ g[i] = y \/ g[i] = z
      BY <1>9, <1>11, <3>1
    <3>3. QED
      BY <2>2, <3>2 DEF g
  <2>3. QED
    BY <1>12, <2>1, <2>2
<1> HIDE DEF k1, k3
<1>14. \A i, k : PutsAt(b, i, k) => k = k1 \/ k = choice
  <2>1. /\ x.key = k1 /\ y.key = choice /\ ~x.tombstone /\ ~y.tombstone /\ z.tombstone
    BY <1>7 DEF k1
  <2>2. QED
    BY <1>13, <2>1, Zenon DEF PutsAt
<1>15. \A i, k : EraseAt(b, i, k) => k = k3
  <2>1. z.key = k3 /\ ~x.tombstone /\ ~y.tombstone
    BY <1>7 DEF k3
  <2>2. QED
    BY <1>13, <2>1, Zenon DEF EraseAt
<1>16. VotesPut(b)
  <2>1. k1 = Vote(k1[2], k1[3])
    BY <1>8 DEF k1
  <2>2. choice[1] # "vote"
    BY <1>8
  <2>3. QED
    BY <1>14, <2>1, <2>2, Zenon DEF VotesPut
<1>17. ASSUME LinksOK
       PROVE  Founded(b)
  <2>1. Has(Fragment(f))
    BY <1>1, <1>2, <1>3, <1>17 DEF LinksOK
  <2>2. \A g : Leads(k1, g) => g = f
    BY <1>8 DEF Leads
  <2>3. \A g : ~Leads(choice, g)
    BY <1>8 DEF Leads
  <2>4. k3[1] # "fragment"
    BY <1>8
  <2>5. QED
    BY <1>14, <1>15, <2>1, <2>2, <2>3, <2>4, Zenon DEF Founded
<1>18. ~unclean' => \A q \in Proc : q # p => ~Deleting(q)
  <2>1. call[p].pc # "idle"
    BY <1>1, <1>3
  <2>2. QED
    BY <1>4, <2>1, Zenon DEF LinkInv, LinksOK, Alone
<1>19. call[p].pc \notin Deletion /\ d.pc \notin Deletion /\ d.pc # "choice"
  BY <1>1, <1>3, <1>5 DEF Deletion
<1>20. QED
  BY <1>4, <1>16, <1>17, <1>18, <1>19, LinkTurns

\* A deletion begins, goes on or ends.  All it has to write are deletions.
LEMMA LinkErases ==
  ASSUME RoundsInv, WholeInv, LinkInv, NEW p \in Proc, NEW c, NEW b, Moves(p, c, b),
         c.pc \in Deletion \/ (c.pc = "idle" /\ b = <<>>),
         \A i, k : ~PutsAt(b, i, k),
         ~unclean' => \A q \in Proc : q # p => call[q].pc = "idle",
         ~unclean' => \A k, f : Leads(k, f) /\ Has(k) /\ Gone(b, Fragment(f)) => Gone(b, k),
         ~unclean' /\ c.pc = "collect" => b = <<>> /\ Clears(c.batch, c.scans) /\ KnownScans(c.scans)
  PROVE  LinkInv'
<1>1. VotesShaped'
  <2>1. VotesPut(b)
    BY DEF VotesPut
  <2>2. QED
    BY <2>1, MovesShaped
<1> SUFFICES ASSUME ~unclean'
             PROVE  LinksOK'
  BY <1>1 DEF LinkInv
<1>2. LinksOK
  BY DEF LinkInv, Moves
<1>3. /\ db' = db /\ call'[p] = c /\ ops'[p] = b /\ ops[p] = <<>>
      /\ \A q \in Proc : q # p => call'[q] = call[q] /\ ops'[q] = ops[q]
  BY MovesAre
<1>4. \A q \in Proc : q # p => call'[q].pc = "idle" /\ ops[q] = <<>> /\ ops'[q] = <<>>
  BY <1>3, IdleHasNoBatch
<1>5. \A k : (Has(k)' <=> Has(k)) /\ ~Gone(<<>>, k)
  BY <1>3 DEF Has, Gone, EraseAt
<1>6. \A q \in Proc : q # p => ~Deleting(q)' /\ call'[q].pc \notin {"choice", "collect"}
  BY <1>4 DEF Deleting
<1>7. (Deleting(p)' <=> c.pc \in Deletion) /\ call'[p].pc # "choice"
  BY <1>3 DEF Deleting, Deletion
<1>8. ASSUME NEW k, NEW f, Leads(k, f), Has(k)'
      PROVE  Kept(f)' \/ (Deleting(p)' /\ Gone(ops'[p], k))
  <2>1. Has(k) /\ \A q \in Proc : ops[q] = <<>>
    BY <1>3, <1>4, <1>5, <1>8
  <2>2. Has(Fragment(f))
    <3>1. \A q \in Proc : ~Gone(ops[q], k)
      BY <1>5, <2>1
    <3>2. QED
      BY <1>2, <1>8, <2>1, <3>1, Zenon DEF LinksOK, Kept
  <2>3. CASE Gone(b, Fragment(f))
    <3>1. Gone(b, k)
      BY <1>8, <2>1, <2>3
    <3>2. b # <<>>
      BY <1>5, <2>3
    <3>3. QED
      BY <1>3, <1>7, <3>1, <3>2
  <2>4. CASE ~Gone(b, Fragment(f))
    <3>1. Has(Fragment(f))'
      BY <1>5, <2>2
    <3>2. \A q \in Proc : ~Gone(ops'[q], Fragment(f))
      BY <1>3, <1>4, <1>5, <2>4
    <3>3. QED
      BY <3>1, <3>2, Zenon DEF Kept
  <2>5. QED
    BY <2>3, <2>4
<1>9. \A q \in Proc : ~Deleting(q)' => Founded(ops[q])'
  <2>1. Founded(<<>>)'
    BY DEF Founded, PutsAt, EraseAt
  <2>2. \A q \in Proc : ~Deleting(q)' => ops'[q] = <<>>
    BY <1>3, <1>4, <1>7
  <2>3. QED
    BY <2>1, <2>2
<1>10. \A q \in Proc : Deleting(q)' => \A i, k : ~PutsAt(ops'[q], i, k)
  BY <1>3, <1>6
<1>11. \A q \in Proc : (call[q].pc = "collect" =>
         ops[q] = <<>> /\ Clears(call[q].batch, call[q].scans) /\ KnownScans(call[q].scans))'
  <2>1. c.pc = "collect" => b = <<>> /\ Clears(c.batch, c.scans)' /\ KnownScans(c.scans)'
    BY <1>5, Zenon DEF Clears, KnownScans, KnownScan, Indexes
  <2>2. (call[p].pc = "collect" =>
           ops[p] = <<>> /\ Clears(call[p].batch, call[p].scans) /\ KnownScans(call[p].scans))'
    BY <1>3, <2>1
  <2>3. QED
    BY <1>6, <2>2
<1>12. Alone'
  BY <1>4, <1>6 DEF Alone
<1>13. QED
  BY <1>6, <1>7, <1>8, <1>9, <1>10, <1>11, <1>12, Zenon DEF LinksOK

-----------------------------------------------------------------------------
(* What a deletion has collected, and has still to look for.               *)

\* The keys that a scan has found are all among those it goes through.
LEMMA SetToSeqsOnto ==
  ASSUME NEW S, IsFiniteSet(S), NEW s \in SetToSeqs(S), NEW x \in S
  PROVE  \E q \in DOMAIN s : s[q] = x
<1>1. PICK n : n = Cardinality(S) /\ n \in Nat
  BY FS_CardinalityType
<1> DEFINE D == 1 .. n
<1>2. s \in [D -> S] /\ \A i, j \in D : i # j => s[i] # s[j]
  BY <1>1 DEF SetToSeqs
<1>3. IsFiniteSet(D) /\ Cardinality(D) = n
  BY <1>1, FS_Interval
<1> HIDE DEF D
<1>4. s \in Injection(D, S)
  BY <1>2 DEF Injection, IsInjective
<1>5. s \in Surjection(D, S)
  BY <1>1, <1>3, <1>4, FS_Injection
<1>6. QED
  BY <1>2, <1>5 DEF Surjection

LEMMA FoundAll ==
  ASSUME RoundsInv, NEW scan, NEW keys \in SetToSeqs(Found(scan)), NEW k \in Found(scan)
  PROVE  \E q \in DOMAIN keys : keys[q] = k
BY FoundIsFinite, SetToSeqsOnto

LEMMA GoneConcat ==
  ASSUME NEW a, NEW m, IsSeq(a), IsSeq(m), NEW k
  PROVE  Gone(a \o m, k) <=> Gone(a, k) \/ Gone(m, k)
<1> DEFINE c == a \o m
<1>1. /\ \A i : EraseAt(a, i, k) => EraseAt(c, i, k)
      /\ \A j : EraseAt(m, j, k) => EraseAt(c, j + Len(a), k)
      /\ \A i : EraseAt(c, i, k) => EraseAt(a, i, k) \/ \E j : EraseAt(m, j, k)
  BY EraseConcat
<1> HIDE DEF c
<1>2. Gone(c, k) <=> Gone(a, k) \/ Gone(m, k)
  BY <1>1, Zenon DEF Gone
<1>3. QED
  BY <1>2 DEF c

LEMMA SoughtConcat ==
  ASSUME NEW x, NEW y, IsSeq(x), IsSeq(y), NEW k, Sought(x, k) \/ Sought(y, k)
  PROVE  Sought(x \o y, k)
<1> DEFINE c == x \o y
<1>0. Joins(c, x, y)
  BY JoinsAt
<1> HIDE DEF c
<1>1. PICK n : /\ \A i \in DOMAIN x : i \in DOMAIN c /\ c[i] = x[i]
               /\ \A i \in DOMAIN y : i + n \in DOMAIN c /\ c[i + n] = y[i]
  BY <1>0 DEF Joins
<1>2. CASE Sought(x, k)
  BY <1>1, <1>2, Zenon DEF Sought, c
<1>3. CASE Sought(y, k)
  BY <1>1, <1>3, Zenon DEF Sought, c
<1>4. QED
  BY <1>2, <1>3

LEMMA SeqHead ==
  ASSUME NEW x, IsSeq(x), x # <<>>
  PROVE  /\ IsSeq(Tail(x)) /\ Head(x) = x[1] /\ 1 \in DOMAIN x
         /\ \A i \in DOMAIN Tail(x) : i + 1 \in DOMAIN x /\ Tail(x)[i] = x[i + 1]
         /\ \A i \in DOMAIN x : i = 1 \/ (i - 1 \in DOMAIN Tail(x) /\ Tail(x)[i - 1] = x[i])
<1>1. PICK S : x \in Seq(S)
  BY DEF IsSeq
<1>2. /\ Tail(x) \in Seq(S) /\ Head(x) = x[1] /\ 1 \in DOMAIN x
      /\ \A i \in DOMAIN Tail(x) : i + 1 \in DOMAIN x /\ Tail(x)[i] = x[i + 1]
      /\ \A i \in DOMAIN x : i = 1 \/ (i - 1 \in DOMAIN Tail(x) /\ Tail(x)[i - 1] = x[i])
  BY <1>1
<1>3. QED
  BY <1>2 DEF IsSeq

LEMMA SoughtTail ==
  ASSUME NEW x, IsSeq(x), x # <<>>, NEW k, Sought(x, k)
  PROVE  \/ Sought(Tail(x), k)
         \/ Head(x).what = "choice" /\ k = Vote(Head(x).of[4], Head(x).of[5])
<1> DEFINE y == Tail(x)
<1>1. /\ Head(x) = x[1]
      /\ \A i \in DOMAIN x : i = 1 \/ (i - 1 \in DOMAIN y /\ y[i - 1] = x[i])
  BY SeqHead
<1> HIDE DEF y
<1>2. PICK j \in DOMAIN x : x[j].what = "choice" /\ k = Vote(x[j].of[4], x[j].of[5])
  BY DEF Sought
<1>3. CASE j = 1
  BY <1>1, <1>2, <1>3
<1>4. CASE j # 1
  <2>1. j - 1 \in DOMAIN y /\ y[j - 1] = x[j]
    BY <1>1, <1>4
  <2>2. Sought(y, k)
    BY <1>2, <2>1, Zenon DEF Sought
  <2>3. QED
    BY <2>2 DEF y
<1>5. QED
  BY <1>3, <1>4

LEMMA KnownTail ==
  ASSUME NEW x, KnownScans(x), x # <<>>
  PROVE  KnownScans(Tail(x)) /\ KnownScan(Head(x))
<1> DEFINE y == Tail(x)
<1>1. IsSeq(x)
  BY DEF KnownScans
<1>2. /\ IsSeq(y) /\ Head(x) = x[1] /\ 1 \in DOMAIN x
      /\ \A i \in DOMAIN y : i + 1 \in DOMAIN x /\ y[i] = x[i + 1]
  BY <1>1, SeqHead
<1> HIDE DEF y
<1>3. KnownScan(x[1])
  BY <1>2, Zenon DEF KnownScans
<1>4. KnownScans(y)
  BY <1>2, Zenon DEF KnownScans
<1>5. QED
  BY <1>2, <1>3, <1>4 DEF y

LEMMA KnownConcat ==
  ASSUME NEW x, NEW y, KnownScans(x), KnownScans(y)
  PROVE  KnownScans(x \o y)
<1> DEFINE c == x \o y
<1>1. IsSeq(x) /\ IsSeq(y)
  BY DEF KnownScans
<1>2. /\ IsSeq(c)
      /\ \A i \in DOMAIN c : \/ i \in DOMAIN x /\ c[i] = x[i]
                             \/ i - Len(x) \in DOMAIN y /\ c[i] = y[i - Len(x)]
  BY <1>1, ConcatAt
<1> HIDE DEF c
<1>3. KnownScans(c)
  BY <1>2, Zenon DEF KnownScans
<1>4. QED
  BY <1>3 DEF c

\* The entry that a fragment has in the index says which slot it is for.
LEMMA IndexOfFragment ==
  ASSUME WholeInv, NEW f, Has(Fragment(f)), NEW w, w = db[Fragment(f)],
         NEW k, Has(k), k[1] = "fragmentindex", k[4] = f
  PROVE  k = FragmentIndex(w.text, w.slot, f)
<1>1. PICK v : v = db[k]
  OBVIOUS
<1>2. Written(k, v) /\ Written(Fragment(f), w)
  BY <1>1, Zenon DEF Written, Stored, Has
<1>3. Shaped(k)
  BY <1>2, Zenon DEF WholeInv, KeysOK
<1>4. PICK t, s : k = FragmentIndex(t, s, f)
  BY <1>3 DEF Shaped
<1>5. w.text = t /\ w.slot = s
  <2>1. Written(FragmentIndex(t, s, f), v)
    BY <1>2, <1>4
  <2>2. FragmentsOK
    BY DEF WholeInv, ValuesOK
  <2>3. PICK g, z : g = f /\ z = w
    OBVIOUS
  <2>4. Written(FragmentIndex(t, s, g), v) /\ Written(Fragment(g), z)
    BY <1>2, <2>1, <2>3
  <2>5. z.text = t /\ z.slot = s
    BY <2>2, <2>4 DEF FragmentsOK
  <2>6. QED
    BY <2>3, <2>5
<1>6. QED
  BY <1>4, <1>5

LEMMA IndexesOwn ==
  ASSUME WholeInv, NEW f, Has(Fragment(f)), NEW w, w = db[Fragment(f)]
  PROVE  Indexes(FragmentIndex(w.text, w.slot, f))
<1>1. PICK x, t, s : t = w.text /\ s = w.slot /\ x = FragmentIndex(t, s, f)
  OBVIOUS
<1>2. x[2] = t /\ x[3] = s /\ x[4] = f
  BY <1>1, KeyIs
<1>3. \A k : Has(k) /\ k[1] = "fragmentindex" /\ k[4] = f => k = x
  BY <1>1, IndexOfFragment
<1>4. Indexes(x)
  BY <1>1, <1>2, <1>3 DEF Indexes
<1>5. QED
  BY <1>1, <1>4

LEMMA IndexesFound ==
  ASSUME WholeInv, NEW k, Has(k), k[1] = "fragmentindex", Has(Fragment(k[4]))
  PROVE  Indexes(k)
<1>1. PICK f, w : f = k[4] /\ w = db[Fragment(f)]
  OBVIOUS
<1>2. k = FragmentIndex(w.text, w.slot, f)
  BY <1>1, IndexOfFragment
<1>3. QED
  BY <1>1, <1>2, IndexesOwn

\* A scan of the votes for a fragment collects all that it finds.
LEMMA VotesCollected ==
  ASSUME NEW scan, scan.what = "votes", NEW keys, IsSeq(keys), NEW q \in DOMAIN keys
  PROVE  Gone(Collected(scan, keys), keys[q])
<1> DEFINE b == Collected(scan, keys)
           e(i) == Delete(keys[i])
<1>1. PICK m : m = Len(keys) /\ m \in Nat /\ DOMAIN keys = 1 .. m
  BY SeqIs
<1>2. \A k : OpsFor(scan, k) = << Delete(k) >>
  BY DEF OpsFor
<1>3. keys # <<>>
  <2>1. DOMAIN <<>> = {}
    OBVIOUS
  <2>2. QED
    BY <2>1
<1>4. Len(OpsFor(scan, keys[1])) = 1
  BY <1>2
<1>5. b = [i \in 1 .. 1 * m |-> OpsFor(scan, keys[(i - 1) \div 1 + 1])[((i - 1) % 1) + 1]]
  BY <1>1, <1>3, <1>4 DEF Collected, Each
<1> HIDE DEF b
<1>6. b = [i \in 1 .. 1 * m |-> << e((i - 1) \div 1 + 1) >>[((i - 1) % 1) + 1]]
  BY <1>2, <1>5
<1> HIDE DEF e
<1>7. 1 * m = m /\ \A i \in 1 .. m : (i - 1) \div 1 + 1 = i /\ ((i - 1) % 1) + 1 = 1
  BY <1>1
<1>8. q \in 1 .. m /\ q \in DOMAIN b /\ b[q] = << e(q) >>[1]
  BY <1>1, <1>6, <1>7
<1>9. b[q] = e(q)
  BY <1>8
<1>10. e(q).tombstone /\ e(q).key = keys[q]
  BY OpIs DEF e
<1>11. EraseAt(b, q, keys[q])
  BY <1>8, <1>9, <1>10 DEF EraseAt
<1>12. QED
  BY <1>11, Zenon DEF Gone, b

\* A scan of the votes for a fragment of a user leads to the choice of each voter.
LEMMA ChoicesSought ==
  ASSUME NEW scan, scan.what = "ballots", NEW keys, IsSeq(keys)
  PROVE  LET y == ScansFor(scan, keys)
         IN  /\ IsSeq(y) /\ DOMAIN y = DOMAIN keys
             /\ \A q \in DOMAIN keys : y[q] = Scan("choice", Append(scan.of, keys[q][3]))
<1> DEFINE y == ScansFor(scan, keys)
           e(i) == Scan("choice", Append(scan.of, keys[i][3]))
<1>1. PICK m : m = Len(keys) /\ m \in Nat /\ DOMAIN keys = 1 .. m /\ (keys = <<>> => m = 0)
  BY SeqIs
<1>2. PICK n : n = IF keys = <<>> THEN 0 ELSE 1
  OBVIOUS
<1>3. y = [i \in 1 .. n * m |->
             << Scan("choice", Append(scan.of, keys[(i - 1) \div n + 1][3])) >>[((i - 1) % n) + 1]]
  <2>1. y = Each(keys, LAMBDA k : << Scan("choice", Append(scan.of, k[3])) >>)
    BY DEF ScansFor
  <2> HIDE DEF y
  <2>2. QED
    BY <1>1, <1>2, <2>1 DEF Each
<1> HIDE DEF y
<1>4. y = [i \in 1 .. n * m |-> << e((i - 1) \div n + 1) >>[((i - 1) % n) + 1]]
  BY <1>3, Zenon
<1> HIDE DEF e
<1>5. n * m = m /\ (m # 0 => n = 1)
  BY <1>1, <1>2
<1>6. \A i \in 1 .. m : (i - 1) \div 1 + 1 = i /\ ((i - 1) % 1) + 1 = 1
  BY <1>1
<1>7. y = [i \in 1 .. m |-> e(i)]
  <2>1. \A i \in 1 .. m : << e((i - 1) \div n + 1) >>[((i - 1) % n) + 1] = e(i)
    <3>1. TAKE i \in 1 .. m
    <3>2. n = 1
      BY <1>1, <1>5, <3>1
    <3>3. << e(i) >>[1] = e(i)
      OBVIOUS
    <3>4. QED
      BY <1>6, <3>1, <3>2, <3>3
  <2>2. QED
    BY <1>4, <1>5, <2>1
<1>8. y \in Seq({e(i) : i \in 1 .. m})
  BY <1>1, <1>7
<1>9. IsSeq(y) /\ DOMAIN y = DOMAIN keys /\ \A q \in DOMAIN keys : y[q] = e(q)
  BY <1>1, <1>7, <1>8 DEF IsSeq
<1>10. QED
  BY <1>9, Zenon DEF e, y

\* The entry with a voter after it.
LEMMA BallotIs ==
  ASSUME NEW x, x = FragmentIndex(x[2], x[3], x[4]), NEW u
  PROVE  Append(x, u)[4] = x[4] /\ Append(x, u)[5] = u
<1>1. PICK t, s, f : t = x[2] /\ s = x[3] /\ f = x[4]
  OBVIOUS
<1>2. x = << "fragmentindex", t, s, f >>
  BY <1>1 DEF FragmentIndex
<1>3. x \in Seq({"fragmentindex", t, s, f}) /\ Len(x) = 4 /\ x[4] = f
  BY <1>2
<1>4. Append(x, u)[4] = x[4] /\ Append(x, u)[5] = u
  <2>1. PICK S : x \in Seq(S) /\ u \in S
    <3>1. x \in Seq({"fragmentindex", t, s, f, u}) /\ u \in {"fragmentindex", t, s, f, u}
      BY <1>2
    <3>2. QED
      BY <3>1
  <2>2. QED
    BY <1>3, <2>1
<1>5. QED
  BY <1>4

\* What leads to a fragment leads to one that is there.
Firm == \A k, f : Leads(k, f) /\ Has(k) => Has(Fragment(f))

LEMMA BeforeIs ==
  ASSUME NEW scan, KnownScan(scan)
  PROVE  /\ IsSeq(OpsBefore(scan))
         /\ scan.what \in {"votes", "ballots"} => Gone(OpsBefore(scan), scan.of)
         /\ scan.what = "choice" => Gone(OpsBefore(scan), Vote(scan.of[4], scan.of[5]))
         /\ \A f : Gone(OpsBefore(scan), Fragment(f)) => scan.what \in {"votes", "ballots"} /\ f = scan.of[4]
<1>1. PICK w, y, z, v, g : /\ w = scan.what /\ y = scan.of /\ g = scan.of[4] /\ z = Fragment(g)
                           /\ v = Vote(scan.of[4], scan.of[5])
  OBVIOUS
<1> DEFINE b == OpsBefore(scan)
<1>2. z[1] = "fragment" /\ z[2] = g /\ v[1] = "vote" /\ \A f : Fragment(f)[1] = "fragment" /\ Fragment(f)[2] = f
  BY <1>1, KeyIs
<1>3. CASE w \in {"votes", "ballots"}
  <2>1. y[1] = "fragmentindex"
    <3>1. Indexes(y)
      BY <1>1, <1>3 DEF KnownScan
    <3>2. QED
      BY <3>1, KeyIs DEF Indexes
  <2>2. PICK m, n : m = Delete(y) /\ n = Delete(z) /\ m.key = y /\ n.key = z /\ m.tombstone /\ n.tombstone
    BY OpIs
  <2>3. b = << m, n >> \/ b = << n, m >>
    BY <1>1, <1>3, <2>2 DEF OpsBefore
  <2> HIDE DEF b
  <2>4. /\ IsSeq(b) /\ \A i \in DOMAIN b : b[i] = m \/ b[i] = n
        /\ \E i \in DOMAIN b : b[i] = m
    BY <2>3, TwoAt DEF Does
  <2>5. \E i : EraseAt(b, i, y)
    BY <2>2, <2>4 DEF EraseAt
  <2>6. \A i, k : EraseAt(b, i, k) => k = y \/ k = z
    BY <2>2, <2>4 DEF EraseAt
  <2>7. \A f : Gone(b, Fragment(f)) => f = g
    <3>1. TAKE f
    <3>2. HAVE Gone(b, Fragment(f))
    <3>3. Fragment(f) = y \/ Fragment(f) = z
      BY <2>6, <3>2, Zenon DEF Gone
    <3>4. QED
      BY <1>2, <2>1, <3>3
  <2>8. Gone(b, y)
    BY <2>5 DEF Gone
  <2>9. w # "choice"
    BY <1>3
  <2>10. QED
    BY <1>1, <1>3, <2>4, <2>7, <2>8, <2>9 DEF b
<1>4. CASE w = "choice"
  <2>1. PICK m : m = Delete(v) /\ m.key = v /\ m.tombstone
    BY OpIs
  <2>2. b = << m >>
    BY <1>1, <1>4, <2>1 DEF OpsBefore
  <2> HIDE DEF b
  <2>3. IsSeq(b) /\ Does(b, 1, m) /\ \A i \in DOMAIN b : b[i] = m
    BY <2>2, OneAt
  <2>4. EraseAt(b, 1, v)
    BY <2>1, <2>3 DEF EraseAt, Does
  <2>5. \A i, k : EraseAt(b, i, k) => k = v
    BY <2>1, <2>3 DEF EraseAt
  <2>6. \A f : ~Gone(b, Fragment(f))
    <3>1. \A f : Fragment(f) # v
      BY <1>2
    <3>2. QED
      BY <2>5, <3>1, Zenon DEF Gone
  <2>7. Gone(b, v)
    BY <2>4, Zenon DEF Gone
  <2>8. w \notin {"votes", "ballots"}
    BY <1>4
  <2>9. QED
    BY <1>1, <2>3, <2>6, <2>7, <2>8 DEF b
<1>5. CASE w \notin {"votes", "ballots", "choice"}
  <2>1. b = <<>>
    BY <1>1, <1>5 DEF OpsBefore
  <2>2. \A k : ~Gone(<<>>, k)
    BY DEF Gone, EraseAt
  <2>3. QED
    BY <1>1, <1>5, <2>1, <2>2, EmptyIsSeq
<1>6. QED
  BY <1>3, <1>4, <1>5

\* A fragment is deleted only before the scan of its votes.
LEMMA CollectedKeep ==
  ASSUME RoundsInv, NEW scan, NEW keys \in SetToSeqs(Found(scan)), NEW f
  PROVE  ~Gone(Collected(scan, keys), Fragment(f))
<1>1. IsSeq(keys) /\ \A q \in DOMAIN keys : keys[q] \in Found(scan)
  BY FoundIs
<1>2. PICK z : z = Fragment(f) /\ z[1] = "fragment"
  BY KeyIs
<1>3. SUFFICES ASSUME NEW i, EraseAt(Collected(scan, keys), i, z)
               PROVE  FALSE
  BY <1>2, Zenon DEF Gone
<1>4. CASE scan.what = "texts of user"
  <2>1. \A k : OpsFor(scan, k) = TextOps(k[2])
    BY <1>4 DEF OpsFor
  <2>2. \E q \in DOMAIN keys :
          z \in {Text(keys[q][2]), CurrentRound(keys[q][2]), RoundCount(keys[q][2]), SupersededBy(keys[q][2])}
    BY <1>1, <1>3, <2>1, TextOpsEach
  <2>3. PICK t : z \in {Text(t), CurrentRound(t), RoundCount(t), SupersededBy(t)}
    BY <2>2
  <2>4. z[1] \in {"text", "currentround", "roundcount", "supersededby"}
    BY <2>3, KeyIs
  <2>5. QED
    BY <1>2, <2>4
<1>5. CASE scan.what # "texts of user"
  <2>1. PICK k \in Found(scan) : Deletes(scan, k, z)
    <3>1. \E j \in DOMAIN keys : Deletes(scan, keys[j], z)
      BY <1>1, <1>3, CollectedAre
    <3>2. QED
      BY <1>1, <3>1, Zenon
  <2>2. /\ scan.what = "rounds" => z = Round(k[2]) \/ z = RoundIndex(db[k].text, k[2])
        /\ scan.what \notin {"fragments", "fragments of user", "ballots"}
        /\ scan.what # "rounds" => z = k \/ z[1] \in {"subscription", "subscriptionindex"}
    BY <1>5, <2>1, DeletesAre
  <2>3. CASE scan.what = "rounds"
    <3>1. z[1] \in {"round", "roundindex"}
      BY <2>2, <2>3, KeyIs
    <3>2. QED
      BY <1>2, <3>1
  <2>4. CASE scan.what # "rounds"
    <3>1. k[1] \in {"vote", "uservote", "subscription", "subscriptionindex"}
      BY <1>5, <2>1, <2>2, <2>4, FoundKinds
    <3>2. QED
      BY <1>2, <2>2, <2>4, <3>1
  <2>5. QED
    BY <2>3, <2>4
<1>6. QED
  BY <1>4, <1>5

LEMMA VotesFound ==
  ASSUME NEW scan, scan.what \in {"votes", "ballots"}, NEW k, Has(k), k[1] = "vote", k[2] = scan.of[4]
  PROVE  k \in Found(scan)
<1>1. Found(scan) = {x \in KeysOf("vote") : x[2] = scan.of[4]}
  BY DEF Found
<1>2. QED
  BY <1>1 DEF KeysOf, Has

\* The scans of votes are made for the entries of fragments in the index.
LEMMA KnownNext ==
  ASSUME RoundsInv, WholeInv, Firm, NEW scan, NEW keys \in SetToSeqs(Found(scan))
  PROVE  KnownScans(ScansFor(scan, keys))
<1>1. IsSeq(keys) /\ \A q \in DOMAIN keys : keys[q] \in Found(scan) /\ Has(keys[q])
  BY FoundIs
<1>2. CASE scan.what = "texts of user" /\ keys # <<>>
  <2>1. PICK x, y : /\ x = << Scan("rounds", {keys[i][2] : i \in DOMAIN keys}) >>
                    /\ y = Each(keys, LAMBDA k : << Scan("fragments", k[2]), Scan("choices", k[2]) >>)
    OBVIOUS
  <2>2. ScansFor(scan, keys) = x \o y
    BY <1>2, <2>1 DEF ScansFor
  <2>3. \A of : /\ KnownScan(Scan("rounds", of)) /\ KnownScan(Scan("fragments", of))
                /\ KnownScan(Scan("choices", of))
    <3>1. TAKE of
    <3>2. PICK u, v, w : u = Scan("rounds", of) /\ v = Scan("fragments", of) /\ w = Scan("choices", of)
      OBVIOUS
    <3>3. u.what = "rounds" /\ v.what = "fragments" /\ w.what = "choices"
      BY <3>2, ScanIs
    <3>4. KnownScan(u) /\ KnownScan(v) /\ KnownScan(w)
      BY <3>3 DEF KnownScan
    <3>5. QED
      BY <3>2, <3>4
  <2>4. KnownScans(x)
    <3>1. PICK z : z = Scan("rounds", {keys[i][2] : i \in DOMAIN keys})
      OBVIOUS
    <3>2. KnownScan(z)
      BY <2>3, <3>1
    <3>3. x = << z >>
      BY <2>1, <3>1
    <3>4. QED
      BY <3>2, <3>3, OneAt DEF KnownScans
  <2>5. KnownScans(y)
    <3>1. IsSeq(y) /\ \A i \in DOMAIN y : \E q \in DOMAIN keys :
            y[i] = Scan("fragments", keys[q][2]) \/ y[i] = Scan("choices", keys[q][2])
      BY <1>1, <2>1, TextScansAre
    <3>2. \A i \in DOMAIN y : KnownScan(y[i])
      BY <2>3, <3>1, Zenon
    <3>3. QED
      BY <3>1, <3>2 DEF KnownScans
  <2>6. QED
    BY <2>2, <2>4, <2>5, KnownConcat
<1>3. CASE scan.what = "fragments"
  <2>1. PICK y : y = Each(keys, LAMBDA k : << Scan("votes", k) >>)
    OBVIOUS
  <2>2. ScansFor(scan, keys) = y
    BY <1>3, <2>1 DEF ScansFor
  <2>3. IsSeq(y) /\ \A i \in DOMAIN y : \E q \in DOMAIN keys : y[i] = Scan("votes", keys[q])
    BY <1>1, <2>1, VoteScansAre
  <2>4. ASSUME NEW k \in Found(scan), Has(k)
        PROVE  KnownScan(Scan("votes", k))
    <3>1. k[1] = "fragmentindex"
      BY <1>3, FoundKinds
    <3>2. PICK f : f = k[4]
      OBVIOUS
    <3>3. Leads(k, f)
      BY <3>1, <3>2 DEF Leads
    <3>4. Has(Fragment(f))
      BY <2>4, <3>3, Zenon DEF Firm
    <3>5. Indexes(k)
      BY <2>4, <3>1, <3>2, <3>4, IndexesFound
    <3>6. PICK x : x = Scan("votes", k) /\ x.of = k
      BY ScanIs
    <3>7. KnownScan(x)
      BY <3>5, <3>6 DEF KnownScan
    <3>8. QED
      BY <3>6, <3>7
  <2>5. \A i \in DOMAIN y : KnownScan(y[i])
    BY <1>1, <2>3, <2>4, Zenon
  <2>6. QED
    BY <2>2, <2>3, <2>5 DEF KnownScans
<1>4. CASE scan.what = "fragments of user"
  <2>1. PICK y : y = Each(keys, LAMBDA k : << Scan("ballots", FragmentIndex(db[k].text, db[k].slot, k[2])) >>)
    OBVIOUS
  <2>2. ScansFor(scan, keys) = y
    BY <1>4, <2>1 DEF ScansFor
  <2>3. IsSeq(y) /\ \A i \in DOMAIN y : \E q \in DOMAIN keys :
          y[i] = Scan("ballots", FragmentIndex(db[keys[q]].text, db[keys[q]].slot, keys[q][2]))
    BY <1>1, <2>1, BallotScansAre
  <2>4. ASSUME NEW k \in Found(scan), Has(k)
        PROVE  KnownScan(Scan("ballots", FragmentIndex(db[k].text, db[k].slot, k[2])))
    <3>1. k[1] = "fragment"
      BY <1>4, FoundKinds
    <3>2. Written(k, db[k])
      BY <2>4, Zenon DEF Written, Stored, Has
    <3>3. Shaped(k)
      BY <3>2, Zenon DEF WholeInv, KeysOK
    <3>4. PICK f, w : f = k[2] /\ k = Fragment(f) /\ w = db[k]
      BY <3>1, <3>3 DEF Shaped
    <3>5. Indexes(FragmentIndex(w.text, w.slot, f))
      BY <2>4, <3>4, IndexesOwn
    <3>6. PICK x : x = Scan("ballots", FragmentIndex(w.text, w.slot, f)) /\ x.of = FragmentIndex(w.text, w.slot, f)
      BY ScanIs
    <3>7. KnownScan(x)
      BY <3>5, <3>6 DEF KnownScan
    <3>8. QED
      BY <3>4, <3>6, <3>7
  <2>5. \A i \in DOMAIN y : KnownScan(y[i])
    BY <1>1, <2>3, <2>4, Zenon
  <2>6. QED
    BY <2>2, <2>3, <2>5 DEF KnownScans
<1>5. CASE scan.what = "ballots"
  <2>1. PICK y : y = ScansFor(scan, keys)
    OBVIOUS
  <2>2. /\ IsSeq(y) /\ DOMAIN y = DOMAIN keys
        /\ \A q \in DOMAIN keys : y[q] = Scan("choice", Append(scan.of, keys[q][3]))
    BY <1>1, <1>5, <2>1, ChoicesSought
  <2>3. \A of : KnownScan(Scan("choice", of))
    <3>1. TAKE of
    <3>2. PICK x : x = Scan("choice", of) /\ x.what = "choice"
      BY ScanIs
    <3>3. KnownScan(x)
      BY <3>2 DEF KnownScan
    <3>4. QED
      BY <3>2, <3>3
  <2>4. \A i \in DOMAIN y : KnownScan(y[i])
    BY <2>2, <2>3, Zenon
  <2>5. QED
    BY <2>1, <2>2, <2>4 DEF KnownScans
<1>6. CASE /\ ~(scan.what = "texts of user" /\ keys # <<>>)
           /\ scan.what \notin {"fragments", "fragments of user", "ballots"}
  <2>1. ScansFor(scan, keys) = <<>>
    BY <1>6 DEF ScansFor
  <2>2. IsSeq(<<>>) /\ DOMAIN <<>> = {}
    BY EmptyIsSeq
  <2>3. QED
    BY <2>1, <2>2 DEF KnownScans
<1>7. QED
  BY <1>2, <1>3, <1>4, <1>5, <1>6

LEMMA CollectClears ==
  ASSUME RoundsInv, WholeInv, VotesShaped, Firm, NEW a, NEW scans, IsSeq(a), Clears(a, scans),
         KnownScans(scans), scans # <<>>, NEW keys \in SetToSeqs(Found(Head(scans)))
  PROVE  LET b == a \o OpsBefore(Head(scans)) \o Collected(Head(scans), keys)
             next == ScansFor(Head(scans), keys) \o Tail(scans)
         IN  Clears(b, next) /\ KnownScans(next)
<1>1. PICK scan, rest, more : scan = Head(scans) /\ rest = Tail(scans) /\ more = ScansFor(scan, keys)
  OBVIOUS
<1>2. KnownScan(scan) /\ KnownScans(rest) /\ keys \in SetToSeqs(Found(scan)) /\ IsSeq(scans)
  BY <1>1, KnownTail DEF KnownScans
<1>3. KnownScans(more)
  BY <1>1, <1>2, KnownNext
<1>4. IsSeq(rest) /\ IsSeq(more)
  BY <1>2, <1>3 DEF KnownScans
<1>5. IsSeq(keys) /\ \A q \in DOMAIN keys : keys[q] \in Found(scan)
  BY <1>2, FoundIs
<1>6. PICK m, n : m = OpsBefore(scan) /\ n = Collected(scan, keys)
  OBVIOUS
<1>7. /\ IsSeq(m) /\ IsSeq(n)
      /\ scan.what \in {"votes", "ballots"} => Gone(m, scan.of)
      /\ scan.what = "choice" => Gone(m, Vote(scan.of[4], scan.of[5]))
      /\ \A f : Gone(m, Fragment(f)) => scan.what \in {"votes", "ballots"} /\ f = scan.of[4]
      /\ \A f : ~Gone(n, Fragment(f))
  <2>1. Erases(n)
    BY <1>5, <1>6, CollectedAre
  <2>2. \A f : ~Gone(n, Fragment(f))
    BY <1>2, <1>6, CollectedKeep
  <2>3. QED
    BY <1>2, <1>6, <2>1, <2>2, BeforeIs DEF Erases
<1>8. PICK c, b, all : c = a \o m /\ b = c \o n /\ all = more \o rest
  OBVIOUS
<1>9. \A k : Gone(b, k) <=> Gone(a, k) \/ Gone(m, k) \/ Gone(n, k)
  <2>1. IsSeq(c)
    BY <1>7, <1>8, EraseConcat
  <2>2. \A k : Gone(c, k) <=> Gone(a, k) \/ Gone(m, k)
    BY <1>7, <1>8, GoneConcat
  <2>3. \A k : Gone(b, k) <=> Gone(c, k) \/ Gone(n, k)
    BY <1>7, <1>8, <2>1, GoneConcat
  <2>4. QED
    BY <2>2, <2>3
<1>10. \A k : Sought(more, k) \/ Sought(rest, k) => Sought(all, k)
  BY <1>4, <1>8, SoughtConcat
<1>11. ASSUME NEW k, NEW f, Leads(k, f), Has(k), Gone(b, Fragment(f))
       PROVE  Gone(b, k) \/ Sought(all, k)
  <2>1. Gone(a, Fragment(f)) \/ Gone(m, Fragment(f))
    BY <1>7, <1>9, <1>11
  <2>2. CASE Gone(a, Fragment(f))
    <3>1. Gone(a, k) \/ Sought(scans, k)
      BY <1>11, <2>2, Zenon DEF Clears
    <3>2. Sought(scans, k) => Sought(rest, k) \/ (scan.what = "choice" /\ k = Vote(scan.of[4], scan.of[5]))
      BY <1>1, <1>2, SoughtTail
    <3>3. QED
      BY <1>7, <1>9, <1>10, <3>1, <3>2
  <2>3. CASE Gone(m, Fragment(f))
    <3>1. scan.what \in {"votes", "ballots"} /\ f = scan.of[4]
      BY <1>7, <2>3
    <3>2. Indexes(scan.of)
      BY <1>2, <3>1 DEF KnownScan
    <3>3. CASE k[1] = "fragmentindex"
      <4>1. k[4] = f
        BY <1>11, <3>3 DEF Leads
      <4>2. k = scan.of
        BY <1>11, <3>1, <3>2, <3>3, <4>1 DEF Indexes
      <4>3. QED
        BY <1>7, <1>9, <3>1, <4>2
    <3>4. CASE k[1] # "fragmentindex"
      <4>1. k[1] = "vote" /\ k[2] = f
        BY <1>11, <3>4 DEF Leads
      <4>2. k \in Found(scan)
        BY <1>11, <3>1, <4>1, VotesFound
      <4>3. PICK q \in DOMAIN keys : keys[q] = k
        BY <1>2, <4>2, FoundAll
      <4>4. CASE scan.what = "votes"
        BY <1>5, <1>6, <1>9, <4>3, <4>4, VotesCollected
      <4>5. CASE scan.what = "ballots"
        <5>1. PICK of, u : of = Append(scan.of, u) /\ u = k[3]
          OBVIOUS
        <5>2. q \in DOMAIN more /\ more[q] = Scan("choice", of)
          BY <1>1, <1>5, <4>3, <4>5, <5>1, ChoicesSought
        <5>3. of[4] = f /\ of[5] = u
          BY <3>1, <3>2, <5>1, BallotIs DEF Indexes
        <5>4. more[q].what = "choice" /\ more[q].of = of
          BY <5>2, ScanIs
        <5>5. k = Vote(f, u)
          BY <1>11, <4>1, <5>1 DEF VotesShaped, Coming
        <5>6. more[q].of[4] = f /\ more[q].of[5] = u
          BY <5>3, <5>4
        <5>7. k = Vote(more[q].of[4], more[q].of[5])
          BY <5>5, <5>6
        <5>8. Sought(more, k)
          BY <5>2, <5>4, <5>7, Zenon DEF Sought
        <5>9. QED
          BY <1>10, <5>8
      <4>6. QED
        BY <3>1, <4>4, <4>5
    <3>5. QED
      BY <3>3, <3>4
  <2>4. QED
    BY <2>1, <2>2, <2>3
<1>12. Clears(b, all)
  BY <1>11, Zenon DEF Clears
<1>13. KnownScans(all)
  BY <1>2, <1>3, <1>8, KnownConcat
<1>14. QED
  BY <1>1, <1>6, <1>8, <1>12, <1>13

-----------------------------------------------------------------------------
(* The steps of a deletion.                                                *)

LEMMA EmptyGone == \A k : ~Gone(<<>>, k)
BY DEF Gone, EraseAt

LEMMA DeletionIsAlone ==
  ASSUME RoundsInv, WholeInv, LinkInv, ~unclean, NEW p \in Proc, Deleting(p), ops[p] = <<>>
  PROVE  (\A q \in Proc : q # p => call[q].pc = "idle") /\ Firm
<1>1. LinksOK
  BY DEF LinkInv
<1>2. \A q \in Proc : q # p => call[q].pc = "idle"
  BY <1>1, Zenon DEF LinksOK, Alone
<1>3. \A q \in Proc : ops[q] = <<>>
  BY <1>2, IdleHasNoBatch
<1>4. ASSUME NEW k, NEW f, Leads(k, f), Has(k)
      PROVE  Has(Fragment(f))
  <2>1. \A q \in Proc : ~Gone(ops[q], k)
    BY <1>3, EmptyGone
  <2>2. QED
    BY <1>1, <1>4, <2>1, Zenon DEF LinksOK, Kept
<1>5. QED
  BY <1>2, <1>4, Zenon DEF Firm

LEMMA CollectLink ==
  ASSUME RoundsInv, WholeInv, LinkInv, NEW p \in Proc, Collect(p)
  PROVE  LinkInv'
<1> DEFINE c == call[p]
           scan == Head(c.scans)
<1>1. /\ c.pc = "collect" /\ db' = db /\ DeleteCall(c) /\ ops[p] = <<>>
      /\ interrupted' = interrupted /\ unclean' = unclean
  BY SameCall DEF Collect, At, CallOK, history
<1>2. PICK keys \in SetToSeqs(Found(scan)) :
        LET batch == c.batch \o OpsBefore(scan) \o Each(keys, LAMBDA k : OpsFor(scan, k))
            scans == ScansFor(scan, keys) \o Tail(c.scans)
            after == IF c.target \in User THEN "next" ELSE "deleted"
        IN  IF scans = <<>>
              THEN /\ ops' = [ops EXCEPT ![p] = batch]
                   /\ Becomes(p, [c EXCEPT !.pc = after, !.batch = <<>>, !.scans = <<>>])
              ELSE /\ Becomes(p, [c EXCEPT !.batch = batch, !.scans = scans])
                   /\ UNCHANGED ops
  BY Zenon DEF Collect
<1> DEFINE each == Each(keys, LAMBDA k : OpsFor(scan, k))
           batch == c.batch \o OpsBefore(scan) \o each
           scans == ScansFor(scan, keys) \o Tail(c.scans)
           after == IF c.target \in User THEN "next" ELSE "deleted"
           last == [c EXCEPT !.pc = after, !.batch = <<>>, !.scans = <<>>]
           more == [c EXCEPT !.batch = batch, !.scans = scans]
<1>3. each = Collected(scan, keys)
  BY Zenon DEF Collected
<1> HIDE DEF each
<1>4. \/ call' = [call EXCEPT ![p] = last] /\ ops' = [ops EXCEPT ![p] = batch] /\ scans = <<>>
      \/ call' = [call EXCEPT ![p] = more] /\ ops' = ops
  BY <1>2, Zenon DEF Becomes, each
<1>5. /\ Erases(c.batch) /\ Safe(c.batch) /\ ScansOK(c.batch, c.scans) /\ c.scans # <<>>
  <2>1. DeletesOK(c) /\ Erases(c.batch)
    BY <1>1 DEF WholeInv, BatchesOK, DeleteCall
  <2>2. QED
    BY <1>1, <2>1 DEF DeletesOK
<1>6. Erases(batch)
  BY <1>3, <1>5, CollectGood
<1>7. ~unclean => /\ \A q \in Proc : q # p => call[q].pc = "idle"
                  /\ Clears(batch, scans) /\ KnownScans(scans)
  <2>1. HAVE ~unclean
  <2>2. Deleting(p)
    BY <1>1 DEF Deleting
  <2>3. (\A q \in Proc : q # p => call[q].pc = "idle") /\ Firm
    BY <1>1, <2>1, <2>2, DeletionIsAlone
  <2>4. Clears(c.batch, c.scans) /\ KnownScans(c.scans) /\ VotesShaped
    BY <1>1, <2>1 DEF LinkInv, LinksOK
  <2>5. IsSeq(c.batch)
    BY <1>5 DEF Erases
  <2>6. Clears(batch, scans) /\ KnownScans(scans)
    BY <1>3, <1>5, <2>3, <2>4, <2>5, CollectClears
  <2>7. QED
    BY <2>3, <2>6
<1>8. /\ last.pc \in {"next", "deleted"}
      /\ more.pc = "collect" /\ more.batch = batch /\ more.scans = scans
  <2> HIDE DEF batch, scans
  <2>1. QED
    BY <1>1 DEF DeleteCall
<1>9. PICK b, d, e, x : b = batch /\ d = last /\ e = more /\ x = scans
  OBVIOUS
<1> HIDE DEF batch, scans, last, more
<1>10. \A i, k : ~PutsAt(b, i, k)
  BY <1>6, <1>9, Zenon DEF Erases, PutsAt
<1>11. ~unclean' => /\ \A q \in Proc : q # p => call[q].pc = "idle"
                    /\ Clears(b, x) /\ KnownScans(x)
  BY <1>1, <1>7, <1>9
<1>12. CASE call' = [call EXCEPT ![p] = last] /\ ops' = [ops EXCEPT ![p] = batch] /\ scans = <<>>
  <2>1. Moves(p, d, b)
    BY <1>1, <1>9, <1>12 DEF Moves, Local
  <2>2. d.pc \in Deletion /\ d.pc # "collect"
    BY <1>8, <1>9 DEF Deletion
  <2>3. \A k : ~Sought(<<>>, k)
    BY DEF Sought
  <2>4. ~unclean' => \A k, f : Leads(k, f) /\ Has(k) /\ Gone(b, Fragment(f)) => Gone(b, k)
    <3>1. x = <<>>
      BY <1>9, <1>12
    <3>2. QED
      BY <1>11, <2>3, <3>1, Zenon DEF Clears
  <2>5. QED
    BY <1>10, <1>11, <2>1, <2>2, <2>4, LinkErases
<1>13. CASE call' = [call EXCEPT ![p] = more] /\ ops' = ops
  <2>1. ops = [ops EXCEPT ![p] = ops[p]]
    BY OwnBatchIsKnown
  <2>2. Moves(p, e, <<>>)
    BY <1>1, <1>9, <1>13, <2>1 DEF Moves, Local
  <2>3. e.pc \in Deletion /\ e.batch = b /\ e.scans = x
    BY <1>8, <1>9 DEF Deletion
  <2>4. \A i, k : ~PutsAt(<<>>, i, k)
    BY DEF PutsAt
  <2>5. ~unclean' => <<>> = <<>> /\ Clears(e.batch, e.scans) /\ KnownScans(e.scans)
    BY <1>11, <2>3
  <2>6. QED
    BY <1>11, <2>2, <2>3, <2>4, <2>5, EmptyGone, LinkErases
<1>14. QED
  BY <1>4, <1>12, <1>13

LEMMA EasyKnown ==
  ASSUME NEW scans, Easy(scans)
  PROVE  KnownScans(scans)
BY DEF Easy, KnownScans, KnownScan

LEMMA NextCascadeLink ==
  ASSUME RoundsInv, WholeInv, LinkInv, NEW p \in Proc, NextCascade(p)
  PROVE  LinkInv'
<1>1. PICK c : c = call[p]
  OBVIOUS
<1>2. /\ c.pc = "next" /\ db' = db /\ ops' = ops /\ ops[p] = <<>> /\ DeleteCall(c)
      /\ interrupted' = interrupted /\ unclean' = unclean
  BY <1>1, SameCall DEF NextCascade, At, CallOK, history
<1>3. DeletesOK(c)
  BY <1>1 DEF WholeInv, BatchesOK
<1>4. c.batch = <<>> /\ IsSeq(c.then) /\ \A i \in DOMAIN c.then : Easy(c.then[i])
  BY <1>2, <1>3 DEF DeletesOK
<1> DEFINE d == [c EXCEPT !.pc = "collect", !.scans = Head(c.then), !.then = Tail(c.then)]
<1>5. call' = [call EXCEPT ![p] = Idle] \/ (call' = [call EXCEPT ![p] = d] /\ c.then # <<>>)
  BY <1>1 DEF NextCascade, Becomes
<1>6. d.pc = "collect" /\ d.batch = <<>> /\ d.scans = Head(c.then) /\ Idle.pc = "idle"
  BY <1>2, <1>4 DEF DeleteCall, Idle
<1> HIDE DEF d
<1>7. ops = [ops EXCEPT ![p] = ops[p]]
  BY OwnBatchIsKnown
<1>8. ~unclean' => \A q \in Proc : q # p => call[q].pc = "idle"
  <2>1. Deleting(p)
    BY <1>1, <1>2 DEF Deleting
  <2>2. QED
    BY <1>2, <2>1, DeletionIsAlone
<1>9. (\A i, k : ~PutsAt(<<>>, i, k)) /\ \A scans : Clears(<<>>, scans)
  BY EmptyGone DEF PutsAt, Clears
<1>10. CASE call' = [call EXCEPT ![p] = Idle]
  <2>1. Moves(p, Idle, <<>>)
    BY <1>2, <1>7, <1>10 DEF Moves, Local
  <2>2. QED
    BY <1>6, <1>8, <1>9, <2>1, EmptyGone, LinkErases
<1>11. CASE call' = [call EXCEPT ![p] = d] /\ c.then # <<>>
  <2>1. Moves(p, d, <<>>)
    BY <1>2, <1>7, <1>11 DEF Moves, Local
  <2>2. PICK then : then = c.then
    OBVIOUS
  <2>3. Easy(Head(then))
    <3>1. Head(then) = then[1] /\ 1 \in DOMAIN then
      BY <1>4, <1>11, <2>2, SeqHead
    <3>2. QED
      BY <1>4, <2>2, <3>1
  <2>4. KnownScans(d.scans) /\ Clears(d.batch, d.scans)
    BY <1>6, <1>9, <2>2, <2>3, EasyKnown
  <2>5. d.pc \in Deletion
    BY <1>6 DEF Deletion
  <2>6. QED
    BY <1>8, <1>9, <2>1, <2>4, <2>5, EmptyGone, LinkErases
<1>12. QED
  BY <1>5, <1>10, <1>11

\* A deletion begins with scans that nothing collected leads to yet.
LEMMA StartDeleteLink ==
  ASSUME RoundsInv, WholeInv, LinkInv, NEW p \in Proc, NEW u, NEW t, NEW batch, NEW scans, NEW then,
         StartDelete(p, u, t, batch, scans, then), db' = db, ops' = ops, interrupted' = interrupted,
         \A f : ~Gone(batch, Fragment(f)), KnownScans(scans)
  PROVE  LinkInv'
<1> DEFINE c == [pc |-> "collect", user |-> u, target |-> t, batch |-> batch, scans |-> scans, then |-> then]
<1>1. /\ call' = [call EXCEPT ![p] = c] /\ call[p].pc = "idle"
      /\ unclean' = (unclean \/ Meets(p, "delete"))
  BY Zenon DEF StartDelete, Becomes, Arrives
<1>2. c.pc = "collect" /\ c.batch = batch /\ c.scans = scans
  OBVIOUS
<1> HIDE DEF c
<1>3. ops[p] = <<>> /\ ops = [ops EXCEPT ![p] = ops[p]]
  BY <1>1, IdleHasNoBatch, OwnBatchIsKnown
<1>4. Moves(p, c, <<>>)
  BY <1>1, <1>3 DEF Moves, Local
<1>5. ~unclean' => \A q \in Proc : q # p => call[q].pc = "idle"
  <2>1. ~unclean' => ~Meets(p, "delete")
    BY <1>1
  <2>2. QED
    BY <2>1, MeetsIs
<1>6. Clears(c.batch, c.scans) /\ KnownScans(c.scans)
  BY <1>2 DEF Clears
<1>7. c.pc \in Deletion
  BY <1>2 DEF Deletion
<1>8. \A i, k : ~PutsAt(<<>>, i, k)
  BY DEF PutsAt
<1>9. QED
  BY <1>4, <1>5, <1>6, <1>7, <1>8, EmptyGone, LinkErases

LEMMA DeleteTextLink ==
  ASSUME RoundsInv, WholeInv, LinkInv, NEW p \in Proc, NEW u, NEW t \in Texts, DeleteText(p, u, t)
  PROVE  LinkInv'
<1>1. PICK tags : tags = SetToSeq(db[Text(t)].tags)
  OBVIOUS
<1>2. PICK a, m : a = TextOps(t) /\ m = [i \in DOMAIN tags |-> Delete(TagIndex(tags[i], t))]
  OBVIOUS
<1>3. PICK v, w, x, y :
        /\ v = Scan("rounds", {t}) /\ w = Scan("fragments", t) /\ x = Scan("choices", t)
        /\ y = Scan("subscriptions", t)
  OBVIOUS
<1>4. PICK scans : scans = << v, w, x, y >>
  OBVIOUS
<1>5. /\ StartDelete(p, u, t, a \o m, scans, <<>>)
      /\ db' = db /\ ops' = ops /\ interrupted' = interrupted
  BY <1>1, <1>2, <1>3, <1>4, Zenon DEF DeleteText
<1>6. Has(Text(t)) /\ IsText(db[Text(t)])
  BY TextsAreThere, TextIs
<1>7. IsSeq(tags)
  BY <1>1, <1>6, SetToSeqIs DEF IsText, IsSeq
<1>8. Id(t) /\ ~Pending(Text(t))
  <2>1. Id(t)
    BY <1>6, LiveIs DEF Live, Coming
  <2>2. ~Pending(Text(t))
    BY <1>6, Zenon DEF WholeInv, TextOnce
  <2>3. QED
    BY <2>1, <2>2
<1>9. IsSeq(a)
  BY <1>2, <1>8, TextOpsSafe
<1>10. IsSeq(m)
  <2>1. m \in Seq({Delete(TagIndex(tags[i], t)) : i \in DOMAIN tags})
    BY <1>2, <1>7, SeqIs
  <2>2. QED
    BY <2>1 DEF IsSeq
<1>11. \A f : ~Gone(m, Fragment(f))
  <2>1. ASSUME NEW i, NEW k, EraseAt(m, i, k)
        PROVE  k[1] = "tagindex"
    <3>1. i \in DOMAIN tags /\ m[i] = Delete(TagIndex(tags[i], t)) /\ m[i].key = k
      BY <1>2, <2>1 DEF EraseAt
    <3>2. k = TagIndex(tags[i], t)
      BY <3>1, OpIs
    <3>3. QED
      BY <3>2, KeyIs
  <2>2. \A f : Fragment(f)[1] = "fragment"
    BY KeyIs
  <2>3. \A f, i : ~EraseAt(m, i, Fragment(f))
    BY <2>1, <2>2
  <2>4. QED
    BY <2>3, Zenon DEF Gone
<1>12. \A f : ~Gone(a, Fragment(f))
  <2>1. PICK b, c, d, e : b = Text(t) /\ c = CurrentRound(t) /\ d = RoundCount(t) /\ e = SupersededBy(t)
    OBVIOUS
  <2>2. PICK i, j, k, l : /\ i = Delete(b) /\ j = Delete(c) /\ k = Delete(d) /\ l = Delete(e)
                          /\ i.key = b /\ j.key = c /\ k.key = d /\ l.key = e
    BY OpIs
  <2>3. a = << i, j, k, l >>
    BY <1>2, <2>1, <2>2 DEF TextOps
  <2>4. \A n \in DOMAIN a : a[n] = i \/ a[n] = j \/ a[n] = k \/ a[n] = l
    BY <2>3, FourAt
  <2>5. \A f : Fragment(f) # b /\ Fragment(f) # c /\ Fragment(f) # d /\ Fragment(f) # e
    <3>1. /\ b[1] = "text" /\ c[1] = "currentround" /\ d[1] = "roundcount" /\ e[1] = "supersededby"
          /\ \A f : Fragment(f)[1] = "fragment"
      BY <2>1, KeyIs
    <3>2. QED
      BY <3>1
  <2>6. \A f, n : ~EraseAt(a, n, Fragment(f))
    BY <2>2, <2>4, <2>5, Zenon DEF EraseAt
  <2>7. QED
    BY <2>6, Zenon DEF Gone
<1>13. \A f : ~Gone(a \o m, Fragment(f))
  BY <1>9, <1>10, <1>11, <1>12, GoneConcat
<1>14. KnownScans(scans)
  <2>1. v.what = "rounds" /\ w.what = "fragments" /\ x.what = "choices" /\ y.what = "subscriptions"
    BY <1>3, ScanIs
  <2>2. KnownScan(v) /\ KnownScan(w) /\ KnownScan(x) /\ KnownScan(y)
    BY <2>1 DEF KnownScan
  <2>3. QED
    BY <1>4, <2>2, FourAt DEF KnownScans
<1>15. QED
  BY <1>5, <1>13, <1>14, StartDeleteLink

LEMMA DeleteUserLink ==
  ASSUME RoundsInv, WholeInv, LinkInv, NEW p \in Proc, NEW u, NEW victim, DeleteUser(p, u, victim)
  PROVE  LinkInv'
<1>1. PICK scans, then : scans = Cascade(victim)[1] /\ then = Tail(Cascade(victim))
  OBVIOUS
<1>2. /\ StartDelete(p, u, victim, <<>>, scans, then)
      /\ db' = db /\ ops' = ops /\ interrupted' = interrupted
  BY <1>1 DEF DeleteUser
<1>3. PICK w : w = Scan("texts of user", victim) /\ w.what = "texts of user"
  BY ScanIs
<1>4. scans = << w >>
  BY <1>1, <1>3 DEF Cascade
<1>5. KnownScan(w)
  BY <1>3 DEF KnownScan
<1>6. KnownScans(scans)
  BY <1>4, <1>5, OneAt DEF KnownScans
<1>7. QED
  BY <1>2, <1>6, EmptyGone, StartDeleteLink

\* One operation of a batch.
LEMMA ApplyLink ==
  ASSUME RoundsInv, WholeInv, LinkInv, NEW p \in Proc, ApplyOp(p)
  PROVE  LinkInv'
<1>1. /\ IsSeq(ops[p]) /\ ops[p] # <<>> /\ ops'[p] = Tail(ops[p])
      /\ \A q \in Proc : q # p => ops'[q] = ops[q]
      /\ \A q \in Proc : call'[q] = call[q] \/ (call'[q] = Idle /\ ops'[q] = <<>>)
      /\ \A k : Has(k) => Has(k)' \/ EraseAt(ops[p], 1, k)
      /\ \A k : PutsAt(ops[p], 1, k) => Has(k)'
      /\ \A k : EraseAt(ops[p], 1, k) => ~Has(k)'
  BY ApplyIs
<1>2. \A k : Has(k)' => Has(k) \/ PutsAt(ops[p], 1, k)
  <2>1. \A k, v : Stored(k, v)' => Stored(k, v) \/ PutAt(ops[p], 1, k, v)
    BY ApplyIs
  <2>2. ASSUME NEW k, Has(k)'
        PROVE  Has(k) \/ PutsAt(ops[p], 1, k)
    <3>1. PICK v : v = db'[k]
      OBVIOUS
    <3>2. Stored(k, v)'
      BY <2>2, <3>1 DEF Stored, Has
    <3>3. Stored(k, v) \/ PutAt(ops[p], 1, k, v)
      BY <2>1, <3>2
    <3>4. QED
      BY <3>3 DEF Stored, PutAt, PutsAt, Has
  <2>3. QED
    BY <2>2
<1>3. /\ \A i, k : PutsAt(ops'[p], i, k) => i \in Nat /\ PutsAt(ops[p], i + 1, k)
      /\ \A i, k : EraseAt(ops'[p], i, k) => i \in Nat /\ EraseAt(ops[p], i + 1, k)
      /\ \A i, k : PutsAt(ops[p], i, k) => i = 1 \/ (i - 1 \in Nat /\ PutsAt(ops'[p], i - 1, k))
      /\ \A i, k : EraseAt(ops[p], i, k) => i = 1 \/ (i - 1 \in Nat /\ EraseAt(ops'[p], i - 1, k))
      /\ \A i, k : PutsAt(ops[p], i, k) \/ EraseAt(ops[p], i, k) => i \in Nat
  BY <1>1, TailShift
<1>4. Idle.pc = "idle" /\ call[p].pc # "idle"
  BY <1>1, IdleHasNoBatch DEF Idle
<1>5. \A q \in Proc : Deleting(q)' => Deleting(q)
  BY <1>1, <1>4 DEF Deleting
<1>6. \A q \in Proc : \A k : Gone(ops'[q], k) => Gone(ops[q], k)
  BY <1>1, <1>3, Zenon DEF Gone
<1>7. VotesShaped'
  <2>1. ASSUME NEW k, Pending(k)'
        PROVE  Pending(k)
    <3>1. PICK q \in Proc : \E i : PutsAt(ops'[q], i, k)
      BY <2>1 DEF Pending
    <3>2. \E i : PutsAt(ops[q], i, k)
      BY <1>1, <1>3, <3>1
    <3>3. QED
      BY <3>2 DEF Pending
  <2>2. ASSUME NEW k, Coming(k)'
        PROVE  Coming(k)
    <3>1. Has(k)' => Has(k) \/ Pending(k)
      BY <1>2 DEF Pending
    <3>2. QED
      BY <2>1, <2>2, <3>1 DEF Coming
  <2>3. QED
    BY <2>2, Zenon DEF LinkInv, VotesShaped
<1> SUFFICES ASSUME ~unclean'
             PROVE  LinksOK'
  BY <1>7 DEF LinkInv
<1>8. LinksOK
  BY DEF LinkInv, ApplyOp, meta
<1>9. Alone'
  <2> SUFFICES ASSUME NEW q \in Proc, NEW r \in Proc, Deleting(q)', r # q
               PROVE  call'[r].pc = "idle"
    BY Zenon DEF Alone
  <2>1. call[r].pc = "idle"
    BY <1>5, <1>8 DEF LinksOK, Alone
  <2>2. QED
    BY <1>1, <1>4, <2>1
<1>10. \A q \in Proc : q # p => ~Deleting(q)
  BY <1>4, <1>8 DEF LinksOK, Alone
<1>11. \A f : EraseAt(ops[p], 1, Fragment(f)) => Deleting(p)
  <2>1. \A f : Fragment(f)[1] = "fragment"
    BY KeyIs
  <2>2. ~Deleting(p) => \A k : EraseAt(ops[p], 1, k) => k[1] # "fragment"
    BY <1>8, Zenon DEF LinksOK, Founded
  <2>3. QED
    BY <2>1, <2>2
<1>12. \A f : Kept(f) => Kept(f)'
  <2> SUFFICES ASSUME NEW f, Kept(f)
               PROVE  Kept(f)'
    OBVIOUS
  <2>1. Has(Fragment(f)) /\ \A q \in Proc : ~Gone(ops[q], Fragment(f))
    BY DEF Kept
  <2>2. Has(Fragment(f))'
    BY <1>1, <2>1 DEF Gone
  <2>3. \A q \in Proc : ~Gone(ops'[q], Fragment(f))
    BY <1>6, <2>1
  <2>4. QED
    BY <2>2, <2>3, Zenon DEF Kept
<1>13. ASSUME NEW k, NEW f, Leads(k, f), Has(k)'
       PROVE  Kept(f)' \/ \E q \in Proc : Deleting(q)' /\ Gone(ops'[q], k)
  <2>1. CASE Has(k) /\ Kept(f)
    BY <1>12, <2>1
  <2>2. CASE Has(k) /\ ~Kept(f)
    <3>1. PICK q \in Proc : Deleting(q) /\ Gone(ops[q], k)
      BY <1>8, <1>13, <2>2, Zenon DEF LinksOK
    <3>2. q = p
      BY <1>10, <3>1
    <3>3. PICK i : EraseAt(ops[p], i, k)
      BY <3>1, <3>2 DEF Gone
    <3>4. i # 1
      BY <1>1, <1>13, <3>3
    <3>5. Gone(ops'[p], k)
      BY <1>3, <3>3, <3>4 DEF Gone
    <3>6. ops'[p] # <<>>
      BY <3>5 DEF Gone, EraseAt
    <3>7. Deleting(p)'
      BY <1>1, <3>1, <3>2, <3>6 DEF Deleting
    <3>8. QED
      BY <3>5, <3>7
  <2>3. CASE ~Has(k)
    <3>1. PutsAt(ops[p], 1, k)
      BY <1>2, <1>13, <2>3
    <3>2. ~Deleting(p)
      BY <1>8, <3>1 DEF LinksOK
    <3>3. Founded(ops[p])
      BY <1>8, <3>2 DEF LinksOK
    <3>4. Has(Fragment(f)) \/ \E j : j < 1 /\ PutsAt(ops[p], j, Fragment(f))
      BY <1>13, <3>1, <3>3, Zenon DEF Founded
    <3>5. \A j, k2 : PutsAt(ops[p], j, k2) => j >= 1
      BY <1>1, SeqIs DEF PutsAt
    <3>6. Has(Fragment(f))
      <4>1. \A j, k2 : PutsAt(ops[p], j, k2) => ~(j < 1)
        BY <1>3, <3>5
      <4>2. QED
        BY <3>4, <4>1, Zenon
    <3>7. Has(Fragment(f))'
      BY <1>1, <1>11, <3>2, <3>6
    <3>8. \A q \in Proc : ~Gone(ops[q], Fragment(f))
      <4>1. \A q \in Proc : Founded(ops[q])
        BY <1>8, <1>10, <3>3 DEF LinksOK
      <4>2. Fragment(f)[1] = "fragment"
        BY KeyIs
      <4>3. QED
        BY <4>1, <4>2, Zenon DEF Founded, Gone
    <3>9. QED
      BY <1>6, <3>7, <3>8, Zenon DEF Kept
  <2>4. QED
    BY <2>1, <2>2, <2>3
<1>14. ASSUME NEW q \in Proc, ~Deleting(q)'
       PROVE  Founded(ops[q])'
  <2>1. CASE ops'[q] = <<>>
    <3>1. Founded(<<>>)'
      BY DEF Founded, PutsAt, EraseAt
    <3>2. QED
      BY <2>1, <3>1
  <2>2. CASE ops'[q] # <<>>
    <3>1. ~Deleting(q) /\ Founded(ops[q])
      <4>1. call'[q] = call[q]
        BY <1>1, <2>2
      <4>2. ~Deleting(q)
        BY <1>14, <4>1 DEF Deleting
      <4>3. QED
        BY <1>8, <4>2 DEF LinksOK
    <3>2. CASE q # p
      <4>1. \A f : Has(Fragment(f)) => Has(Fragment(f))'
        <5>1. ~Deleting(p)
          <6>1. call[q].pc # "idle"
            BY <1>1, <2>2, <3>2, IdleHasNoBatch
          <6>2. QED
            BY <1>8, <3>2, <6>1 DEF LinksOK, Alone
        <5>2. QED
          BY <1>1, <1>11, <5>1
      <4>2. ops'[q] = ops[q]
        BY <1>1, <3>2
      <4>3. QED
        BY <3>1, <4>1, <4>2, Zenon DEF Founded
    <3>3. CASE q = p
      <4>1. \A f : Has(Fragment(f)) => Has(Fragment(f))'
        BY <1>1, <1>11, <3>1, <3>3
      <4>2. ASSUME NEW i, NEW k, NEW f, PutsAt(ops'[p], i, k), Leads(k, f)
            PROVE  Has(Fragment(f))' \/ \E j : j < i /\ PutsAt(ops'[p], j, Fragment(f))
        <5>1. i \in Nat /\ PutsAt(ops[p], i + 1, k)
          BY <1>3, <4>2
        <5>2. CASE Has(Fragment(f))
          BY <4>1, <5>2
        <5>3. CASE \E j : j < i + 1 /\ PutsAt(ops[p], j, Fragment(f))
          <6>1. PICK j : j < i + 1 /\ PutsAt(ops[p], j, Fragment(f))
            BY <5>3
          <6>2. CASE j = 1
            BY <1>1, <6>1, <6>2
          <6>3. CASE j # 1
            <7>1. j \in Nat /\ j - 1 \in Nat /\ PutsAt(ops'[p], j - 1, Fragment(f))
              BY <1>3, <6>1, <6>3
            <7>2. j - 1 < i
              BY <5>1, <6>1, <7>1
            <7>3. QED
              BY <7>1, <7>2
          <6>4. QED
            BY <6>2, <6>3
        <5>4. QED
          BY <3>1, <3>3, <4>2, <5>1, <5>2, <5>3, Zenon DEF Founded
      <4>3. \A i, k : EraseAt(ops'[p], i, k) => k[1] # "fragment"
        BY <1>3, <3>1, <3>3, Zenon DEF Founded
      <4>4. QED
        BY <3>3, <4>2, <4>3, Zenon DEF Founded
    <3>4. QED
      BY <3>2, <3>3
  <2>3. QED
    BY <2>1, <2>2
<1>15. \A q \in Proc : Deleting(q)' => \A i, k : ~PutsAt(ops'[q], i, k)
  <2> SUFFICES ASSUME NEW q \in Proc, Deleting(q)', NEW i, NEW k, PutsAt(ops'[q], i, k)
               PROVE  FALSE
    BY Zenon
  <2>1. q = p /\ Deleting(p)
    BY <1>5, <1>10
  <2>2. PutsAt(ops[p], i + 1, k)
    BY <1>3, <2>1
  <2>3. QED
    BY <1>8, <2>1, <2>2 DEF LinksOK
<1>16. \A q \in Proc : (call[q].pc = "choice" => Has(Fragment(call[q].fragment)))'
  <2> SUFFICES ASSUME NEW q \in Proc, call'[q].pc = "choice", NEW f, f = call'[q].fragment
               PROVE  Fragment(f) \in DOMAIN db'
    BY DEF Has
  <2>1. call'[q] = call[q]
    BY <1>1, <1>4
  <2>2. Has(Fragment(f))
    BY <1>8, <2>1 DEF LinksOK
  <2>3. ~Deleting(p)
    <3>1. call[q].pc = "choice"
      BY <2>1
    <3>2. q = p => ~Deleting(p)
      BY <3>1 DEF Deleting
    <3>3. q # p => ~Deleting(p)
      BY <1>8, <3>1 DEF LinksOK, Alone
    <3>4. QED
      BY <3>2, <3>3
  <2>4. Has(Fragment(f))'
    BY <1>1, <1>11, <2>2, <2>3
  <2>5. QED
    BY <2>4 DEF Has
<1>17. \A q \in Proc : call'[q].pc # "collect"
  <2> SUFFICES ASSUME NEW q \in Proc, call'[q].pc = "collect"
               PROVE  FALSE
    OBVIOUS
  <2>1. call[q].pc = "collect"
    BY <1>1, <1>4
  <2>2. Deleting(q) /\ ops[q] = <<>>
    BY <1>8, <2>1 DEF LinksOK, Deleting
  <2>3. QED
    BY <1>1, <1>10, <2>2
<1>18. QED
  BY <1>9, <1>13, <1>14, <1>15, <1>16, <1>17, Zenon DEF LinksOK

\* A batch that stops half-way leaves what it has done; a deletion's, for good.
LEMMA FailsLink ==
  ASSUME RoundsInv, WholeInv, LinkInv, NEW p \in Proc, Fails(p)
  PROVE  LinkInv'
<1>1. /\ db' = db /\ ops' = [ops EXCEPT ![p] = <<>>] /\ call' = [call EXCEPT ![p] = Idle]
      /\ unclean' = (unclean \/ Deleting(p)) /\ ops[p] # <<>>
  BY DEF Fails, Becomes
<1>2. ops'[p] = <<>> /\ \A q \in Proc : q # p => ops'[q] = ops[q]
  BY <1>1, OthersStay DEF RoundsInv, ShapesOK
<1>3. call'[p].pc = "idle" /\ \A q \in Proc : q # p => call'[q] = call[q]
  <2>1. call'[p] = Idle /\ \A q \in Proc : q # p => call'[q] = call[q]
    BY <1>1, OthersStay DEF RoundsInv, ShapesOK
  <2>2. QED
    BY <2>1 DEF Idle
<1>4. call[p].pc # "idle"
  BY <1>1, IdleHasNoBatch
<1>5. /\ \A k : Has(k)' <=> Has(k)
      /\ \A i, k : ~PutsAt(<<>>, i, k)
  BY <1>1 DEF Has, PutsAt
<1>6. \A k : ~Gone(<<>>, k)
  BY EmptyGone
<1>7. VotesShaped'
  <2>1. \A k : Pending(k)' => Pending(k)
    BY <1>2, <1>5, Zenon DEF Pending
  <2>2. \A k : Coming(k)' => Coming(k)
    BY <1>5, <2>1 DEF Coming
  <2>3. QED
    BY <2>2, Zenon DEF LinkInv, VotesShaped
<1> SUFFICES ASSUME ~unclean'
             PROVE  LinksOK'
  BY <1>7 DEF LinkInv
<1>8. LinksOK /\ ~Deleting(p)
  BY <1>1 DEF LinkInv
<1>9. \A q \in Proc : ~Deleting(q)
  BY <1>4, <1>8 DEF LinksOK, Alone
<1>10. \A q \in Proc : ~Deleting(q)'
  BY <1>3, <1>9 DEF Deleting
<1>11. \A q \in Proc : \A k : Gone(ops'[q], k) => Gone(ops[q], k)
  BY <1>2, <1>6
<1>12. \A k, f : Leads(k, f) /\ Has(k)' => Kept(f)'
  <2> SUFFICES ASSUME NEW k, NEW f, Leads(k, f), Has(k)'
               PROVE  Kept(f)'
    BY Zenon
  <2>1. Kept(f)
    BY <1>5, <1>8, <1>9, Zenon DEF LinksOK
  <2>2. Has(Fragment(f))' /\ \A q \in Proc : ~Gone(ops'[q], Fragment(f))
    BY <1>5, <1>11, <2>1 DEF Kept
  <2>3. QED
    BY <2>2, Zenon DEF Kept
<1>13. \A q \in Proc : Founded(ops[q])'
  <2>1. \A q \in Proc : Founded(ops[q])
    BY <1>8, <1>9 DEF LinksOK
  <2>2. Founded(<<>>)'
    BY DEF Founded, PutsAt, EraseAt
  <2>3. \A q \in Proc : q # p => Founded(ops[q])'
    BY <1>2, <1>5, <2>1, Zenon DEF Founded
  <2>4. QED
    BY <1>2, <2>2, <2>3
<1>14. \A q \in Proc : (call[q].pc = "choice" => Has(Fragment(call[q].fragment)))'
  <2> SUFFICES ASSUME NEW q \in Proc, call'[q].pc = "choice", NEW f, f = call'[q].fragment
               PROVE  Fragment(f) \in DOMAIN db'
    BY DEF Has
  <2>1. call'[q] = call[q]
    BY <1>3
  <2>2. Has(Fragment(f))
    BY <1>8, <2>1 DEF LinksOK
  <2>3. QED
    BY <1>1, <2>2 DEF Has
<1>15. \A q \in Proc : call'[q].pc # "collect"
  BY <1>10 DEF Deleting
<1>16. Alone'
  BY <1>10, Zenon DEF Alone
<1>17. QED
  BY <1>10, <1>12, <1>13, <1>14, <1>15, <1>16, Zenon DEF LinksOK

LEMMA UnchangedLink ==
  ASSUME LinkInv, db' = db, call' = call, ops' = ops, unclean' = unclean
  PROVE  LinkInv'
BY DEF LinkInv, VotesShaped, LinksOK, Alone, Deleting, Kept, Gone, Founded, Clears, Sought,
       KnownScans, KnownScan, Indexes, Coming, Pending, Has

LEMMA InitLink == Init => LinkInv
<1> SUFFICES ASSUME Init
             PROVE  LinkInv
  OBVIOUS
<1>1. DOMAIN db = {} /\ \A p \in Proc : call[p] = Idle /\ ops[p] = <<>>
  BY DEF Init
<1>2. \A p \in Proc : call[p].pc = "idle"
  BY <1>1 DEF Idle
<1>3. \A p \in Proc : ~Deleting(p)
  BY <1>2 DEF Deleting
<1>4. (\A i, k : ~PutsAt(<<>>, i, k)) /\ Founded(<<>>)
  BY DEF Founded, PutsAt, EraseAt
<1>5. \A k : ~Has(k) /\ ~Coming(k)
  BY <1>1, <1>4, Zenon DEF Has, Coming, Pending
<1>6. \A p \in Proc : Founded(ops[p])
  BY <1>1, <1>4
<1>7. \A p \in Proc : call[p].pc # "choice" /\ call[p].pc # "collect"
  BY <1>2
<1>8. VotesShaped
  BY <1>5, Zenon DEF VotesShaped
<1>9. QED
  BY <1>3, <1>5, <1>6, <1>7, <1>8, Zenon DEF LinkInv, LinksOK, Alone

LEMMA StepLink == RoundsInv /\ WholeInv /\ LinkInv /\ [Next]_vars => LinkInv'
<1> SUFFICES ASSUME RoundsInv, WholeInv, LinkInv, [Next]_vars
             PROVE  LinkInv'
  OBVIOUS
<1>1. CASE Calls
  <2>1. PICK p \in Proc, u \in User :
          \/ \E tags \in TagSets : CreateText(p, u, tags)
          \/ \E f \in {k[2] : k \in KeysOf("fragment")} : CastVote(p, u, f)
          \/ \E t \in Texts :
               \/ \E range \in Proposals : ProposeEdit(p, u, t, range)
               \/ ScheduleRoundClose(p, u, t)
               \/ CloseRound(p, u, t)
               \/ Subscribe(p, u, t)
               \/ DeleteText(p, u, t)
          \/ \E t \in Texts \cup {k[2] : k \in KeysOf("subscription")} : Unsubscribe(p, u, t)
          \/ \E victim \in User : DeleteUser(p, u, victim)
    BY <1>1, Zenon DEF Calls
  <2>2. ASSUME NEW tags \in TagSets, CreateText(p, u, tags) PROVE Starts(p)
    BY <2>2, CreateTextStarts
  <2>3. ASSUME NEW t, NEW f, NEW range,
               \/ CastVote(p, u, f) \/ ProposeEdit(p, u, t, range) \/ ScheduleRoundClose(p, u, t)
               \/ CloseRound(p, u, t)
        PROVE  Starts(p)
    BY <2>3, ReadsStart
  <2>4. ASSUME NEW t, Subscribe(p, u, t) \/ Unsubscribe(p, u, t) PROVE Starts(p)
    BY <2>4, SubscribeStarts, UnsubscribeStarts
  <2>5. ASSUME NEW t \in Texts, DeleteText(p, u, t) PROVE LinkInv'
    BY <2>5, DeleteTextLink
  <2>6. ASSUME NEW victim, DeleteUser(p, u, victim) PROVE LinkInv'
    BY <2>6, DeleteUserLink
  <2>7. Starts(p) => LinkInv'
    BY StartsLink
  <2>8. QED
    BY <2>1, <2>2, <2>3, <2>4, <2>5, <2>6, <2>7, Zenon
<1>2. CASE Steps
  <2>1. PICK p \in Proc :
          \/ ApplyOp(p) \/ Fails(p) \/ ReadPointer(p) \/ CheckSuperseded(p) \/ OpenRound(p)
          \/ ResolveCurrent(p) \/ ResolveOpened(p) \/ AddFirstFragment(p) \/ ReadChoice(p)
          \/ Schedule(p) \/ (\E t \in due : CloseDue(p, t)) \/ RoundGone(p) \/ ReadRound(p)
          \/ ReadText(p) \/ Tally(p) \/ Fork(p) \/ Collect(p) \/ NextCascade(p)
    BY <1>2, Zenon DEF Steps
  <2>2. ASSUME NEW t, CloseDue(p, t) PROVE LinkInv'
    <3>1. Starts(p)
      BY <2>2, ReadsStart
    <3>2. QED
      BY <3>1, StartsLink
  <2>3. CASE Fails(p)
    BY <2>3, FailsLink
  <2>4. CASE \/ ReadPointer(p) \/ CheckSuperseded(p) \/ OpenRound(p) \/ ResolveCurrent(p)
             \/ ResolveOpened(p) \/ AddFirstFragment(p) \/ Schedule(p) \/ RoundGone(p)
             \/ ReadRound(p) \/ ReadText(p) \/ Tally(p) \/ Fork(p)
    BY <2>4, StepGoes, GoesLink
  <2>5. CASE ApplyOp(p) \/ ReadChoice(p) \/ Collect(p) \/ NextCascade(p)
    BY <2>5, ApplyLink, ReadChoiceLink, CollectLink, NextCascadeLink
  <2>6. QED
    BY <2>1, <2>2, <2>3, <2>4, <2>5, Zenon
<1>3. CASE Tick
  BY <1>3, UnchangedLink DEF Tick, history
<1>4. CASE UNCHANGED vars
  BY <1>4, UnchangedLink DEF vars, history, meta
<1>5. QED
  BY <1>1, <1>2, <1>3, <1>4 DEF Next

LEMMA LinksResolve == RoundsInv /\ WholeInv /\ LinkInv => IndexesResolve
<1> SUFFICES ASSUME RoundsInv, WholeInv, LinkInv
             PROVE  IndexesResolve
  OBVIOUS
<1>1. PointersResolve
  BY WholeResolves
<1>2. SUFFICES ASSUME ~unclean, ~(\E p \in Proc : Deleting(p))
               PROVE  FragmentsResolve
  BY <1>1 DEF IndexesResolve
<1>3. \A k, f : Leads(k, f) /\ Has(k) => Has(Fragment(f))
  BY <1>2, Zenon DEF LinkInv, LinksOK, Kept
<1>4. ASSUME NEW k \in KeysOf("fragmentindex")
      PROVE  Has(Fragment(k[4])) /\ db[Fragment(k[4])].slot = k[3]
  <2>1. PICK f : f = k[4]
    OBVIOUS
  <2>2. Has(k) /\ k[1] = "fragmentindex" /\ k[4] = f
    BY <2>1 DEF KeysOf, Has
  <2>3. Has(Fragment(f))
    BY <1>3, <2>2 DEF Leads
  <2>4. PICK w : w = db[Fragment(f)]
    OBVIOUS
  <2>5. k = FragmentIndex(w.text, w.slot, f)
    BY <2>2, <2>3, <2>4, IndexOfFragment
  <2>6. k[3] = w.slot
    BY <2>5, KeyIs
  <2>7. QED
    BY <2>1, <2>3, <2>4, <2>6
<1>5. ASSUME NEW k \in KeysOf("vote")
      PROVE  Has(Fragment(k[2]))
  <2>1. Has(k) /\ k[1] = "vote"
    BY DEF KeysOf, Has
  <2>2. Leads(k, k[2])
    BY <2>1 DEF Leads
  <2>3. QED
    BY <1>3, <2>1, <2>2
<1>6. QED
  BY <1>4, <1>5 DEF FragmentsResolve

(* No index and no pointer leads to a record that is not there, for any     *)
(* number of goroutines, texts, proposals and users, whatever batches stop  *)
(* half-way (DueScheduledRounds, Fragments, RoundsForText and TextsByTags   *)
(* fail as a whole on the first that does).  For the entries of fragments   *)
(* and votes this is when no deletion is under way, has met another call or *)
(* has stopped half-way: DeleteText and DeleteUserFragments collect what    *)
(* leads to a fragment along with it, but write nothing at once.            *)
THEOREM IndexesAlwaysResolve == Spec => []IndexesResolve
<1>1. Init => LinkInv
  BY InitLink
<1>2. RoundsInv /\ WholeInv /\ LinkInv /\ [Next]_vars => LinkInv'
  BY StepLink
<1>3. RoundsInv /\ WholeInv /\ LinkInv => IndexesResolve
  BY LinksResolve
<1>4. QED
  BY RecordsStayWhole, <1>1, <1>2, <1>3, PTL DEF Spec
-----------------------------------------------------------------------------
(* The versions of a text.                                                 *)

\* A batch that puts a version of a text puts a new one, and has the version
\* that it replaces lead to it afterwards.
Replaces(b, i, t) == t # 0 => \E j : j > i /\ PutsAt(b, j, SupersededBy(t))
Versions(b) ==
  \A i, t, w : PutAt(b, i, Text(t), w) => t = nextID /\ Id(w.previous) /\ Replaces(b, i, w.previous)

\* A version is later than the one that it replaces, and unless a batch has
\* stopped half-way, that one leads to it or to another.
Born(t, w) == t \in Nat /\ t # 0 /\ w.previous \in Nat /\ w.previous < t
LineageInv ==
  /\ nextID # 0
  /\ \A t, w : Written(Text(t), w) => Born(t, w)
  /\ \A p \in Proc : \A i, t, w : PutAt(ops[p], i, Text(t), w) => Replaces(ops[p], i, w.previous)
  /\ ~interrupted =>
       \A t, w : Stored(Text(t), w) /\ w.previous # 0 /\ Live(w.previous) => Closing(w.previous)

LEMMA NoVersions ==
  ASSUME NEW b, \A i, t : ~PutsAt(b, i, Text(t))
  PROVE  Versions(b)
BY Zenon DEF Versions, PutsAt, PutAt

LEMMA OnlyVersions ==
  ASSUME NEW b, NEW families, Only(b, families), "text" \notin families
  PROVE  Versions(b)
<1>1. \A i, k : PutsAt(b, i, k) => k[1] \in families
  BY OnlyIs
<1>2. \A i, t : ~PutsAt(b, i, Text(t))
  BY <1>1, KeyIs
<1>3. QED
  BY <1>2, NoVersions

LEMMA ErasesVersions ==
  ASSUME NEW b, Erases(b)
  PROVE  Versions(b)
<1>1. \A i, t : ~PutsAt(b, i, Text(t))
  BY Zenon DEF Erases, PutsAt
<1>2. QED
  BY <1>1, NoVersions

LEMMA VersionsConcat ==
  ASSUME NEW a, NEW m, IsSeq(a), Versions(a), Lacks(m, {"text"})
  PROVE  Versions(a \o m)
<1>1. IsSeq(m)
  BY DEF Lacks
<1> DEFINE c == a \o m
<1>2. /\ \A i \in DOMAIN c : \/ i \in DOMAIN a /\ c[i] = a[i]
                             \/ i - Len(a) \in DOMAIN m /\ c[i] = m[i - Len(a)]
      /\ \A i \in DOMAIN a : i \in DOMAIN c /\ c[i] = a[i]
  BY <1>1, ConcatAt
<1> HIDE DEF c
<1>3. \A i, t : ~PutsAt(m, i, Text(t))
  <2>1. \A i, k : PutsAt(m, i, k) => k[1] \notin {"text"}
    BY LacksIs
  <2>2. QED
    BY <2>1, KeyIs
<1>4. \A i, t, w : PutAt(c, i, Text(t), w) => PutAt(a, i, Text(t), w)
  <2> SUFFICES ASSUME NEW i, NEW t, NEW w, PutAt(c, i, Text(t), w)
               PROVE  PutAt(a, i, Text(t), w)
    BY Zenon
  <2>1. CASE i \in DOMAIN a /\ c[i] = a[i]
    BY <2>1 DEF PutAt
  <2>2. CASE i - Len(a) \in DOMAIN m /\ c[i] = m[i - Len(a)]
    <3>1. PutsAt(m, i - Len(a), Text(t))
      BY <2>2 DEF PutAt, PutsAt
    <3>2. QED
      BY <1>3, <3>1
  <2>3. QED
    BY <1>2, <2>1, <2>2 DEF PutAt
<1>5. \A i, k : PutsAt(a, i, k) => PutsAt(c, i, k)
  BY <1>2, Zenon DEF PutsAt
<1>6. \A i, t : Replaces(a, i, t) => Replaces(c, i, t)
  BY <1>5, Zenon DEF Replaces
<1>7. Versions(c)
  BY <1>4, <1>6 DEF Versions
<1>8. QED
  BY <1>7 DEF c

\* The invariant holds after a step that leaves the store alone.
LEMMA LineageLocal ==
  ASSUME RoundsInv, WholeInv, LineageInv, StepOK, NEW p \in Proc, NEW b, db' = db,
         ops' = [ops EXCEPT ![p] = b], ops[p] = <<>>, interrupted' = interrupted, Versions(b)
  PROVE  LineageInv'
<1>1. /\ db' = db /\ ops'[p] = b /\ \A q \in Proc : q # p => ops'[q] = ops[q]
  BY OthersStay DEF RoundsInv, ShapesOK
<1>2. nextID \in Nat /\ nextID' \in Nat /\ nextID <= nextID' /\ nextID # 0
  BY DEF StepOK, Keeps, RoundsInv, ShapesOK, LineageInv
<1>3. \A k, v : Written(k, v)' => Written(k, v) \/ Puts(b, k, v)
  BY <1>1, Zenon DEF Written, Stored
<1>4. ASSUME NEW t, NEW w, Written(Text(t), w)' PROVE Born(t, w)
  <2>1. CASE Written(Text(t), w)
    BY <2>1 DEF LineageInv
  <2>2. CASE Puts(b, Text(t), w)
    <3>1. PICK i : PutAt(b, i, Text(t), w)
      BY <2>2, PutsIs
    <3>2. t = nextID /\ Id(w.previous)
      BY <3>1 DEF Versions
    <3>3. QED
      BY <1>2, <3>2 DEF Born, Id
  <2>3. QED
    BY <1>3, <1>4, <2>1, <2>2
<1>5. ASSUME NEW q \in Proc, NEW i, NEW t, NEW w, PutAt(ops'[q], i, Text(t), w)
      PROVE  Replaces(ops'[q], i, w.previous)
  <2>1. CASE q = p
    BY <1>1, <1>5, <2>1, Zenon DEF Versions
  <2>2. CASE q # p
    BY <1>1, <1>5, <2>2, Zenon DEF LineageInv
  <2>3. QED
    BY <2>1, <2>2
<1>6. ASSUME ~interrupted', NEW t, NEW w, Stored(Text(t), w)', w.previous # 0, Live(w.previous)'
      PROVE  Closing(w.previous)'
  <2>1. PICK y : y = w.previous
    OBVIOUS
  <2>2. Stored(Text(t), w)
    BY <1>1, <1>6 DEF Stored
  <2>3. Written(Text(t), w)
    BY <2>2 DEF Written
  <2>4. Id(t) /\ Born(t, w)
    BY <2>3, Zenon DEF RoundsInv, ContentsOK, HasContent, LineageInv
  <2>5. Live(y)
    <3> SUFFICES ASSUME ~Live(y)
                 PROVE  FALSE
      OBVIOUS
    <3>1. ~Has(Text(y))' /\ Pending(Text(y))'
      BY <1>1, <1>6, <2>1 DEF Live, Coming, Has
    <3>2. PICK q, i : q \in Proc /\ PutsAt(ops'[q], i, Text(y))
      BY <3>1 DEF Pending
    <3>3. q = p /\ PutsAt(b, i, Text(y))
      <4>1. \A j : ~PutsAt(ops[q], j, Text(y))
        BY <3>2, Zenon DEF Live, Coming, Pending
      <4>2. QED
        BY <1>1, <3>2, <4>1
    <3>4. y = nextID
      <4>1. PutAt(b, i, Text(y), b[i].val)
        BY <3>3, PutsIs
      <4>2. QED
        BY <4>1 DEF Versions
    <3>5. QED
      BY <1>2, <2>1, <2>4, <3>4 DEF Born, Id
  <2>6. Closing(y)
    BY <1>6, <2>1, <2>2, <2>5, Zenon DEF LineageInv
  <2>7. Has(SupersededBy(y))' <=> Has(SupersededBy(y))
    BY <1>1 DEF Has
  <2>8. Pending(SupersededBy(y)) => Pending(SupersededBy(y))'
    <3>1. \A i : ~PutsAt(ops[p], i, SupersededBy(y))
      BY DEF PutsAt
    <3>2. QED
      BY <1>1, <3>1, Zenon DEF Pending
  <2>9. QED
    BY <2>1, <2>6, <2>7, <2>8 DEF Closing, Coming
<1>7. nextID' # 0
  BY <1>2
<1>8. QED
  BY <1>4, <1>5, <1>6, <1>7, Zenon DEF LineageInv

LEMMA LineageApply ==
  ASSUME RoundsInv, WholeInv, LineageInv, NEW p \in Proc, ApplyOp(p)
  PROVE  LineageInv'
<1> DEFINE b == ops[p]
<1>0. PICK c : c = Tail(b)
  OBVIOUS
<1>1. /\ IsSeq(b) /\ b # <<>> /\ ops'[p] = c /\ \A q \in Proc : q # p => ops'[q] = ops[q]
      /\ nextID' = nextID /\ interrupted' = interrupted
      /\ \A k : PutsAt(b, 1, k) => Has(k)'
      /\ \A k, v : Stored(k, v)' => Stored(k, v) \/ PutAt(b, 1, k, v)
  BY <1>0, ApplyIs
<1>2. /\ \A i, k, v : PutAt(c, i, k, v) => i \in Nat /\ PutAt(b, i + 1, k, v)
      /\ \A i, k : PutsAt(b, i, k) => i \in Nat /\ (i = 1 \/ (i - 1 \in Nat /\ PutsAt(c, i - 1, k)))
  BY <1>0, <1>1, TailShift
<1>3. /\ \A t : Live(t)' => Live(t)
  BY ApplyNeeds
<1>4. \A t : Closing(t) => Closing(t)' \/ ~Live(t)
  BY ApplySafe
<1>5. \A i, t, w : PutAt(b, i, Text(t), w) => Replaces(b, i, w.previous)
  BY Zenon DEF LineageInv
<1> HIDE DEF b
<1>6. \A k, v : Written(k, v)' => Written(k, v)
  <2> SUFFICES ASSUME NEW k, NEW v, Written(k, v)'
               PROVE  Written(k, v)
    BY Zenon
  <2>1. CASE Stored(k, v)'
    <3>1. CASE PutAt(b, 1, k, v)
      BY <3>1, PutsIs, Zenon DEF Written, b
    <3>2. QED
      BY <1>1, <2>1, <3>1, Zenon DEF Written
  <2>2. CASE \E q \in Proc : Puts(ops'[q], k, v)
    <3>1. PICK q \in Proc : Puts(ops'[q], k, v)
      BY <2>2
    <3>2. CASE q = p
      <4>1. PICK i : PutAt(c, i, k, v)
        BY <1>1, <3>1, <3>2, PutsIs
      <4>2. Puts(b, k, v)
        BY <1>2, <4>1, PutsIs
      <4>3. QED
        BY <4>2 DEF Written, b
    <3>3. QED
      BY <1>1, <3>1, <3>2, Zenon DEF Written
  <2>3. QED
    BY <2>1, <2>2, Zenon DEF Written
<1>7. ASSUME NEW q \in Proc, NEW i, NEW t, NEW w, PutAt(ops'[q], i, Text(t), w)
      PROVE  Replaces(ops'[q], i, w.previous)
  <2>1. CASE q = p
    <3>0. PICK y : y = w.previous
      OBVIOUS
    <3>1. PutAt(c, i, Text(t), w)
      BY <1>1, <1>7, <2>1
    <3>2. i \in Nat /\ PutAt(b, i + 1, Text(t), w)
      BY <1>2, <3>1
    <3>3. SUFFICES ASSUME y # 0
                   PROVE  \E j : j > i /\ PutsAt(c, j, SupersededBy(y))
      BY <1>1, <2>1, <3>0 DEF Replaces
    <3>4. PICK j : j > i + 1 /\ PutsAt(b, j, SupersededBy(y))
      BY <1>5, <3>0, <3>2, <3>3, Zenon DEF Replaces
    <3>5. j \in Nat /\ (j = 1 \/ PutsAt(c, j - 1, SupersededBy(y)))
      BY <1>2, <3>4
    <3>6. j - 1 > i /\ j # 1
      BY <3>2, <3>4, <3>5
    <3>7. QED
      BY <3>5, <3>6
  <2>2. CASE q # p
    BY <1>1, <1>7, <2>2, Zenon DEF LineageInv
  <2>3. QED
    BY <2>1, <2>2
<1>8. ASSUME ~interrupted', NEW t, NEW w, Stored(Text(t), w)', w.previous # 0, Live(w.previous)'
      PROVE  Closing(w.previous)'
  <2>0. PICK y : y = w.previous
    OBVIOUS
  <2>1. CASE Stored(Text(t), w)
    <3>1. Live(y) /\ Closing(y)
      BY <1>1, <1>3, <1>8, <2>0, <2>1, Zenon DEF LineageInv
    <3>2. QED
      BY <1>4, <2>0, <3>1
  <2>2. CASE PutAt(b, 1, Text(t), w)
    <3>1. PICK j : j > 1 /\ PutsAt(b, j, SupersededBy(y))
      BY <1>5, <1>8, <2>0, <2>2, Zenon DEF Replaces
    <3>2. j \in Nat /\ (j = 1 \/ PutsAt(c, j - 1, SupersededBy(y)))
      BY <1>2, <3>1
    <3>3. PutsAt(ops'[p], j - 1, SupersededBy(y))
      BY <1>1, <3>1, <3>2
    <3>4. QED
      BY <2>0, <3>3, Zenon DEF Closing, Coming, Pending
  <2>3. QED
    BY <1>1, <1>8, <2>1, <2>2
<1>9. nextID' # 0
  BY <1>1 DEF LineageInv
<1>10. \A t, w : Written(Text(t), w)' => Born(t, w)
  BY <1>6, Zenon DEF LineageInv
<1>11. QED
  BY <1>7, <1>8, <1>9, <1>10, Zenon DEF LineageInv

LEMMA LineageFails ==
  ASSUME RoundsInv, LineageInv, NEW p \in Proc, Fails(p)
  PROVE  LineageInv'
<1>1. /\ db' = db /\ ops' = [ops EXCEPT ![p] = <<>>] /\ nextID' = nextID /\ interrupted'
  BY DEF Fails
<1>2. ops'[p] = <<>> /\ \A q \in Proc : q # p => ops'[q] = ops[q]
  BY <1>1, OthersStay DEF RoundsInv, ShapesOK
<1>3. \A k, v : ~Puts(<<>>, k, v)
  BY EmptyIsSeq
<1>4. \A k, v : Written(k, v)' => Written(k, v)
  BY <1>1, <1>2, <1>3, Zenon DEF Written, Stored
<1>5. ASSUME NEW q \in Proc, NEW i, NEW t, NEW w, PutAt(ops'[q], i, Text(t), w)
      PROVE  Replaces(ops'[q], i, w.previous)
  <2>1. q # p
    BY <1>2, <1>3, <1>5, PutsIs
  <2>2. QED
    BY <1>2, <1>5, <2>1, Zenon DEF LineageInv
<1>6. nextID' # 0
  BY <1>1 DEF LineageInv
<1>7. \A t, w : Written(Text(t), w)' => Born(t, w)
  BY <1>4, Zenon DEF LineageInv
<1>8. QED
  BY <1>1, <1>5, <1>6, <1>7, Zenon DEF LineageInv

\* The batch of a fork: the new version, and then that the old one leads to it.
LEMMA ForkLineage ==
  ASSUME RoundsInv, WholeInv, LineageInv, StepOK, NEW p \in Proc, Fork(p)
  PROVE  LineageInv'
<1>0. PICK c, new : c = call[p] /\ new = nextID
  OBVIOUS
<1> DEFINE t == c.text
           v == [c.old EXCEPT !.previous = t,
                              !.content = SpliceContent(@, c.read.slots, WinningContent(c))]
           w == Put(Text(new), v)
           x == Put(Round(c.round), [c.read EXCEPT !.status = "closed"])
           y == Delete(CurrentRound(t))
           z == Put(SupersededBy(t), new)
           a == << w, x, y, z >>
           o == OpenRoundOps(new, new + 1, c.read.number + 1)
           g == MoveTagOps(c.old.tags, t, new)
           d == [c EXCEPT !.pc = "closed"]
<1>1. /\ c.pc = "tally" /\ ops[p] = <<>> /\ db' = db /\ interrupted' = interrupted /\ KnownCall(c)
  BY <1>0, OwnCallIsKnown DEF Fork, At
<1>2. TallyCall(c)
  BY <1>0, <1>1, SameCall DEF CallOK
<1>3. PICK users \in SetToSeqs(Subscribers(t)) :
        WriteBatch(p, "closed", << w, x, y, z >> \o o \o g \o MoveSubscriptionOps(users, t, new))
  BY <1>0 DEF Fork, NextRoundOps
<1> DEFINE m == MoveSubscriptionOps(users, t, new)
<1>4. Local(p, d, a \o o \o g \o m)
  BY <1>0, <1>1, <1>3 DEF WriteBatch, Local
<1>5. Lacks(m, {"text"})
  <2>1. Mild(m) /\ \A i \in DOMAIN m : m[i].key[1] \in {"subscription", "subscriptionindex"}
    BY SubscribersAre, MoveSubscriptionOpsAreMild
  <2> HIDE DEF m
  <2>2. QED
    BY <2>1 DEF Mild, Lacks
<1>6. Lacks(g, {"text"})
  <2>1. Mild(g) /\ \A i \in DOMAIN g : g[i].key[1] = "tagindex"
    BY <1>2, MoveTagOpsAreMild DEF TallyCall, IsText
  <2> HIDE DEF g
  <2>2. QED
    BY <2>1 DEF Mild, Lacks
<1>7. Lacks(o, {"text"})
  BY OpenRoundOpsOnly DEF Only, Lacks
<1>8. v.previous = t
  BY <1>2 DEF TallyCall, IsText
<1>9. Id(t)
  BY <1>0, <1>1, <1>2, ReadIs
<1> HIDE DEF d, m, g, o, v
<1>10. /\ ~w.tombstone /\ w.key = Text(new) /\ w.val = v
       /\ ~z.tombstone /\ z.key = SupersededBy(t)
       /\ x.key[1] = "round" /\ y.key[1] = "currentround" /\ z.key[1] = "supersededby"
  BY OpIs, KeyIs
<1> HIDE DEF w, x, y, z
<1>11. /\ IsSeq(a) /\ Does(a, 1, w) /\ Does(a, 4, z)
       /\ \A i \in DOMAIN a : \/ i = 1 /\ a[i] = w
                              \/ a[i] = x \/ a[i] = y \/ a[i] = z
  BY FourAt
<1> HIDE DEF a
<1>12. Versions(a)
  <2> SUFFICES ASSUME NEW i, NEW u, NEW s, PutAt(a, i, Text(u), s)
               PROVE  u = nextID /\ Id(s.previous) /\ Replaces(a, i, s.previous)
    BY DEF Versions
  <2>1. i = 1 /\ a[i] = w
    BY <1>10, <1>11, KeyIs DEF PutAt
  <2>2. u = new /\ s = v
    BY <1>10, <2>1, SameKey DEF PutAt
  <2>3. PutsAt(a, 4, SupersededBy(t))
    BY <1>10, <1>11 DEF Does, PutsAt
  <2>4. QED
    BY <1>0, <1>8, <1>9, <2>1, <2>2, <2>3 DEF Replaces
<1> DEFINE e == a \o o
           h == e \o g
           b == h \o m
<1>13. Versions(e) /\ IsSeq(e)
  BY <1>7, <1>11, <1>12, VersionsConcat, ConcatAt DEF Lacks
<1> HIDE DEF e
<1>14. Versions(h) /\ IsSeq(h)
  BY <1>6, <1>13, VersionsConcat, ConcatAt DEF Lacks
<1> HIDE DEF h
<1>15. Versions(b)
  BY <1>5, <1>14, VersionsConcat
<1>16. Local(p, d, b)
  BY <1>4 DEF b, h, e
<1> HIDE DEF b
<1>17. QED
  BY <1>1, <1>15, <1>16, LineageLocal DEF Local

LEMMA CreateTextLineage ==
  ASSUME RoundsInv, WholeInv, LineageInv, StepOK, NEW p \in Proc, Creates(p)
  PROVE  LineageInv'
<1>0. PICK u \in User, tags \in TagSets : CreateText(p, u, tags)
  BY DEF Creates
<1>1. PICK t, r : t = nextID /\ r = nextID + 1
  OBVIOUS
<1> DEFINE v == [content |-> Typed(t, Length), previous |-> 0, createdBy |-> u, tags |-> tags]
           w == Put(Text(t), v)
           x == Put(Subscription(t, u), u)
           y == Put(SubscriptionIndex(u, t), t)
           a == << w, x, y >>
           o == OpenRoundOps(t, r, 1)
           g == TagOps(t, tags)
           c == [pc |-> "created", user |-> u]
<1>2. ops[p] = <<>>
  BY <1>0, IdleHasNoBatch DEF CreateText, Arrives
<1>3. Local(p, c, a \o o \o g) /\ interrupted' = interrupted
  BY <1>0, <1>1 DEF CreateText, Becomes, Local, history
<1>4. v.previous = 0
  OBVIOUS
<1>5. /\ ~w.tombstone /\ w.key = Text(t) /\ w.val = v
      /\ x.key[1] = "subscription" /\ y.key[1] = "subscriptionindex"
  BY OpIs, KeyIs
<1> HIDE DEF c, v, w, x, y
<1>6. /\ IsSeq(a)
      /\ \A i \in DOMAIN a : a[i] = w \/ a[i] = x \/ a[i] = y
  BY ThreeAt
<1> HIDE DEF a
<1>7. Id(0)
  BY DEF Id, RoundsInv, ShapesOK, LineageInv
<1>8. Versions(a)
  <2> SUFFICES ASSUME NEW i, NEW q, NEW s, PutAt(a, i, Text(q), s)
               PROVE  q = nextID /\ Id(s.previous) /\ Replaces(a, i, s.previous)
    BY DEF Versions
  <2>1. a[i] = w
    BY <1>5, <1>6, KeyIs DEF PutAt
  <2>2. q = t /\ s = v
    BY <1>5, <2>1, SameKey DEF PutAt
  <2>3. QED
    BY <1>1, <1>4, <1>7, <2>2 DEF Replaces
<1>9. Lacks(g, {"text"})
  <2>1. IsFiniteSet(tags)
    BY TagsAssumption
  <2>2. Mild(g) /\ \A i \in DOMAIN g : g[i].key[1] = "tagindex"
    BY <2>1, TagOpsAreMild
  <2> HIDE DEF g
  <2>3. QED
    BY <2>2 DEF Mild, Lacks
<1>10. Lacks(o, {"text"})
  BY OpenRoundOpsOnly DEF Only, Lacks
<1> HIDE DEF o, g
<1> DEFINE e == a \o o
           b == e \o g
<1>11. Versions(e) /\ IsSeq(e)
  BY <1>6, <1>8, <1>10, VersionsConcat, ConcatAt DEF Lacks
<1>12. Local(p, c, b)
  BY <1>3
<1> HIDE DEF e
<1>13. Versions(b)
  BY <1>9, <1>11, VersionsConcat
<1> HIDE DEF b
<1>14. QED
  BY <1>2, <1>3, <1>12, <1>13, LineageLocal DEF Local

LEMMA GoesLineage ==
  ASSUME RoundsInv, WholeInv, LineageInv, StepOK, NEW p \in Proc, Goes(p)
  PROVE  LineageInv'
<1>1. PICK c, b : Going(p, c, b)
  BY Zenon DEF Goes
<1>2. CASE Fork(p)
  BY <1>2, ForkLineage
<1>3. CASE ~Fork(p)
  <2>1. Versions(b)
    BY <1>1, <1>3, OnlyVersions DEF Going, Writes
  <2>2. QED
    BY <1>1, <2>1, LineageLocal DEF Going, Moves, Local
<1>4. QED
  BY <1>2, <1>3

LEMMA StartsLineage ==
  ASSUME RoundsInv, WholeInv, LineageInv, StepOK, NEW p \in Proc, Starts(p)
  PROVE  LineageInv'
<1>1. PICK c, b, kind : Starting(p, c, b, kind)
  BY Zenon DEF Starts
<1>2. CASE Creates(p)
  BY <1>2, CreateTextLineage
<1>3. CASE ~Creates(p)
  <2>1. Versions(b)
    BY <1>1, <1>3, OnlyVersions DEF Starting, Begun
  <2>2. QED
    BY <1>1, <2>1, LineageLocal DEF Starting, Begins, Moves, Local
<1>4. QED
  BY <1>2, <1>3

\* A step that writes nothing and leaves the batches alone.
LEMMA SilentLineage ==
  ASSUME RoundsInv, WholeInv, LineageInv, StepOK, NEW p \in Proc, db' = db, ops' = ops,
         ops[p] = <<>>, interrupted' = interrupted
  PROVE  LineageInv'
<1>1. ops = [ops EXCEPT ![p] = ops[p]]
  BY OwnBatchIsKnown
<1>2. Versions(<<>>)
  BY DEF Versions, PutAt
<1>3. QED
  BY <1>1, <1>2, LineageLocal

LEMMA MildVersions ==
  ASSUME NEW b, Mild(b)
  PROVE  Versions(b)
<1>1. \A k, v : Puts(b, k, v) => k[1] # "text"
  BY DEF Mild
<1>2. ASSUME NEW i, NEW t, PutsAt(b, i, Text(t)) PROVE FALSE
  <2>1. Puts(b, Text(t), b[i].val)
    BY <1>2, PutsIs
  <2>2. QED
    BY <1>1, <2>1, KeyIs
<1>3. QED
  BY <1>2, NoVersions

\* A vote, and the steps of a deletion, put no version.
LEMMA OthersLineage ==
  ASSUME RoundsInv, WholeInv, LineageInv, StepOK, NEW p \in Proc,
         ReadChoice(p) \/ Collect(p) \/ NextCascade(p)
  PROVE  LineageInv'
<1>0. db' = db /\ ops[p] = <<>> /\ interrupted' = interrupted
  BY DEF ReadChoice, Collect, NextCascade, At, history
<1>1. CASE ReadChoice(p)
  <2> DEFINE c == call[p]
             f == c.fragment
             choice == UserChoice(c.text, c.slot, c.user)
             x == Put(Vote(f, c.user), c.user)
             y == Put(choice, f)
             b == VoteOps(f, choice, c.user)
             e == << Delete(Vote(db[choice], c.user)) >>
  <2>1. ops' = [ops EXCEPT ![p] = b]
    BY <1>1 DEF ReadChoice, WriteBatch
  <2>2. Mild(<< x, y >>)
    <3>1. \A k, w : Puts(<< x, y >>, k, w) => IsPut(x, k, w) \/ IsPut(y, k, w)
      BY PairIs
    <3>2. \A k, w : Puts(<< x, y >>, k, w) => k = Vote(f, c.user) \/ k = choice
      BY <3>1, PutIs
    <3>3. IsSeq(<< x, y >>)
      BY PairIs
    <3>4. Vote(f, c.user)[1] = "vote" /\ choice[1] = "uservote"
      BY DEF Vote, UserChoice
    <3>5. QED
      BY <3>2, <3>3, <3>4 DEF Mild
  <2>3. b = << x, y >> \o e \/ b = << x, y >> \o <<>>
    BY DEF VoteOps
  <2>4. Mild(e)
    <3>1. IsSeq(e) /\ \A k, w : Puts(e, k, w) => IsPut(Delete(Vote(db[choice], c.user)), k, w)
      BY SingleIs
    <3>2. QED
      BY <3>1, PutIs DEF Mild
  <2> HIDE DEF b, e, x, y
  <2>5. Mild(b)
    BY <2>2, <2>3, <2>4, EmptyIsMild, MildConcat
  <2>6. QED
    BY <1>0, <2>1, <2>5, MildVersions, LineageLocal
<1>2. CASE Collect(p)
  <2> DEFINE c == call[p]
             scan == Head(c.scans)
  <2>1. PICK keys \in SetToSeqs(Found(scan)) :
          \/ ops' = [ops EXCEPT ![p] =
                       c.batch \o OpsBefore(scan) \o Each(keys, LAMBDA k : OpsFor(scan, k))]
          \/ ops' = ops
    BY <1>2, Zenon DEF Collect
  <2> DEFINE each == Each(keys, LAMBDA k : OpsFor(scan, k))
             batch == c.batch \o OpsBefore(scan) \o each
  <2>2. IsSeq(keys)
    BY FoundIsFinite, SetToSeqsAre DEF IsSeq
  <2>3. Erases(each)
    <3> HIDE DEF scan
    <3>1. QED
      BY <2>2, OpsForErase DEF Each
  <2>4. ops' = [ops EXCEPT ![p] = batch] \/ ops' = ops
    BY <2>1, Zenon
  <2> HIDE DEF each
  <2>5. Erases(batch)
    <3>1. Erases(c.batch) /\ Erases(OpsBefore(scan))
      BY <1>2, SameCall, OpsBeforeErase DEF Collect, At, CallOK, DeleteCall
    <3>2. Erases(c.batch \o OpsBefore(scan))
      BY <3>1, ConcatIs DEF Erases
    <3>3. QED
      BY <2>3, <3>2, ConcatIs DEF Erases
  <2> HIDE DEF batch
  <2>6. QED
    BY <1>0, <2>4, <2>5, ErasesVersions, LineageLocal, SilentLineage
<1>3. CASE NextCascade(p)
  <2>1. ops' = ops
    BY <1>3 DEF NextCascade
  <2>2. QED
    BY <1>0, <2>1, SilentLineage
<1>4. QED
  BY <1>1, <1>2, <1>3

LEMMA UnchangedLineage ==
  ASSUME LineageInv, db' = db, ops' = ops, nextID' = nextID, interrupted' = interrupted
  PROVE  LineageInv'
BY DEF LineageInv, Written, Stored, Puts, PutAt, PutsAt, Replaces, Live, Closing, Coming, Has, Pending

LEMMA InitLineage == Init => LineageInv
<1> SUFFICES ASSUME Init
             PROVE  LineageInv
  OBVIOUS
<1>1. nextID # 0 /\ DOMAIN db = {} /\ \A p \in Proc : ops[p] = <<>>
  BY DEF Init
<1>2. \A k, v : ~Puts(<<>>, k, v)
  BY EmptyIsSeq
<1>3. \A k, v : ~Stored(k, v) /\ ~Written(k, v)
  BY <1>1, <1>2, Zenon DEF Written, Stored
<1>4. \A i, k, v : ~PutAt(<<>>, i, k, v)
  BY <1>2, PutsIs
<1>5. QED
  BY <1>1, <1>3, <1>4 DEF LineageInv

LEMMA StepLineage == RoundsInv /\ WholeInv /\ LineageInv /\ [Next]_vars => LineageInv'
<1> SUFFICES ASSUME RoundsInv, WholeInv, LineageInv, [Next]_vars
             PROVE  LineageInv'
  OBVIOUS
<1>0. StepOK
  BY StepInv
<1>1. CASE Calls
  <2>1. PICK p \in Proc, u \in User :
          \/ \E tags \in TagSets : CreateText(p, u, tags)
          \/ \E f \in {k[2] : k \in KeysOf("fragment")} : CastVote(p, u, f)
          \/ \E t \in Texts :
               \/ \E range \in Proposals : ProposeEdit(p, u, t, range)
               \/ ScheduleRoundClose(p, u, t)
               \/ CloseRound(p, u, t)
               \/ Subscribe(p, u, t)
               \/ DeleteText(p, u, t)
          \/ \E t \in Texts \cup {k[2] : k \in KeysOf("subscription")} : Unsubscribe(p, u, t)
          \/ \E victim \in User : DeleteUser(p, u, victim)
    BY <1>1, Zenon DEF Calls
  <2>2. ASSUME NEW tags \in TagSets, CreateText(p, u, tags) PROVE Starts(p)
    BY <2>2, CreateTextStarts
  <2>3. ASSUME NEW t, NEW f, NEW range,
               \/ CastVote(p, u, f) \/ ProposeEdit(p, u, t, range) \/ ScheduleRoundClose(p, u, t)
               \/ CloseRound(p, u, t)
        PROVE  Starts(p)
    BY <2>3, ReadsStart
  <2>4. ASSUME NEW t, Subscribe(p, u, t) \/ Unsubscribe(p, u, t) PROVE Starts(p)
    BY <2>4, SubscribeStarts, UnsubscribeStarts
  <2>5. ASSUME NEW t, DeleteText(p, u, t) \/ DeleteUser(p, u, t) PROVE LineageInv'
    <3>1. db' = db /\ ops' = ops /\ interrupted' = interrupted /\ ops[p] = <<>>
      BY <2>5, IdleHasNoBatch DEF DeleteText, DeleteUser, StartDelete, Arrives
    <3>2. QED
      BY <1>0, <3>1, SilentLineage
  <2>6. Starts(p) => LineageInv'
    BY <1>0, StartsLineage
  <2>7. QED
    BY <2>1, <2>2, <2>3, <2>4, <2>5, <2>6, Zenon
<1>2. CASE Steps
  <2>1. PICK p \in Proc :
          \/ ApplyOp(p) \/ Fails(p) \/ ReadPointer(p) \/ CheckSuperseded(p) \/ OpenRound(p)
          \/ ResolveCurrent(p) \/ ResolveOpened(p) \/ AddFirstFragment(p) \/ ReadChoice(p)
          \/ Schedule(p) \/ (\E t \in due : CloseDue(p, t)) \/ RoundGone(p) \/ ReadRound(p)
          \/ ReadText(p) \/ Tally(p) \/ Fork(p) \/ Collect(p) \/ NextCascade(p)
    BY <1>2, Zenon DEF Steps
  <2>2. ASSUME NEW t, CloseDue(p, t) PROVE LineageInv'
    <3>1. Starts(p)
      BY <2>2, ReadsStart
    <3>2. QED
      BY <1>0, <3>1, StartsLineage
  <2>3. CASE Fails(p) \/ ApplyOp(p)
    BY <2>3, LineageFails, LineageApply
  <2>4. CASE \/ ReadPointer(p) \/ CheckSuperseded(p) \/ OpenRound(p) \/ ResolveCurrent(p)
             \/ ResolveOpened(p) \/ AddFirstFragment(p) \/ Schedule(p) \/ RoundGone(p)
             \/ ReadRound(p) \/ ReadText(p) \/ Tally(p) \/ Fork(p)
    BY <1>0, <2>4, StepGoes, GoesLineage
  <2>5. CASE ReadChoice(p) \/ Collect(p) \/ NextCascade(p)
    BY <1>0, <2>5, OthersLineage
  <2>6. QED
    BY <2>1, <2>2, <2>3, <2>4, <2>5, Zenon
<1>3. CASE Tick
  BY <1>3, UnchangedLineage DEF Tick, history
<1>4. CASE UNCHANGED vars
  BY <1>4, UnchangedLineage DEF vars, history
<1>5. QED
  BY <1>1, <1>2, <1>3, <1>4 DEF Next

-----------------------------------------------------------------------------
(* The walk along the versions.                                            *)

LEMMA LeastNat ==
  ASSUME NEW S \in SUBSET Nat, S # {}
  PROVE  \E x \in S : \A y \in S : x <= y
<1> DEFINE Upto(x) == 0 .. x
           D == {Upto(x) : x \in S}
<1>1. D \subseteq FiniteSubsetsOf(Nat) /\ D # {}
  <2>1. ASSUME NEW x \in S PROVE Upto(x) \in FiniteSubsetsOf(Nat)
    <3>1. x \in Int /\ 0 \in Int /\ Upto(x) \subseteq Nat
      OBVIOUS
    <3>2. IsFiniteSet(Upto(x))
      BY <3>1, FS_Interval
    <3>3. QED
      BY <3>1, <3>2 DEF FiniteSubsetsOf
  <2>2. QED
    BY <2>1
<1>2. PICK d \in D : \A e \in D : ~(<<e, d>> \in StrictSubsetOrdering(Nat))
  BY <1>1, WFMin, FS_StrictSubsetOrderingWellFounded
<1>3. PICK x \in S : d = Upto(x)
  OBVIOUS
<1>4. ASSUME NEW y \in S, y < x PROVE FALSE
  <2>1. Upto(y) \in D /\ Upto(y) \subseteq Upto(x) /\ x \notin Upto(y) /\ x \in Upto(x)
    BY <1>4
  <2>2. Upto(y) \in SUBSET Nat /\ Upto(x) \in SUBSET Nat
    OBVIOUS
  <2>3. <<Upto(y), Upto(x)>> \in StrictSubsetOrdering(Nat)
    BY <2>1, <2>2 DEF StrictSubsetOrdering
  <2>4. QED
    BY <2>1, <2>3, <1>2, <1>3
<1>5. QED
  BY <1>4

\* What holds at 0 and goes from one number to the next holds up to n.
LEMMA Climbs ==
  ASSUME NEW n \in Nat, NEW P, 0 \in P, \A i \in 1 .. n : i - 1 \in P => i \in P
  PROVE  \A i \in 0 .. n : i \in P
<1> DEFINE Left == {i \in 0 .. n : i \notin P}
<1>1. SUFFICES ASSUME Left # {}
               PROVE  FALSE
  OBVIOUS
<1>2. PICK x \in Left : \A y \in Left : x <= y
  <2>1. Left \in SUBSET Nat
    OBVIOUS
  <2>2. QED
    BY <1>1, <2>1, LeastNat
<1>3. x \in 1 .. n /\ x - 1 \in 0 .. n /\ x - 1 \notin Left
  BY <1>2
<1>4. QED
  BY <1>3

\* One can always go on from x, n times.
Iterates(g, n, x, f) == g[0] = x /\ \A i \in 1 .. n : g[i] = f[g[i - 1]]

LEMMA IterationExists ==
  ASSUME NEW S, NEW f \in [S -> S], NEW x \in S, NEW n \in Nat
  PROVE  \E g \in [0 .. n -> S] : Iterates(g, n, x, f)
<1> DEFINE P == {m \in Nat : \E g \in [0 .. m -> S] : Iterates(g, m, x, f)}
<1>1. 0 \in P
  <2> DEFINE g == [i \in 0 .. 0 |-> x]
  <2>1. g \in [0 .. 0 -> S] /\ Iterates(g, 0, x, f)
    BY DEF Iterates
  <2>2. QED
    BY <2>1
<1>2. ASSUME NEW m \in 1 .. n, m - 1 \in P PROVE m \in P
  <2>1. PICK g \in [0 .. m - 1 -> S] : Iterates(g, m - 1, x, f)
    BY <1>2
  <2> DEFINE h == [i \in 0 .. m |-> IF i = m THEN f[g[m - 1]] ELSE g[i]]
  <2>2. h \in [0 .. m -> S]
    <3>1. \A i \in 0 .. m : i = m \/ i \in 0 .. m - 1
      OBVIOUS
    <3>2. f[g[m - 1]] \in S
      OBVIOUS
    <3>3. \A i \in 0 .. m : h[i] \in S
      BY <3>1, <3>2
    <3>4. QED
      BY <3>3
  <2>3. h[0] = x
    BY <2>1 DEF Iterates
  <2>4. ASSUME NEW i \in 1 .. m PROVE h[i] = f[h[i - 1]]
    <3>1. CASE i = m
      BY <3>1
    <3>2. CASE i # m
      <4>1. i \in 1 .. m - 1 /\ i - 1 # m /\ i - 1 \in 0 .. m
        BY <3>2
      <4>2. h[i] = g[i] /\ h[i - 1] = g[i - 1]
        BY <3>2, <4>1
      <4>3. QED
        BY <2>1, <4>1, <4>2 DEF Iterates
    <3>3. QED
      BY <3>1, <3>2
  <2> HIDE DEF h
  <2>5. Iterates(h, m, x, f)
    BY <2>3, <2>4 DEF Iterates
  <2>6. m \in Nat
    OBVIOUS
  <2>7. QED
    BY <2>2, <2>5, <2>6
<1> HIDE DEF P
<1>3. n \in P
  BY <1>1, <1>2, Climbs
<1>4. QED
  BY <1>3 DEF P

\* Each of the texts T comes after the one it replaces, if any; at most one
\* replaces each; and one that is replaced leads to the one that replaces it.
Line(T, pv, N, nx) ==
  /\ IsFiniteSet(T) /\ T \subseteq Nat \ {0}
  /\ pv \in [T -> Nat] /\ N \subseteq T /\ nx \in [N -> T]
  /\ \A t \in T : pv[t] < t /\ (pv[t] # 0 => pv[t] \in N)
  /\ \A t, u \in T : pv[t] = pv[u] /\ pv[t] # 0 => t = u
  /\ \A t \in N : pv[nx[t]] = t

\* Versions in a row; the versions from the first to the last.
Path(s, T, pv) == s \in Seq(T) /\ s # <<>> /\ \A i \in 2 .. Len(s) : pv[s[i]] = s[i - 1]
FullPath(s, T, pv, N) == Path(s, T, pv) /\ pv[s[1]] = 0 /\ s[Len(s)] \notin N

LEMMA PathIs ==
  ASSUME NEW T, NEW pv, NEW s, Path(s, T, pv)
  PROVE  /\ Len(s) \in Nat /\ Len(s) >= 1 /\ DOMAIN s = 1 .. Len(s)
         /\ \A i \in 1 .. Len(s) : s[i] \in T
         /\ Head(s) = s[1] /\ Last(s) = s[Len(s)]
<1>1. s \in Seq(T) /\ s # <<>>
  BY DEF Path
<1>2. Len(s) \in Nat /\ DOMAIN s = 1 .. Len(s) /\ \A i \in 1 .. Len(s) : s[i] \in T
  BY <1>1, LenProperties, ElementOfSeq
<1>3. Len(s) # 0
  BY <1>1, <1>2, EmptySeq
<1>4. QED
  BY <1>1, <1>2, <1>3 DEF Last

\* A path goes up, so that it is no longer than there are texts.
LEMMA PathRises ==
  ASSUME NEW T, NEW pv, NEW N, NEW nx, Line(T, pv, N, nx), NEW s, Path(s, T, pv)
  PROVE  /\ \A j \in 1 .. Len(s) : \A i \in 1 .. j - 1 : s[i] < s[j]
         /\ Len(s) <= Cardinality(T)
<1> DEFINE n == Len(s)
           P == {j \in 0 .. n : \A i \in 1 .. j - 1 : s[i] < s[j]}
<1>1. n \in Nat /\ n >= 1 /\ \A i \in 1 .. n : s[i] \in T
  BY PathIs
<1>2. \A t \in T : t \in Nat /\ pv[t] \in Nat /\ pv[t] < t
  BY DEF Line
<1> HIDE DEF n
<1>3. 0 \in P
  BY <1>1
<1>4. ASSUME NEW j \in 1 .. n, j - 1 \in P PROVE j \in P
  <2>1. ASSUME NEW i \in 1 .. j - 1 PROVE s[i] < s[j]
    <3>1. j \in 2 .. n /\ j - 1 \in 1 .. n /\ i \in 1 .. n
      BY <1>1
    <3>2. pv[s[j]] = s[j - 1]
      BY <3>1 DEF Path, n
    <3>3. s[j - 1] < s[j] /\ s[j - 1] \in Nat /\ s[j] \in Nat /\ s[i] \in Nat
      BY <1>1, <1>2, <3>1, <3>2
    <3>4. CASE i = j - 1
      BY <3>3, <3>4
    <3>5. CASE i # j - 1
      <4>1. i \in 1 .. (j - 1) - 1
        BY <1>1, <3>1, <3>5
      <4>2. s[i] < s[j - 1]
        BY <1>4, <4>1
      <4>3. QED
        BY <3>3, <4>2
    <3>6. QED
      BY <3>4, <3>5
  <2>2. QED
    BY <1>1, <2>1
<1>5. \A j \in 0 .. n : j \in P
  <2> HIDE DEF P
  <2>1. QED
    BY <1>1, <1>3, <1>4, Climbs
<1>6. \A j \in 1 .. n : \A i \in 1 .. j - 1 : s[i] < s[j]
  BY <1>1, <1>5
<1>7. Len(s) <= Cardinality(T)
  <2>1. s \in [1 .. n -> T]
    <3>1. s \in Seq(T)
      BY DEF Path
    <3>2. QED
      BY <3>1, LenProperties DEF n
  <2>2. ASSUME NEW i \in 1 .. n, NEW j \in 1 .. n, s[i] = s[j] PROVE i = j
    <3>1. i < j => s[i] < s[j]
      BY <1>1, <1>6
    <3>2. j < i => s[j] < s[i]
      BY <1>1, <1>6
    <3>3. s[i] \in Nat /\ s[j] \in Nat
      BY <1>1, <1>2
    <3>4. QED
      BY <1>1, <2>2, <3>1, <3>2, <3>3
  <2>3. s \in Injection(1 .. n, T)
    BY <2>1, <2>2 DEF Injection, IsInjective
  <2>4. Cardinality(1 .. n) = n
    BY <1>1, FS_Interval
  <2>5. Cardinality(1 .. n) <= Cardinality(T)
    BY <2>3, FS_Injection DEF Line
  <2>6. QED
    BY <2>4, <2>5 DEF n
<1>8. QED
  BY <1>6, <1>7 DEF n

\* Two full paths with the same first version are one.
LEMMA SamePrefix ==
  ASSUME NEW T, NEW pv, NEW N, NEW nx, Line(T, pv, N, nx), NEW s, Path(s, T, pv),
         NEW r, FullPath(r, T, pv, N), s[1] = r[1]
  PROVE  Len(s) <= Len(r) /\ \A i \in 1 .. Len(s) : s[i] = r[i]
<1> DEFINE n == Len(s)
           m == Len(r)
           P == {k \in 0 .. n : k = 0 \/ (k <= m /\ s[k] = r[k])}
<1>1. /\ n \in Nat /\ n >= 1 /\ \A i \in 1 .. n : s[i] \in T
      /\ m \in Nat /\ m >= 1 /\ \A i \in 1 .. m : r[i] \in T
  BY PathIs DEF FullPath
<1>2. /\ \A i \in 2 .. n : pv[s[i]] = s[i - 1]
      /\ \A i \in 2 .. m : pv[r[i]] = r[i - 1]
      /\ r[m] \notin N
  BY DEF FullPath, Path
<1> HIDE DEF n, m
<1>3. 0 \in P
  BY <1>1
<1>4. ASSUME NEW k \in 1 .. n, k - 1 \in P PROVE k \in P
  <2>1. CASE k = 1
    BY <1>1, <2>1
  <2>2. CASE k # 1
    <3>1. k \in 2 .. n /\ k - 1 \in 1 .. n /\ k - 1 <= m /\ s[k - 1] = r[k - 1]
      BY <1>1, <1>4, <2>2
    <3>2. pv[s[k]] = s[k - 1] /\ s[k - 1] \in T /\ s[k] \in T
      BY <1>1, <1>2, <3>1
    <3>3. s[k - 1] # 0 /\ s[k - 1] \in N
      BY <3>2 DEF Line
    <3>4. k - 1 # m
      BY <1>2, <3>1, <3>3
    <3>5. k \in 2 .. m
      BY <1>1, <3>1, <3>4, SMTT(30)
    <3>6. pv[r[k]] = r[k - 1] /\ r[k] \in T
      BY <1>1, <1>2, <3>5
    <3>7. \A t, u \in T : pv[t] = pv[u] /\ pv[t] # 0 => t = u
      BY DEF Line
    <3>8. pv[s[k]] = pv[r[k]] /\ pv[s[k]] # 0
      BY <3>1, <3>2, <3>3, <3>6
    <3>9. s[k] = r[k]
      BY <3>2, <3>6, <3>7, <3>8
    <3>10. QED
      BY <3>5, <3>9
  <2>3. QED
    BY <2>1, <2>2
<1>5. \A k \in 0 .. n : k \in P
  <2> HIDE DEF P
  <2>1. QED
    BY <1>1, <1>3, <1>4, Climbs
<1>6. QED
  BY <1>1, <1>5 DEF n, m

\* Two full paths with a version in common are one.
LEMMA OnePath ==
  ASSUME NEW T, NEW pv, NEW N, NEW nx, Line(T, pv, N, nx), NEW s, FullPath(s, T, pv, N),
         NEW r, FullPath(r, T, pv, N), NEW a \in 1 .. Len(s), NEW b \in 1 .. Len(r), s[a] = r[b]
  PROVE  s = r
<1> DEFINE n == Len(s)
           m == Len(r)
           e == a - 1
           P == {k \in 0 .. e : k < b /\ s[a - k] = r[b - k]}
<1>1. /\ n \in Nat /\ n >= 1 /\ \A i \in 1 .. n : s[i] \in T
      /\ m \in Nat /\ m >= 1 /\ \A i \in 1 .. m : r[i] \in T
  BY PathIs DEF FullPath
<1>2. /\ \A i \in 2 .. n : pv[s[i]] = s[i - 1]
      /\ \A i \in 2 .. m : pv[r[i]] = r[i - 1]
      /\ pv[s[1]] = 0 /\ pv[r[1]] = 0 /\ 0 \notin T
      /\ a \in 1 .. n /\ b \in 1 .. m
  BY DEF FullPath, Path, Line
<1> HIDE DEF n, m
<1>3. 0 \in P
  BY <1>1, <1>2
<1>4. ASSUME NEW k \in 1 .. e, k - 1 \in P PROVE k \in P
  <2>1. PICK i, j : i = a - (k - 1) /\ j = b - (k - 1)
    OBVIOUS
  <2>2. i \in 2 .. n /\ j \in 1 .. m /\ s[i] = r[j] /\ i - 1 \in 1 .. n
    BY <1>1, <1>2, <1>4, <2>1
  <2>3. pv[s[i]] = s[i - 1] /\ s[i - 1] \in T
    BY <1>1, <1>2, <2>2
  <2>4. j # 1
    BY <1>2, <2>2, <2>3
  <2>5. pv[r[j]] = r[j - 1] /\ j \in 2 .. m
    BY <1>1, <1>2, <2>2, <2>4
  <2>6. s[i - 1] = r[j - 1]
    BY <2>2, <2>3, <2>5
  <2>7. i - 1 = a - k /\ j - 1 = b - k /\ k < b
    BY <1>1, <1>2, <2>1, <2>5
  <2>8. QED
    BY <2>6, <2>7
<1>5. \A k \in 0 .. e : k \in P
  <2>1. e \in Nat
    BY <1>1, <1>2
  <2> HIDE DEF P, e
  <2>2. QED
    BY <2>1, <1>3, <1>4, Climbs
<1>6. s[1] = r[b - a + 1] /\ b - a + 1 \in 1 .. m
  <2>1. a - 1 \in P
    <3>1. e \in 0 .. e
      BY <1>1, <1>2
    <3> HIDE DEF P
    <3>2. QED
      BY <1>5, <3>1
  <2>2. a - (a - 1) = 1 /\ b - (a - 1) = b - a + 1
    BY <1>1, <1>2
  <2>3. QED
    BY <1>1, <1>2, <2>1, <2>2
<1>7. b - a + 1 = 1
  <2>1. SUFFICES ASSUME b - a + 1 # 1
                 PROVE  FALSE
    OBVIOUS
  <2>2. PICK j : j = b - a + 1
    OBVIOUS
  <2>3. j \in 2 .. m /\ j - 1 \in 1 .. m
    BY <1>1, <1>6, <2>1, <2>2
  <2>4. pv[r[j]] = r[j - 1] /\ r[j - 1] \in T
    BY <1>1, <1>2, <2>3
  <2>5. QED
    BY <1>2, <1>6, <2>2, <2>4
<1>8. s[1] = r[1]
  BY <1>6, <1>7
<1>9. /\ Len(s) <= Len(r) /\ \A i \in 1 .. Len(s) : s[i] = r[i]
      /\ Len(r) <= Len(s)
  BY <1>8, SamePrefix DEF FullPath
<1>10. Len(s) = Len(r)
  BY <1>1, <1>9 DEF n, m
<1>11. QED
  BY <1>9, <1>10, SeqEqual DEF FullPath, Path

\* A path with one more version before or after it.
LEMMA PathBefore ==
  ASSUME NEW T, NEW pv, NEW s, Path(s, T, pv), NEW x \in T, pv[s[1]] = x
  PROVE  /\ Path(<<x>> \o s, T, pv) /\ Len(<<x>> \o s) = Len(s) + 1
         /\ (<<x>> \o s)[Len(<<x>> \o s)] = s[Len(s)]
<1> DEFINE one == <<x>>
           n == Len(s)
<1>1. /\ n \in Nat /\ n >= 1 /\ s \in Seq(T) /\ \A i \in 2 .. n : pv[s[i]] = s[i - 1]
  BY PathIs DEF Path
<1>2. one \in Seq(T) /\ Len(one) = 1 /\ one[1] = x
  OBVIOUS
<1>3. PICK r : r = one \o s
  OBVIOUS
<1>4. /\ r \in Seq(T) /\ Len(r) = n + 1
      /\ \A i \in 1 .. n + 1 : r[i] = IF i <= 1 THEN one[i] ELSE s[i - 1]
  <2> HIDE DEF one
  <2>1. /\ one \o s \in Seq(T) /\ Len(one \o s) = Len(one) + Len(s)
        /\ \A i \in 1 .. Len(one) + Len(s) : (one \o s)[i] = IF i <= Len(one) THEN one[i] ELSE s[i - Len(one)]
    BY <1>1, <1>2, ConcatProperties
  <2>2. QED
    BY <1>1, <1>2, <1>3, <2>1
<1> HIDE DEF one, n
<1>5. ASSUME NEW i \in 2 .. n + 1 PROVE pv[r[i]] = r[i - 1]
  <2>1. r[i] = s[i - 1]
    BY <1>1, <1>4
  <2>2. CASE i = 2
    BY <1>1, <1>2, <1>4, <2>1, <2>2
  <2>3. CASE i # 2
    <3>1. i - 1 \in 2 .. n /\ r[i - 1] = s[(i - 1) - 1]
      BY <1>1, <1>4, <2>3
    <3>2. QED
      BY <1>1, <2>1, <3>1
  <2>4. QED
    BY <2>2, <2>3
<1>6. r # <<>>
  BY <1>1, <1>4
<1>7. r[n + 1] = s[n]
  BY <1>1, <1>4
<1>8. QED
  BY <1>3, <1>4, <1>5, <1>6, <1>7 DEF Path, one, n

LEMMA PathAfter ==
  ASSUME NEW T, NEW pv, NEW s, Path(s, T, pv), NEW x \in T, pv[x] = s[Len(s)]
  PROVE  /\ Path(Append(s, x), T, pv) /\ Len(Append(s, x)) = Len(s) + 1
         /\ Append(s, x)[1] = s[1]
<1> DEFINE n == Len(s)
<1>1. /\ n \in Nat /\ n >= 1 /\ s \in Seq(T) /\ \A i \in 2 .. n : pv[s[i]] = s[i - 1]
  BY PathIs DEF Path
<1>2. PICK r : r = Append(s, x)
  OBVIOUS
<1>3. /\ r \in Seq(T) /\ Len(r) = n + 1 /\ r # <<>>
      /\ \A i \in 1 .. n : r[i] = s[i]
      /\ r[n + 1] = x
  BY <1>1, <1>2, AppendProperties
<1> HIDE DEF n
<1>4. ASSUME NEW i \in 2 .. n + 1 PROVE pv[r[i]] = r[i - 1]
  <2>1. CASE i = n + 1
    BY <1>1, <1>3, <2>1 DEF n
  <2>2. CASE i # n + 1
    <3>1. i \in 2 .. n /\ i - 1 \in 1 .. n /\ i \in 1 .. n
      BY <1>1, <2>2
    <3>2. QED
      BY <1>1, <1>3, <3>1
  <2>3. QED
    BY <2>1, <2>2
<1>5. r[1] = s[1]
  BY <1>1, <1>3
<1>6. QED
  BY <1>2, <1>3, <1>4, <1>5 DEF Path, n

\* A path up to a version and one from it on make one.
Adjoin(s, r, c, T, pv, N) ==
  c = s \o Tail(r) /\ Path(s, T, pv) /\ Path(r, T, pv) /\ s[Len(s)] = r[1] /\ pv[s[1]] = 0 /\ r[Len(r)] \notin N
LEMMA PathsJoin ==
  ASSUME NEW T, NEW pv, NEW N, NEW s, NEW r, NEW c, Adjoin(s, r, c, T, pv, N)
  PROVE  FullPath(c, T, pv, N) /\ Len(s) \in 1 .. Len(c) /\ c[Len(s)] = r[1]
<1> DEFINE n == Len(s)
           m == Len(r)
<1>0. Path(s, T, pv) /\ Path(r, T, pv) /\ s[Len(s)] = r[1] /\ pv[s[1]] = 0 /\ r[Len(r)] \notin N
  BY DEF Adjoin
<1>1. /\ n \in Nat /\ n >= 1 /\ s \in Seq(T) /\ \A i \in 2 .. n : pv[s[i]] = s[i - 1]
      /\ m \in Nat /\ m >= 1 /\ r \in Seq(T) /\ r # <<>> /\ \A i \in 2 .. m : pv[r[i]] = r[i - 1]
  BY <1>0, PathIs DEF Path
<1>2. PICK e : e = Tail(r)
  OBVIOUS
<1>3. e \in Seq(T) /\ Len(e) = m - 1 /\ \A i \in 1 .. m - 1 : e[i] = r[i + 1]
  <2>1. e \in Seq(T) /\ Len(e) = m - 1
    BY <1>1, <1>2, HeadTailProperties
  <2>2. QED
    BY <1>1, <1>2, <2>1
<1>4. c = s \o e
  BY <1>2 DEF Adjoin
<1>5. /\ c \in Seq(T) /\ Len(c) = n + (m - 1)
      /\ \A i \in 1 .. n + (m - 1) : c[i] = IF i <= n THEN s[i] ELSE e[i - n]
  <2>1. s \in Seq(T) /\ e \in Seq(T)
    BY <1>1, <1>3
  <2>2. /\ c \in Seq(T) /\ Len(c) = Len(s) + Len(e)
        /\ \A i \in 1 .. Len(s) + Len(e) : c[i] = IF i <= Len(s) THEN s[i] ELSE e[i - Len(s)]
    BY <1>4, <2>1, ConcatProperties
  <2>3. Len(e) = m - 1
    BY <1>3
  <2>4. QED
    BY <2>2, <2>3
<1>6. s[n] = r[1] /\ pv[s[1]] = 0 /\ r[m] \notin N
  BY <1>0
<1> HIDE DEF n, m
<1>7. \A i \in 1 .. n : c[i] = s[i]
  BY <1>1, <1>5
<1>8. \A i \in n .. n + (m - 1) : c[i] = r[i - n + 1]
  <2> SUFFICES ASSUME NEW i \in n .. n + (m - 1)
               PROVE  c[i] = r[i - n + 1]
    OBVIOUS
  <2>1. CASE i = n
    BY <1>1, <1>6, <1>7, <2>1
  <2>2. CASE i # n
    <3>1. i - n \in 1 .. m - 1 /\ i \in 1 .. n + (m - 1) /\ ~(i <= n)
      BY <1>1, <2>2
    <3>2. c[i] = e[i - n] /\ e[i - n] = r[(i - n) + 1]
      BY <1>3, <1>5, <3>1
    <3>3. QED
      BY <3>2
  <2>3. QED
    BY <2>1, <2>2
<1>9. ASSUME NEW i \in 2 .. n + (m - 1) PROVE pv[c[i]] = c[i - 1]
  <2>1. CASE i <= n
    <3>1. i \in 2 .. n /\ i \in 1 .. n /\ i - 1 \in 1 .. n
      BY <1>1, <2>1
    <3>2. QED
      BY <1>1, <1>7, <3>1
  <2>2. CASE ~(i <= n)
    <3>1. PICK j : j = i - n + 1
      OBVIOUS
    <3>2. j \in 2 .. m /\ i \in n .. n + (m - 1) /\ i - 1 \in n .. n + (m - 1) /\ (i - 1) - n + 1 = j - 1
      BY <1>1, <2>2, <3>1
    <3>3. c[i] = r[j] /\ c[i - 1] = r[j - 1]
      BY <1>8, <3>1, <3>2
    <3>4. QED
      BY <1>1, <3>2, <3>3
  <2>3. QED
    BY <2>1, <2>2
<1>10. c # <<>> /\ c[1] = s[1] /\ n \in 1 .. n + (m - 1) /\ c[n] = r[1]
  <2>1. 1 \in 1 .. n /\ n \in 1 .. n /\ n \in 1 .. n + (m - 1)
    BY <1>1
  <2>2. c # <<>>
    BY <1>1, <1>5
  <2>3. QED
    BY <1>6, <1>7, <2>1, <2>2
<1>11. c[n + (m - 1)] = r[m]
  <2>1. n + (m - 1) \in n .. n + (m - 1) /\ (n + (m - 1)) - n + 1 = m
    BY <1>1
  <2>2. QED
    BY <1>8, <2>1
<1>12. FullPath(c, T, pv, N)
  BY <1>5, <1>6, <1>9, <1>10, <1>11 DEF FullPath, Path
<1>13. QED
  BY <1>5, <1>10, <1>12 DEF n

\* The versions that are there, in a line.
Prev == [t \in Texts |-> db[Text(t)].previous]
Replaced == {t \in Texts : Has(SupersededBy(t)) /\ Has(Text(db[SupersededBy(t)]))}
Onto == [t \in Replaced |-> db[SupersededBy(t)]]
InLine == Line(Texts, Prev, Replaced, Onto)

\* The two walks of TextChain.
BackStep(s) ==
  LET previous == db[Text(Head(s))].previous
  IN  IF Has(Text(previous)) THEN << previous >> \o s ELSE s
OnStep(s) ==
  LET last == Last(s)
  IN  IF Has(SupersededBy(last)) /\ Has(Text(db[SupersededBy(last)]))
        THEN Append(s, db[SupersededBy(last)]) ELSE s
WalksBack(g, t) == g = [i \in 0 .. Cardinality(Texts) |-> IF i = 0 THEN << t >> ELSE BackStep(g[i - 1])]
WalksOn(g, t) == g = [i \in 0 .. Cardinality(Texts) |-> IF i = 0 THEN << t >> ELSE OnStep(g[i - 1])]

LEMMA WalkIs ==
  ASSUME NEW t, NEW g, WalksBack(g, t) \/ WalksOn(g, t), Cardinality(Texts) \in Nat
  PROVE  /\ g[0] = << t >>
         /\ WalksBack(g, t) => \A i \in 1 .. Cardinality(Texts) : g[i] = BackStep(g[i - 1])
         /\ WalksOn(g, t) => \A i \in 1 .. Cardinality(Texts) : g[i] = OnStep(g[i - 1])
BY DEF WalksBack, WalksOn

LEMMA ChainIs ==
  ASSUME NEW t
  PROVE  TextChain(t) = (CHOOSE g : WalksBack(g, t))[Cardinality(Texts)]
                          \o Tail((CHOOSE g : WalksOn(g, t))[Cardinality(Texts)])
BY DEF TextChain, WalksBack, WalksOn, BackStep, OnStep

LEMMA TextsAre ==
  ASSUME RoundsInv
  PROVE  /\ \A t : t \in Texts <=> Has(Text(t))
         /\ IsFiniteSet(Texts) /\ Cardinality(Texts) \in Nat
<1>1. \A t : t \in Texts <=> Has(Text(t))
  <2>1. \A t : Has(Text(t)) => t \in Texts
    <3> SUFFICES ASSUME NEW t, Has(Text(t)) PROVE t \in Texts
      OBVIOUS
    <3>1. Text(t) \in KeysOf("text") /\ t = Text(t)[2]
      BY KeyIs DEF KeysOf, Has
    <3>2. QED
      BY <3>1 DEF Texts
  <2>2. QED
    BY <2>1, TextsAreThere
<1>2. IsFiniteSet(Texts)
  <2>1. IsFiniteSet(KeysOf("text"))
    BY FS_Subset DEF RoundsInv, ShapesOK, KeysOf
  <2> DEFINE K == KeysOf("text")
  <2> HIDE DEF K
  <2>2. IsFiniteSet({k[2] : k \in K})
    <3> DEFINE f == [k \in K |-> k[2]]
               T == {k[2] : k \in K}
    <3>1. f \in [K -> T] /\ \A x \in T : \E k \in K : f[k] = x
      OBVIOUS
    <3> HIDE DEF f, T
    <3>2. f \in Surjection(K, T)
      BY <3>1 DEF Surjection
    <3>3. IsFiniteSet(T)
      BY <2>1, <3>2, FS_Surjection DEF K
    <3>4. QED
      BY <3>3 DEF T
  <2>3. QED
    BY <2>2 DEF Texts, K
<1>3. QED
  BY <1>1, <1>2, FS_CardinalityType

LEMMA BackExists ==
  ASSUME RoundsInv, NEW t \in Texts
  PROVE  \E g : WalksBack(g, t)
<1> DEFINE S == Seq(Texts) \ {<<>>}
           f == [s \in S |-> BackStep(s)]
           n == Cardinality(Texts)
<1>1. f \in [S -> S]
  <2>1. ASSUME NEW s \in S PROVE BackStep(s) \in S
    <3>1. PICK x : x = db[Text(Head(s))].previous
      OBVIOUS
    <3>2. CASE Has(Text(x))
      <4>1. x \in Texts
        BY <3>2, TextsAre
      <4>2. <<x>> \in Seq(Texts) /\ s \in Seq(Texts) /\ <<x>> # <<>>
        BY <4>1
      <4>3. <<x>> \o s \in Seq(Texts) /\ <<x>> \o s # <<>>
        BY <4>2, ConcatProperties, ConcatEqualIffEmpty
      <4>4. QED
        BY <3>1, <3>2, <4>3 DEF BackStep
    <3>3. QED
      BY <3>1, <3>2 DEF BackStep
  <2> HIDE DEF S
  <2>2. QED
    BY <2>1
<1>2. <<t>> \in S /\ n \in Nat
  BY TextsAre
<1> HIDE DEF S
<1>3. PICK g \in [0 .. n -> S] : Iterates(g, n, <<t>>, f)
  <2> HIDE DEF f, n
  <2>1. QED
    BY <1>1, <1>2, IterationExists
<1>4. g[0] = <<t>> /\ \A i \in 1 .. n : g[i] = BackStep(g[i - 1])
  <2>1. g[0] = <<t>> /\ \A i \in 1 .. n : g[i] = f[g[i - 1]]
    BY <1>3 DEF Iterates
  <2>2. \A i \in 1 .. n : g[i - 1] \in S
    BY <1>2
  <2>3. QED
    BY <2>1, <2>2
<1>5. g = [i \in 0 .. n |-> IF i = 0 THEN << t >> ELSE BackStep(g[i - 1])]
  <2> HIDE DEF n
  <2>1. \A i \in 0 .. n : g[i] = IF i = 0 THEN << t >> ELSE BackStep(g[i - 1])
    BY <1>2, <1>4
  <2>2. QED
    BY <2>1
<1>6. QED
  BY <1>5 DEF WalksBack

LEMMA OnExists ==
  ASSUME RoundsInv, NEW t \in Texts
  PROVE  \E g : WalksOn(g, t)
<1> DEFINE S == Seq(Texts) \ {<<>>}
           f == [s \in S |-> OnStep(s)]
           n == Cardinality(Texts)
<1>1. f \in [S -> S]
  <2>1. ASSUME NEW s \in S PROVE OnStep(s) \in S
    <3>1. PICK l, x : l = Last(s) /\ x = db[SupersededBy(l)]
      OBVIOUS
    <3>2. CASE Has(SupersededBy(l)) /\ Has(Text(x))
      <4>1. x \in Texts
        BY <3>2, TextsAre
      <4>2. Append(s, x) \in Seq(Texts) /\ Append(s, x) # <<>>
        BY <4>1, AppendProperties
      <4>3. QED
        BY <3>1, <3>2, <4>2 DEF OnStep
    <3>3. QED
      BY <3>1, <3>2 DEF OnStep
  <2> HIDE DEF S
  <2>2. QED
    BY <2>1
<1>2. <<t>> \in S /\ n \in Nat
  BY TextsAre
<1> HIDE DEF S
<1>3. PICK g \in [0 .. n -> S] : Iterates(g, n, <<t>>, f)
  <2> HIDE DEF f, n
  <2>1. QED
    BY <1>1, <1>2, IterationExists
<1>4. g[0] = <<t>> /\ \A i \in 1 .. n : g[i] = OnStep(g[i - 1])
  <2>1. g[0] = <<t>> /\ \A i \in 1 .. n : g[i] = f[g[i - 1]]
    BY <1>3 DEF Iterates
  <2>2. \A i \in 1 .. n : g[i - 1] \in S
    BY <1>2
  <2>3. QED
    BY <2>1, <2>2
<1>5. g = [i \in 0 .. n |-> IF i = 0 THEN << t >> ELSE OnStep(g[i - 1])]
  <2> HIDE DEF n
  <2>1. \A i \in 0 .. n : g[i] = IF i = 0 THEN << t >> ELSE OnStep(g[i - 1])
    BY <1>2, <1>4
  <2>2. QED
    BY <2>1
<1>6. QED
  BY <1>5 DEF WalksOn

\* As far as the walk goes from the text t it is on a path; before it has gone
\* as far as there are texts it has come to the end.
LEMMA BackIsPath ==
  ASSUME RoundsInv, InLine, NEW t \in Texts, NEW g, WalksBack(g, t), NEW e, e = g[Cardinality(Texts)]
  PROVE  Path(e, Texts, Prev) /\ e[Len(e)] = t /\ Prev[e[1]] = 0
<1> DEFINE n == Cardinality(Texts)
           WalkAt(s, i) == Path(s, Texts, Prev) /\ s[Len(s)] = t /\ (Len(s) = i + 1 \/ Prev[s[1]] = 0)
           P == {i \in 0 .. n : WalkAt(g[i], i)}
<1>1. n \in Nat /\ \A x : x \in Texts <=> Has(Text(x))
  BY TextsAre
<1>2. g[0] = << t >> /\ \A i \in 1 .. n : g[i] = BackStep(g[i - 1])
  BY <1>1, WalkIs
<1>3. /\ \A x \in Texts : Prev[x] = db[Text(x)].previous /\ (Prev[x] # 0 => Prev[x] \in Texts)
      /\ 0 \notin Texts
  BY DEF Prev, InLine, Line
<1>4. 0 \in P
  <2>1. PICK s : s = << t >>
    OBVIOUS
  <2>2. Path(s, Texts, Prev) /\ Len(s) = 1 /\ s[1] = t
    BY <2>1 DEF Path
  <2>3. WalkAt(s, 0)
    BY <2>2
  <2>4. g[0] = s
    BY <1>2, <2>1
  <2> HIDE DEF WalkAt
  <2>5. QED
    BY <1>1, <2>3, <2>4
<1>5. ASSUME NEW i \in 1 .. n, i - 1 \in P PROVE i \in P
  <2>1. PICK s : s = g[i - 1]
    OBVIOUS
  <2>2. Path(s, Texts, Prev) /\ s[Len(s)] = t /\ (Len(s) = i \/ Prev[s[1]] = 0)
    BY <1>5, <2>1
  <2>3. Head(s) = s[1] /\ s[1] \in Texts
    BY <2>2, PathIs
  <2>4. PICK x : x = Prev[s[1]]
    OBVIOUS
  <2>5. g[i] = IF Has(Text(x)) THEN << x >> \o s ELSE s
    BY <1>2, <1>3, <2>1, <2>3, <2>4 DEF BackStep
  <2>6. CASE Has(Text(x))
    <3>1. x \in Texts /\ x # 0
      BY <1>1, <1>3, <2>6
    <3>2. PICK r : r = << x >> \o s
      OBVIOUS
    <3>3. Path(r, Texts, Prev) /\ Len(r) = Len(s) + 1 /\ r[Len(r)] = s[Len(s)]
      BY <2>2, <2>4, <3>1, <3>2, PathBefore
    <3>4. Len(s) = i
      BY <2>2, <2>4, <3>1
    <3>5. WalkAt(r, i)
      BY <2>2, <3>3, <3>4
    <3>6. g[i] = r
      BY <2>5, <2>6, <3>2
    <3> HIDE DEF WalkAt
    <3>7. QED
      BY <3>5, <3>6
  <2>7. CASE ~Has(Text(x))
    <3>1. Prev[s[1]] = 0
      BY <1>1, <1>3, <2>3, <2>4, <2>7
    <3>2. WalkAt(s, i)
      BY <2>2, <3>1
    <3>3. g[i] = s
      BY <2>5, <2>7
    <3> HIDE DEF WalkAt
    <3>4. QED
      BY <3>2, <3>3
  <2>8. QED
    BY <2>6, <2>7
<1>6. n \in P
  <2> HIDE DEF P, n
  <2>1. QED
    BY <1>1, <1>4, <1>5, Climbs
<1>7. WalkAt(e, n)
  BY <1>6
<1>8. Len(e) <= n
  <2>1. Path(e, Texts, Prev)
    BY <1>7
  <2>2. QED
    BY <2>1, PathRises DEF InLine
<1>9. Len(e) # n + 1
  BY <1>1, <1>8
<1>10. QED
  BY <1>7, <1>9

LEMMA OnIsPath ==
  ASSUME RoundsInv, InLine, NEW t \in Texts, NEW g, WalksOn(g, t), NEW e, e = g[Cardinality(Texts)]
  PROVE  Path(e, Texts, Prev) /\ e[1] = t /\ e[Len(e)] \notin Replaced
<1> DEFINE n == Cardinality(Texts)
           WalkAt(s, i) == Path(s, Texts, Prev) /\ s[1] = t /\ (Len(s) = i + 1 \/ s[Len(s)] \notin Replaced)
           P == {i \in 0 .. n : WalkAt(g[i], i)}
<1>1. n \in Nat /\ \A x : x \in Texts <=> Has(Text(x))
  BY TextsAre
<1>2. g[0] = << t >> /\ \A i \in 1 .. n : g[i] = OnStep(g[i - 1])
  BY <1>1, WalkIs
<1>3. \A x \in Replaced : db[SupersededBy(x)] \in Texts /\ Prev[db[SupersededBy(x)]] = x
  <2>1. \A x \in Replaced : Onto[x] \in Texts /\ Prev[Onto[x]] = x
    BY DEF InLine, Line
  <2>2. QED
    BY <2>1 DEF Onto
<1>4. 0 \in P
  <2>1. PICK s : s = << t >>
    OBVIOUS
  <2>2. Path(s, Texts, Prev) /\ Len(s) = 1 /\ s[1] = t
    BY <2>1 DEF Path
  <2>3. WalkAt(s, 0)
    BY <2>2
  <2>4. g[0] = s
    BY <1>2, <2>1
  <2> HIDE DEF WalkAt
  <2>5. QED
    BY <1>1, <2>3, <2>4
<1>5. ASSUME NEW i \in 1 .. n, i - 1 \in P PROVE i \in P
  <2>1. PICK s : s = g[i - 1]
    OBVIOUS
  <2>2. Path(s, Texts, Prev) /\ s[1] = t /\ (Len(s) = i \/ s[Len(s)] \notin Replaced)
    BY <1>5, <2>1
  <2>3. PICK l, x : l = Last(s) /\ x = db[SupersededBy(l)]
    OBVIOUS
  <2>4. l = s[Len(s)] /\ l \in Texts
    BY <2>2, <2>3, PathIs
  <2>5. g[i] = IF Has(SupersededBy(l)) /\ Has(Text(x)) THEN Append(s, x) ELSE s
    BY <1>2, <2>1, <2>3 DEF OnStep
  <2>6. l \in Replaced <=> Has(SupersededBy(l)) /\ Has(Text(x))
    BY <2>3, <2>4 DEF Replaced
  <2>7. CASE l \in Replaced
    <3>1. x \in Texts /\ Prev[x] = l
      BY <1>3, <2>3, <2>7
    <3>2. PICK r : r = Append(s, x)
      OBVIOUS
    <3>3. Path(r, Texts, Prev) /\ Len(r) = Len(s) + 1 /\ r[1] = s[1]
      BY <2>2, <2>4, <3>1, <3>2, PathAfter
    <3>4. Len(s) = i
      BY <2>2, <2>4, <2>7
    <3>5. WalkAt(r, i)
      BY <2>2, <3>3, <3>4
    <3>6. g[i] = r
      BY <2>5, <2>6, <2>7, <3>2
    <3> HIDE DEF WalkAt
    <3>7. QED
      BY <3>5, <3>6
  <2>8. CASE l \notin Replaced
    <3>1. WalkAt(s, i)
      BY <2>2, <2>4, <2>8
    <3>2. g[i] = s
      BY <2>5, <2>6, <2>8
    <3> HIDE DEF WalkAt
    <3>3. QED
      BY <3>1, <3>2
  <2>9. QED
    BY <2>7, <2>8
<1>6. n \in P
  <2> HIDE DEF P, n
  <2>1. QED
    BY <1>1, <1>4, <1>5, Climbs
<1>7. WalkAt(e, n)
  BY <1>6
<1>8. Len(e) <= n
  <2>1. Path(e, Texts, Prev)
    BY <1>7
  <2>2. QED
    BY <2>1, PathRises DEF InLine
<1>9. Len(e) # n + 1
  BY <1>1, <1>8
<1>10. QED
  BY <1>7, <1>9

LEMMA ChainIsFull ==
  ASSUME RoundsInv, InLine, NEW t \in Texts
  PROVE  /\ FullPath(TextChain(t), Texts, Prev, Replaced)
         /\ \E a \in 1 .. Len(TextChain(t)) : TextChain(t)[a] = t
<1>1. PICK g, h : WalksBack(g, t) /\ WalksOn(h, t) /\ g = (CHOOSE x : WalksBack(x, t)) /\ h = (CHOOSE x : WalksOn(x, t))
  BY BackExists, OnExists
<1>2. PICK s, r : s = g[Cardinality(Texts)] /\ r = h[Cardinality(Texts)]
  OBVIOUS
<1>3. TextChain(t) = s \o Tail(r)
  BY <1>1, <1>2, ChainIs
<1>4. Path(s, Texts, Prev) /\ s[Len(s)] = t /\ Prev[s[1]] = 0
  BY <1>1, <1>2, BackIsPath
<1>5. Path(r, Texts, Prev) /\ r[1] = t /\ r[Len(r)] \notin Replaced
  BY <1>1, <1>2, OnIsPath
<1>6. PICK c : c = s \o Tail(r)
  OBVIOUS
<1>7. Adjoin(s, r, c, Texts, Prev, Replaced)
  BY <1>4, <1>5, <1>6 DEF Adjoin
<1>8. FullPath(c, Texts, Prev, Replaced) /\ Len(s) \in 1 .. Len(c) /\ c[Len(s)] = t
  <2>1. FullPath(c, Texts, Prev, Replaced) /\ Len(s) \in 1 .. Len(c) /\ c[Len(s)] = r[1]
    BY <1>7, PathsJoin
  <2>2. QED
    BY <1>5, <2>1
<1>9. QED
  BY <1>3, <1>6, <1>8

\* Between calls, when none is missing and none has two successors, the
\* versions are in a line.
LEMMA VersionsInLine ==
  ASSUME RoundsInv, WholeInv, LineageInv, Quiet, ~interrupted,
         \A t \in Texts : db[Text(t)].previous # 0 => Has(Text(db[Text(t)].previous)),
         \A t, u \in Texts : t # u /\ db[Text(t)].previous = db[Text(u)].previous => db[Text(t)].previous = 0,
         \A t \in Texts : Has(SupersededBy(db[Text(t)].previous)) =>
                            Has(Text(db[SupersededBy(db[Text(t)].previous)]))
  PROVE  InLine
<1>1. IsFiniteSet(Texts) /\ \A x : x \in Texts <=> Has(Text(x))
  BY TextsAre
<1>2. ASSUME NEW t \in Texts
      PROVE  t \in Nat /\ t # 0 /\ Prev[t] = db[Text(t)].previous /\ Prev[t] \in Nat /\ Prev[t] < t
  <2>1. Stored(Text(t), db[Text(t)])
    BY <1>1 DEF Stored, Has
  <2>2. Born(t, db[Text(t)])
    BY <2>1, Zenon DEF LineageInv, Written
  <2>3. QED
    BY <2>2 DEF Born, Prev
<1>3. ASSUME NEW t \in Texts, Prev[t] # 0 PROVE Prev[t] \in Replaced
  <2>1. PICK y : y = Prev[t] /\ y = db[Text(t)].previous
    BY <1>2
  <2>2. Has(Text(y)) /\ y \in Texts
    BY <1>1, <1>3, <2>1
  <2>3. PICK w : w = db[Text(t)] /\ Stored(Text(t), w)
    BY <1>1 DEF Stored, Has
  <2>4. Closing(y)
    <3>1. Live(y)
      BY <2>2 DEF Live, Coming
    <3>2. w.previous = y
      BY <2>1, <2>3
    <3>3. Live(w.previous) /\ w.previous # 0
      BY <1>3, <2>1, <3>1, <3>2
    <3>4. Closing(w.previous)
      BY <2>3, <3>3, Zenon DEF LineageInv
    <3>5. QED
      BY <3>2, <3>4
  <2>5. ~Pending(SupersededBy(y))
    <3>1. \A p \in Proc : ops[p] = <<>>
      BY IdleHasNoBatch DEF Quiet
    <3>2. QED
      BY <3>1 DEF Pending, PutsAt
  <2>6. Has(SupersededBy(y))
    BY <2>4, <2>5 DEF Closing, Coming
  <2>7. Has(Text(db[SupersededBy(y)]))
    BY <2>1, <2>6
  <2>8. QED
    BY <2>1, <2>2, <2>6, <2>7 DEF Replaced
<1>4. ASSUME NEW t \in Replaced PROVE Onto[t] \in Texts /\ Prev[Onto[t]] = t
  <2>1. PICK u : u = db[SupersededBy(t)] /\ u = Onto[t]
    BY DEF Onto
  <2>2. Has(SupersededBy(t)) /\ Has(Text(u)) /\ u \in Texts
    BY <1>1, <2>1 DEF Replaced
  <2>3. Written(SupersededBy(t), u) /\ Written(Text(u), db[Text(u)])
    BY <2>1, <2>2, Zenon DEF Written, Stored, Has
  <2>4. db[Text(u)].previous = t
    BY <2>3, Zenon DEF WholeInv, ValuesOK, SupersededOK
  <2>5. QED
    BY <1>2, <2>1, <2>2, <2>4
<1>5. \A t, u \in Texts : Prev[t] = Prev[u] /\ Prev[t] # 0 => t = u
  BY <1>2
<1>6. Prev \in [Texts -> Nat] /\ Replaced \subseteq Texts /\ Onto \in [Replaced -> Texts]
  <2>1. Prev \in [Texts -> Nat]
    BY <1>2 DEF Prev
  <2>2. Replaced \subseteq Texts
    BY DEF Replaced
  <2>3. Onto \in [Replaced -> Texts]
    BY <1>4 DEF Onto
  <2>4. QED
    BY <2>1, <2>2, <2>3
<1>7. Texts \subseteq Nat \ {0}
  BY <1>2
<1>8. QED
  BY <1>1, <1>2, <1>3, <1>4, <1>5, <1>6, <1>7 DEF InLine, Line

LEMMA LineageMakesChains ==
  RoundsInv /\ WholeInv /\ LineageInv => ChainFromAnyVersion
<1> SUFFICES ASSUME RoundsInv, WholeInv, LineageInv, Quiet, ~interrupted,
                    ~(\E t \in Texts : db[Text(t)].previous # 0 /\ ~Has(Text(db[Text(t)].previous))),
                    ~(\E t, u \in Texts : /\ t # u /\ db[Text(t)].previous = db[Text(u)].previous
                                          /\ db[Text(t)].previous # 0),
                    ~(\E t \in Texts : /\ Has(SupersededBy(db[Text(t)].previous))
                                       /\ ~Has(Text(db[SupersededBy(db[Text(t)].previous)])))
             PROVE  \A t \in Texts : \A i \in DOMAIN TextChain(t) :
                      /\ TextChain(TextChain(t)[i]) = TextChain(t)
                      /\ i > 1 => TextChain(t)[i - 1] < TextChain(t)[i]
  BY DEF ChainFromAnyVersion
<1>1. InLine
  BY VersionsInLine
<1> SUFFICES ASSUME NEW t \in Texts, NEW i \in DOMAIN TextChain(t)
             PROVE  /\ TextChain(TextChain(t)[i]) = TextChain(t)
                    /\ i > 1 => TextChain(t)[i - 1] < TextChain(t)[i]
  OBVIOUS
<1>2. PICK s : s = TextChain(t)
  OBVIOUS
<1>3. FullPath(s, Texts, Prev, Replaced)
  BY <1>1, <1>2, ChainIsFull
<1>4. i \in 1 .. Len(s) /\ Len(s) \in Nat /\ s[i] \in Texts
  BY <1>2, <1>3, PathIs DEF FullPath
<1>5. PICK u : u = s[i]
  OBVIOUS
<1>6. PICK r : r = TextChain(u)
  OBVIOUS
<1>7. FullPath(r, Texts, Prev, Replaced) /\ \E a \in 1 .. Len(r) : r[a] = u
  BY <1>1, <1>4, <1>5, <1>6, ChainIsFull
<1>8. r = s
  BY <1>1, <1>3, <1>4, <1>5, <1>7, OnePath DEF InLine
<1>9. i > 1 => s[i - 1] < s[i]
  <2>1. \A j \in 1 .. Len(s) : \A k \in 1 .. j - 1 : s[k] < s[j]
    BY <1>1, <1>3, PathRises DEF InLine, FullPath
  <2>2. QED
    BY <1>4, <2>1
<1>10. QED
  BY <1>2, <1>5, <1>6, <1>8, <1>9

(* From any version of a text a reader walks the same versions, oldest      *)
(* first (TextChain), between calls, as long as no batch has stopped        *)
(* half-way and no version is missing or has two successors: whatever       *)
(* closes have raced and whatever was deleted, for any number of            *)
(* goroutines, texts and users (CreateText, CloseRound, DeleteText).        *)
THEOREM HistoryFromAnyVersion == Spec => []ChainFromAnyVersion
<1>1. Init => LineageInv
  BY InitLineage
<1>2. RoundsInv /\ WholeInv /\ LineageInv /\ [Next]_vars => LineageInv'
  BY StepLineage
<1>3. RoundsInv /\ WholeInv /\ LineageInv => ChainFromAnyVersion
  BY LineageMakesChains
<1>4. QED
  BY RecordsStayWhole, <1>1, <1>2, <1>3, PTL DEF Spec
=============================================================================
