--------------------------- MODULE AccountsProofs ---------------------------
(* What holds of the accounts for every value of the constants: the types,  *)
(* then the safety properties, from the types and from what a step does to  *)
(* each table.                                                              *)
EXTENDS Accounts, FiniteSetTheorems, TLAPS

\* One term of a mask is the bit of a right, or nothing.
LEMMA BitIfIs ==
  ASSUME NEW perms
  PROVE  /\ BitIf(perms, "vote") = IF "vote" \in perms THEN 1 ELSE 0
         /\ BitIf(perms, "createText") = IF "createText" \in perms THEN 2 ELSE 0
         /\ BitIf(perms, "closeText") = IF "closeText" \in perms THEN 4 ELSE 0
         /\ BitIf(perms, "editText") = IF "editText" \in perms THEN 8 ELSE 0
         /\ BitIf(perms, "subscribe") = IF "subscribe" \in perms THEN 64 ELSE 0
  BY DEF BitIf, PermBit

\* Five bits at their positions, taken apart again.
LEMMA Positions ==
  ASSUME NEW a \in {0, 1}, NEW b \in {0, 2}, NEW c \in {0, 4}, NEW d \in {0, 8}, NEW e \in {0, 64}
  PROVE  LET mask == a + b + c + d + e
         IN  /\ (mask \div 1) % 2 = 1 <=> a = 1
             /\ (mask \div 2) % 2 = 1 <=> b = 2
             /\ (mask \div 4) % 2 = 1 <=> c = 4
             /\ (mask \div 8) % 2 = 1 <=> d = 8
             /\ (mask \div 64) % 2 = 1 <=> e = 64
  OBVIOUS

(* A mask gives back the rights it was made of: what a token carries is     *)
(* read as what was signed (Bits, PermissionsFromBits), with the retired    *)
(* positions in between.                                                    *)
THEOREM MaskRoundTrip ==
  ASSUME NEW perms \in SUBSET Action
  PROVE  PermissionsFromBits(Bits(perms)) = perms
<1> DEFINE a == BitIf(perms, "vote")
           b == BitIf(perms, "createText")
           c == BitIf(perms, "closeText")
           d == BitIf(perms, "editText")
           e == BitIf(perms, "subscribe")
<1>1. a \in {0, 1} /\ b \in {0, 2} /\ c \in {0, 4} /\ d \in {0, 8} /\ e \in {0, 64}
  BY BitIfIs
<1>2. /\ a = 1 <=> "vote" \in perms
      /\ b = 2 <=> "createText" \in perms
      /\ c = 4 <=> "closeText" \in perms
      /\ d = 8 <=> "editText" \in perms
      /\ e = 64 <=> "subscribe" \in perms
  BY BitIfIs
<1>3. Bits(perms) = a + b + c + d + e
  BY DEF Bits
<1> HIDE DEF a, b, c, d, e
<1>4. /\ HasBit(Bits(perms), "vote") <=> "vote" \in perms
      /\ HasBit(Bits(perms), "createText") <=> "createText" \in perms
      /\ HasBit(Bits(perms), "closeText") <=> "closeText" \in perms
      /\ HasBit(Bits(perms), "editText") <=> "editText" \in perms
      /\ HasBit(Bits(perms), "subscribe") <=> "subscribe" \in perms
  BY <1>1, <1>2, <1>3, Positions DEF HasBit, PermBit
<1> QED
  BY <1>4 DEF PermissionsFromBits, Action

-----------------------------------------------------------------------------
(* Types.                                                                  *)

Stage == {"idle", "grant", "link", "mail", "undoEntry", "undoRow", "insert", "reread", "issue",
          "row", "entry", "remember", "recall", "handle", "update", "put", "unlink", "purge",
          "dropRow"}
Op == {"none", "register", "google", "login", "vote", "assign", "delete"}
MaybeId == Nat \cup {None}
Row == [email : Email \cup {None}, pending : BOOLEAN, uuid : MaybeId]
Claim == [sub : MaybeId, root : BOOLEAN, mask : Nat]
Call == [op : Op, at : Stage, id : MaybeId, email : Email \cup {None}, uuid : MaybeId,
         rights : Rights, seen : Rights, claims : Claim, gone : BOOLEAN, clean : BOOLEAN]
Maps == UNION {[I -> Rights] : I \in SUBSET Nat}
Past == [given : SUBSET (Nat \X Rights), granted : Maps, read : Maps, acked : SUBSET Nat,
         undone : SUBSET [id : Nat, uuid : MaybeId], doomed : SUBSET Nat, rolledBack : SUBSET Nat,
         late : SUBSET Nat]

\* The stages at which a call writes an account, those at which it relies on
\* the directory entry it keeps the id of, and those at which it has claims.
Writing == {"grant", "link", "mail", "undoEntry", "undoRow", "update", "put", "unlink", "purge",
            "dropRow"}
Holding == {"link", "mail", "undoEntry", "undoRow", "update", "put", "unlink", "issue"}
Deciding == {"row", "entry", "remember", "recall", "handle"}

\* Which calls are where, and which of their fields are set there.
Shape(c) ==
  /\ c.at \in Writing \cup {"issue"} => c.id \in Nat
  /\ c.at \in Deciding => c.claims.sub \in Nat /\ c.op \in {"vote", "assign", "delete"}
  /\ c.at \in {"grant", "link"} => c.op \in {"register", "google", "assign"}
  /\ c.at \in {"mail", "undoEntry", "undoRow"} => c.op = "register"
  /\ c.at \in {"update", "put"} => c.op = "assign"
  /\ c.at \in {"unlink", "purge", "dropRow"} => c.op = "delete"
  /\ c.at \in {"insert", "reread"} => c.op = "google"
  /\ c.op = "register" => c.at \in {"grant", "link", "mail", "undoEntry", "undoRow"}
  /\ c.at \in {"grant", "insert", "reread"} => c.uuid = None
  /\ c.at \in {"link", "mail", "undoEntry", "update", "put", "unlink", "entry"} => c.uuid \in Nat

\* Identifiers that have been given out.
Issued(x) == x = None \/ x \in 0 .. fresh - 1

UsersOK ==
  /\ users \in [DOMAIN users -> Row] /\ DOMAIN users \subseteq 0 .. fresh - 1
  /\ \A i \in DOMAIN users : Issued(users[i].uuid)
DirOK == dir \in [DOMAIN dir -> Rights] /\ DOMAIN dir \subseteq 0 .. fresh - 1
TokensOK == \A t \in tokens : t \in Claim /\ t.sub \in 0 .. fresh - 1
Kept == [id : Nat, rights : Rights]
CacheOK ==
  /\ cache \in Seq(Kept) /\ Len(cache) <= MaxCached
  /\ \A k, l \in DOMAIN cache : cache[k].id = cache[l].id => k = l
CallOK(c) == c \in Call /\ Shape(c) /\ Issued(c.id) /\ Issued(c.uuid) /\ Issued(c.claims.sub)
PastOK ==
  /\ past \in Past /\ past.acked \subseteq 0 .. fresh - 1
  /\ \A f \in past.undone : f.id \in 0 .. fresh - 1 /\ Issued(f.uuid)

\* Every variable has its type, and identifiers are new when they are given out.
TypeOK ==
  /\ fresh \in Nat /\ content \subseteq 0 .. fresh - 1
  /\ UsersOK /\ DirOK /\ TokensOK /\ CacheOK /\ PastOK
  /\ call \in [Proc -> Call] /\ \A p \in Proc : CallOK(call[p])
  /\ overlaps \in [writes : SUBSET Nat, reads : SUBSET Nat]

-----------------------------------------------------------------------------
(* Tables, calls and masks.                                                *)

LEMMA WithIs ==
  ASSUME NEW S, NEW f, f \in [DOMAIN f -> S], NEW k, NEW v \in S
  PROVE  /\ With(f, k, v) \in [DOMAIN f \cup {k} -> S]
         /\ DOMAIN With(f, k, v) = DOMAIN f \cup {k}
         /\ With(f, k, v)[k] = v
         /\ \A x \in DOMAIN f : x # k => With(f, k, v)[x] = f[x]
BY DEF With

LEMMA WithoutIs ==
  ASSUME NEW S, NEW f, f \in [DOMAIN f -> S], NEW k
  PROVE  /\ Without(f, k) \in [DOMAIN f \ {k} -> S]
         /\ DOMAIN Without(f, k) = DOMAIN f \ {k}
         /\ \A x \in DOMAIN f : x # k => Without(f, k)[x] = f[x]
BY DEF Without

LEMMA RightsAre ==
  /\ NoRights \in Rights /\ DefaultPermissions \in Rights
  /\ \A r \in Rights : r.root \in BOOLEAN /\ r.perms \in SUBSET Action
BY DEF Rights, NoRights, DefaultPermissions, Action

LEMMA BitsAreNat == ASSUME NEW perms PROVE Bits(perms) \in Nat
<1>1. \A a \in Action : BitIf(perms, a) \in Nat
  BY BitIfIs DEF Action
<1>2. QED
  BY <1>1 DEF Bits, Action

\* What claims carry of the rights they are made of.
LEMMA ClaimsAre ==
  ASSUME NEW i \in MaybeId, NEW r \in Rights
  PROVE  Claims(i, r) \in Claim /\ Claims(i, r).sub = i /\ RightsOf(Claims(i, r)) = r
<1>1. Claims(i, r) \in Claim /\ Claims(i, r).sub = i
  BY RightsAre, BitsAreNat DEF Claims, Claim
<1>2. PermissionsFromBits(Bits(r.perms)) = r.perms
  BY RightsAre, MaskRoundTrip
<1>3. r = [root |-> r.root, perms |-> r.perms]
  BY DEF Rights
<1>4. QED
  BY <1>1, <1>2, <1>3 DEF Claims, RightsOf

LEMMA RightsOfType == ASSUME NEW t \in Claim PROVE RightsOf(t) \in Rights
BY DEF RightsOf, Rights, Claim, PermissionsFromBits

LEMMA NoCallIs ==
  /\ NoCall \in Call /\ Shape(NoCall)
  /\ NoCall.at = "idle" /\ NoCall.op = "none" /\ NoCall.id = None /\ NoCall.uuid = None
  /\ NoCall.claims.sub = None /\ NoCall.clean /\ NoCall.rights = NoRights
<1>1. NoCall \in Call
  BY RightsAre DEF NoCall, Call, Stage, Op, MaybeId, Claim
<1>2. QED
  BY <1>1, Zenon DEF NoCall, Shape, Writing, Deciding

\* Calls that go on, by the fields that change.
LEMMA CallForms ==
  ASSUME NEW c \in Call, NEW at \in Stage
  PROVE  /\ [c EXCEPT !.at = at] \in Call
         /\ [c EXCEPT !.gone = TRUE] \in Call
         /\ [c EXCEPT !.at = at, !.clean = FALSE] \in Call
         /\ \A u \in MaybeId : [c EXCEPT !.at = at, !.uuid = u] \in Call
         /\ \A i \in MaybeId : [c EXCEPT !.at = at, !.id = i] \in Call
         /\ \A r \in Rights : [c EXCEPT !.at = at, !.seen = r] \in Call
         /\ \A t \in Claim : [c EXCEPT !.at = at, !.claims = t] \in Call
BY Zenon DEF Call

\* Calls that arrive.
LEMMA NewCallForms ==
  ASSUME NEW op \in Op, NEW at \in Stage
  PROVE  /\ \A i, u \in MaybeId :
              [NoCall EXCEPT !.op = op, !.at = at, !.id = i, !.uuid = u] \in Call
         /\ \A i \in MaybeId, r \in Rights :
              [NoCall EXCEPT !.op = op, !.at = at, !.id = i, !.rights = r] \in Call
         /\ \A e \in Email, r \in Rights :
              [NoCall EXCEPT !.op = op, !.at = at, !.email = e, !.rights = r] \in Call
         /\ \A t \in Claim, i \in MaybeId, r \in Rights :
              [NoCall EXCEPT !.op = op, !.at = at, !.claims = t, !.id = i, !.rights = r] \in Call
BY NoCallIs, Zenon DEF Call

-----------------------------------------------------------------------------
(* Types are kept.                                                         *)

LEMMA InitTypeOK == Init => TypeOK
<1> SUFFICES ASSUME Init PROVE TypeOK
  OBVIOUS
<1> DEFINE r == [root |-> TRUE, perms |-> {}]
<1>0. r \in Rights
  BY DEF Rights
<1>1. UsersOK /\ fresh = 3 /\ content = {}
  BY DEF Init, UsersOK, Row, MaybeId, Issued, Root, RootUUID
<1>2. DirOK
  BY <1>0 DEF Init, DirOK, RootUUID
<1>3. TokensOK
  <2>1. tokens = {Claims(Root, r)} /\ Root \in MaybeId /\ Root \in 0 .. fresh - 1
    BY <1>1 DEF Init, MaybeId, Root
  <2> HIDE DEF r
  <2>2. Claims(Root, r) \in Claim /\ Claims(Root, r).sub = Root
    BY <1>0, <2>1, ClaimsAre
  <2>3. QED
    BY <2>1, <2>2 DEF TokensOK
<1>4. CacheOK /\ overlaps \in [writes : SUBSET Nat, reads : SUBSET Nat]
  <2>1. cache = <<>> /\ overlaps = [writes |-> {}, reads |-> {}]
    BY DEF Init
  <2>2. CacheOK
    <3>1. Len(<<>>) = 0 /\ DOMAIN <<>> = {} /\ <<>> \in Seq(Kept)
      OBVIOUS
    <3>2. QED
      BY <2>1, <3>1, MaxCachedAssumption DEF CacheOK
  <2>3. QED
    BY <2>1, <2>2
<1>5. PastOK
  <2> DEFINE none == [i \in {} |-> NoRights]
  <2>1. none \in Maps
    <3>1. none \in [{} -> Rights] /\ {} \in SUBSET Nat
      OBVIOUS
    <3>2. QED
      BY <3>1, Zenon DEF Maps
  <2>2. {<<Root, r>>} \in SUBSET (Nat \X Rights)
    <3> HIDE DEF r
    <3>1. Root \in Nat
      BY DEF Root
    <3>2. QED
      BY <1>0, <3>1
  <2>3. past = [given |-> {<<Root, r>>}, granted |-> none, read |-> none, acked |-> {},
                undone |-> {}, doomed |-> {}, rolledBack |-> {}, late |-> {}]
    BY DEF Init
  <2> HIDE DEF none, r
  <2>4. QED
    BY <2>1, <2>2, <2>3 DEF PastOK, Past
<1>6. call \in [Proc -> Call] /\ \A p \in Proc : CallOK(call[p])
  BY NoCallIs DEF Init, CallOK, Issued
<1>7. QED
  BY <1>1, <1>2, <1>3, <1>4, <1>5, <1>6 DEF TypeOK

\* Identifiers are given out in order.
Counts == fresh' = fresh \/ fresh' = fresh + 1

\* Identifiers that are given out after the step.
IssuedNow(x) == x = None \/ x \in 0 .. fresh' - 1

LEMMA IdsKept ==
  ASSUME fresh \in Nat, Counts
  PROVE  fresh' \in Nat /\ \A x \in 0 .. fresh - 1 : x \in 0 .. fresh' - 1
BY DEF Counts

LEMMA IssuedKept ==
  ASSUME fresh \in Nat, Counts, NEW x, Issued(x)
  PROVE  IssuedNow(x)
BY DEF Issued, IssuedNow, Counts

LEMMA UsersKept ==
  ASSUME fresh \in Nat, Counts, UsersOK, users' = users
  PROVE  UsersOK'
BY IdsKept DEF UsersOK, Issued

LEMMA DirKept ==
  ASSUME fresh \in Nat, Counts, DirOK, dir' = dir
  PROVE  DirOK'
BY DEF DirOK, Counts

LEMMA TokensKept ==
  ASSUME fresh \in Nat, Counts, TokensOK, tokens' = tokens
  PROVE  TokensOK'
BY DEF TokensOK, Counts

LEMMA PastKept ==
  ASSUME fresh \in Nat, Counts, PastOK, past' = past
  PROVE  PastOK'
BY DEF PastOK, Counts, Issued

\* The call of p goes on as c.
LEMMA CallStep ==
  ASSUME TypeOK, Counts, NEW p \in Proc, NEW c \in Call, Shape(c), call' = [call EXCEPT ![p] = c],
         IssuedNow(c.id),
         IssuedNow(c.uuid),
         IssuedNow(c.claims.sub)
  PROVE  /\ call' \in [Proc -> Call] /\ \A q \in Proc : CallOK(call[q])'
         /\ call'[p] = c /\ \A q \in Proc : q # p => call'[q] = call[q]
<1>1. call' \in [Proc -> Call] /\ call'[p] = c /\ \A q \in Proc : q # p => call'[q] = call[q]
  BY DEF TypeOK
<1>2. CallOK(call[p])'
  BY <1>1 DEF CallOK, Issued, IssuedNow
<1>3. ASSUME NEW q \in Proc, q # p PROVE CallOK(call[q])'
  <2>1. CallOK(call[q]) /\ call'[q] = call[q] /\ fresh \in Nat
    BY <1>1, <1>3 DEF TypeOK
  <2>2. QED
    BY <2>1, IssuedKept DEF CallOK, Issued, IssuedNow
<1>4. QED
  BY <1>1, <1>2, <1>3

LEMMA ObserveType ==
  ASSUME fresh \in Nat, overlaps \in [writes : SUBSET Nat, reads : SUBSET Nat], fresh' \in Nat, UsersOK',
         Observe
  PROVE  /\ overlaps' \in [writes : SUBSET Nat, reads : SUBSET Nat]
         /\ overlaps.writes \subseteq overlaps'.writes /\ overlaps.reads \subseteq overlaps'.reads
<1> DEFINE W == overlaps.writes \cup {i \in DOMAIN users' : Cardinality(Writers(i)') > 1}
           R == overlaps.reads \cup {i \in 0 .. fresh : Cardinality(Readers(i)') > 1}
<1>1. W \in SUBSET Nat /\ R \in SUBSET Nat
  BY DEF UsersOK
<1>2. overlaps.writes \subseteq W /\ overlaps.reads \subseteq R
  OBVIOUS
<1>3. overlaps' = [writes |-> W, reads |-> R]
  BY DEF Observe
<1> HIDE DEF W, R
<1>4. QED
  BY <1>1, <1>2, <1>3

\* A step of the call of p: it is enough to look at what it changes.
LEMMA TypeStep ==
  ASSUME TypeOK, Counts, NEW p \in Proc, NEW c \in Call, Shape(c), call' = [call EXCEPT ![p] = c],
         IssuedNow(c.id),
         IssuedNow(c.uuid),
         IssuedNow(c.claims.sub),
         users' = users \/ UsersOK', dir' = dir \/ DirOK', tokens' = tokens \/ TokensOK',
         cache' = cache \/ CacheOK', past' = past \/ PastOK',
         content' = content \/ content' \subseteq 0 .. fresh' - 1,
         Observe
  PROVE  TypeOK'
<1>1. call' \in [Proc -> Call] /\ \A q \in Proc : CallOK(call[q])'
  BY CallStep
<1>2. fresh \in Nat /\ fresh' \in Nat /\ UsersOK'
  BY UsersKept DEF TypeOK, Counts
<1>3. DirOK' /\ TokensOK' /\ PastOK' /\ CacheOK' /\ content' \subseteq 0 .. fresh' - 1
  <2>1. DirOK /\ TokensOK /\ PastOK /\ CacheOK /\ content \subseteq 0 .. fresh - 1
    BY DEF TypeOK
  <2>2. DirOK' /\ TokensOK' /\ PastOK'
    BY <1>2, <2>1, DirKept, TokensKept, PastKept
  <2>3. CacheOK'
    BY <2>1 DEF CacheOK
  <2>4. content' \subseteq 0 .. fresh' - 1
    BY <1>2, <2>1, IdsKept
  <2>5. QED
    BY <2>2, <2>3, <2>4
<1>4. overlaps' \in [writes : SUBSET Nat, reads : SUBSET Nat]
  BY <1>2, ObserveType DEF TypeOK
<1>5. QED
  BY <1>1, <1>2, <1>3, <1>4 DEF TypeOK

\* What is known of a call and of its account.
LEMMA CallIs ==
  ASSUME TypeOK, NEW p \in Proc
  PROVE  /\ call[p] \in Call /\ Shape(call[p]) /\ fresh \in Nat
         /\ Issued(call[p].id) /\ Issued(call[p].uuid) /\ Issued(call[p].claims.sub)
         /\ call[p].rights \in Rights /\ call[p].seen \in Rights /\ call[p].claims \in Claim
BY DEF TypeOK, CallOK, Call

\* The call returns.
LEMMA ReturnType ==
  ASSUME TypeOK, Counts, NEW p \in Proc, Returns(p),
         users' = users \/ UsersOK', dir' = dir \/ DirOK', tokens' = tokens \/ TokensOK',
         cache' = cache \/ CacheOK', past' = past \/ PastOK',
         content' = content \/ content' \subseteq 0 .. fresh' - 1,
         Observe
  PROVE  TypeOK'
BY NoCallIs, TypeStep DEF Returns, Becomes, IssuedNow

\* The call goes on at another stage.
LEMMA GoesType ==
  ASSUME TypeOK, Counts, NEW p \in Proc, NEW at \in Stage, Goes(p, at), Shape([call[p] EXCEPT !.at = at]),
         users' = users \/ UsersOK', dir' = dir \/ DirOK', tokens' = tokens \/ TokensOK',
         cache' = cache \/ CacheOK', past' = past \/ PastOK',
         content' = content \/ content' \subseteq 0 .. fresh' - 1,
         Observe
  PROVE  TypeOK'
<1> DEFINE c == [call[p] EXCEPT !.at = at]
<1>1. /\ call[p] \in Call /\ fresh \in Nat
      /\ Issued(call[p].id) /\ Issued(call[p].uuid) /\ Issued(call[p].claims.sub)
  BY CallIs
<1>2. c \in Call /\ c.id = call[p].id /\ c.uuid = call[p].uuid /\ c.claims = call[p].claims
  BY <1>1, CallForms DEF Call
<1>3. call' = [call EXCEPT ![p] = c] /\ Shape(c)
  BY DEF Goes, Becomes
<1> HIDE DEF c
<1>4. /\ IssuedNow(c.id)
      /\ IssuedNow(c.uuid)
      /\ IssuedNow(c.claims.sub)
  BY <1>1, <1>2, IssuedKept
<1>5. QED
  BY <1>2, <1>3, <1>4, TypeStep

\* What happened is recorded, by the fields that change.
LEMMA PastForms ==
  ASSUME NEW h \in Past
  PROVE  /\ \A G \in SUBSET (Nat \X Rights) : [h EXCEPT !.given = G] \in Past
         /\ \A M \in Maps : [h EXCEPT !.granted = M] \in Past /\ [h EXCEPT !.read = M] \in Past
         /\ \A A \in SUBSET Nat : /\ [h EXCEPT !.acked = A] \in Past /\ [h EXCEPT !.doomed = A] \in Past
                                  /\ [h EXCEPT !.rolledBack = A] \in Past /\ [h EXCEPT !.late = A] \in Past
         /\ \A U \in SUBSET [id : Nat, uuid : MaybeId] : [h EXCEPT !.undone = U] \in Past
BY Zenon DEF Past

LEMMA PastIs ==
  ASSUME TypeOK
  PROVE  /\ past \in Past /\ PastOK
         /\ past.given \in SUBSET (Nat \X Rights) /\ past.granted \in Maps /\ past.read \in Maps
         /\ past.acked \in SUBSET Nat /\ past.undone \in SUBSET [id : Nat, uuid : MaybeId]
         /\ past.doomed \in SUBSET Nat /\ past.rolledBack \in SUBSET Nat /\ past.late \in SUBSET Nat
BY DEF TypeOK, PastOK, Past

LEMMA MapsAre ==
  ASSUME NEW f \in Maps
  PROVE  /\ f \in [DOMAIN f -> Rights] /\ DOMAIN f \subseteq Nat
         /\ \A k \in Nat, r \in Rights : With(f, k, r) \in Maps
         /\ \A k : Without(f, k) \in Maps
<1>1. PICK I \in SUBSET Nat : f \in [I -> Rights]
  BY DEF Maps
<1>2. f \in [DOMAIN f -> Rights] /\ DOMAIN f = I
  BY <1>1
<1>3. ASSUME NEW k \in Nat, NEW r \in Rights PROVE With(f, k, r) \in Maps
  <2>1. With(f, k, r) \in [I \cup {k} -> Rights] /\ I \cup {k} \in SUBSET Nat
    BY <1>2, WithIs
  <2>2. QED
    BY <2>1, Zenon DEF Maps
<1>4. ASSUME NEW k PROVE Without(f, k) \in Maps
  <2>1. Without(f, k) \in [I \ {k} -> Rights] /\ I \ {k} \in SUBSET Nat
    BY <1>2, WithoutIs
  <2>2. QED
    BY <2>1, Zenon DEF Maps
<1>5. QED
  BY <1>2, <1>3, <1>4

\* Records that leave the acknowledged and the undone registrations alone.
LEMMA PastStep ==
  ASSUME TypeOK, Counts, past' \in Past, past'.acked = past.acked, past'.undone = past.undone
  PROVE  PastOK'
<1>1. PastOK /\ fresh \in Nat
  BY DEF TypeOK
<1>2. past'.acked \subseteq 0 .. fresh' - 1
  BY <1>1, IdsKept DEF PastOK
<1>3. \A f \in past'.undone : f.id \in 0 .. fresh' - 1 /\ IssuedNow(f.uuid)
  BY <1>1, IdsKept, IssuedKept DEF PastOK
<1>4. QED
  BY <1>2, <1>3 DEF PastOK, Issued, IssuedNow

\* A row is added under the new identifier.
LEMMA RowAdded ==
  ASSUME TypeOK, NEW e \in Email \cup {None}, NEW b \in BOOLEAN, fresh' = fresh + 1,
         users' = With(users, fresh, [email |-> e, pending |-> b, uuid |-> None])
  PROVE  /\ UsersOK' /\ DOMAIN users' = DOMAIN users \cup {fresh} /\ users'[fresh].uuid = None
         /\ \A i \in DOMAIN users : users'[i] = users[i]
<1> DEFINE row == [email |-> e, pending |-> b, uuid |-> None]
<1>1. row \in Row /\ row.uuid = None
  BY DEF Row, MaybeId
<1>2. UsersOK /\ fresh \in Nat
  BY DEF TypeOK
<1>3. users' = With(users, fresh, row)
  OBVIOUS
<1> HIDE DEF row
<1>4. /\ users' \in [DOMAIN users \cup {fresh} -> Row] /\ DOMAIN users' = DOMAIN users \cup {fresh}
      /\ users'[fresh] = row /\ \A i \in DOMAIN users : i # fresh => users'[i] = users[i]
  BY <1>1, <1>2, <1>3 DEF UsersOK, With
<1>5. fresh \notin DOMAIN users /\ \A i \in DOMAIN users : i \in 0 .. fresh' - 1 /\ IssuedNow(users[i].uuid)
  <2>1. DOMAIN users \subseteq 0 .. fresh - 1 /\ \A i \in DOMAIN users : Issued(users[i].uuid)
    BY <1>2 DEF UsersOK
  <2>2. Counts /\ \A x \in 0 .. fresh - 1 : x \in 0 .. fresh' - 1
    BY <1>2, IdsKept DEF Counts
  <2>3. fresh \notin 0 .. fresh - 1
    BY <1>2
  <2>4. QED
    BY <1>2, <2>1, <2>2, <2>3, IssuedKept
<1>6. fresh \in 0 .. fresh' - 1
  BY <1>2
<1>7. UsersOK'
  BY <1>1, <1>4, <1>5, <1>6 DEF UsersOK, Issued, IssuedNow
<1>8. QED
  BY <1>1, <1>4, <1>5, <1>7

\* A row changes, and keeps its identifier.
LEMMA RowChanged ==
  ASSUME TypeOK, Counts, users' \in [DOMAIN users -> Row],
         \A i \in DOMAIN users : IssuedNow(users'[i].uuid)
  PROVE  UsersOK'
<1>1. UsersOK /\ fresh \in Nat
  BY DEF TypeOK
<1>2. DOMAIN users' = DOMAIN users /\ \A i \in DOMAIN users : i \in 0 .. fresh' - 1
  BY <1>1, IdsKept DEF UsersOK
<1>3. QED
  BY <1>2 DEF UsersOK, Issued, IssuedNow

LEMMA RowRemoved ==
  ASSUME TypeOK, Counts, NEW k, users' = Without(users, k)
  PROVE  /\ UsersOK' /\ DOMAIN users' = DOMAIN users \ {k}
         /\ \A i \in DOMAIN users' : users'[i] = users[i]
<1>1. UsersOK /\ fresh \in Nat
  BY DEF TypeOK
<1>2. /\ users' \in [DOMAIN users \ {k} -> Row] /\ DOMAIN users' = DOMAIN users \ {k}
      /\ \A i \in DOMAIN users' : users'[i] = users[i]
  BY <1>1 DEF UsersOK, Without
<1>3. \A i \in DOMAIN users' : i \in 0 .. fresh' - 1 /\ IssuedNow(users[i].uuid)
  <2>1. DOMAIN users \subseteq 0 .. fresh - 1 /\ \A i \in DOMAIN users : Issued(users[i].uuid)
    BY <1>1 DEF UsersOK
  <2>2. \A x \in 0 .. fresh - 1 : x \in 0 .. fresh' - 1
    BY <1>1, IdsKept
  <2>3. QED
    BY <1>1, <1>2, <2>1, <2>2, IssuedKept
<1>4. UsersOK'
  BY <1>2, <1>3 DEF UsersOK, Issued, IssuedNow
<1>5. QED
  BY <1>2, <1>4

\* An entry is written, under an identifier that is given out by now.
LEMMA EntryPut ==
  ASSUME TypeOK, Counts, NEW u \in 0 .. fresh' - 1, NEW r \in Rights, dir' = With(dir, u, r)
  PROVE  /\ DirOK' /\ DOMAIN dir' = DOMAIN dir \cup {u} /\ dir'[u] = r
         /\ \A v \in DOMAIN dir : v # u => dir'[v] = dir[v]
<1>1. DirOK /\ fresh \in Nat
  BY DEF TypeOK
<1>2. /\ dir' \in [DOMAIN dir \cup {u} -> Rights] /\ DOMAIN dir' = DOMAIN dir \cup {u} /\ dir'[u] = r
      /\ \A v \in DOMAIN dir : v # u => dir'[v] = dir[v]
  BY <1>1 DEF DirOK, With
<1>3. \A v \in DOMAIN dir : v \in 0 .. fresh' - 1
  <2>1. DOMAIN dir \subseteq 0 .. fresh - 1
    BY <1>1 DEF DirOK
  <2>2. \A x \in 0 .. fresh - 1 : x \in 0 .. fresh' - 1
    BY <1>1, IdsKept
  <2>3. QED
    BY <2>1, <2>2
<1>4. DirOK'
  BY <1>2, <1>3 DEF DirOK
<1>5. QED
  BY <1>2, <1>4

LEMMA EntryRemoved ==
  ASSUME TypeOK, Counts, NEW u, dir' = Without(dir, u)
  PROVE  /\ DirOK' /\ DOMAIN dir' = DOMAIN dir \ {u} /\ \A v \in DOMAIN dir' : dir'[v] = dir[v]
<1>1. DirOK /\ fresh \in Nat
  BY DEF TypeOK
<1>2. /\ dir' \in [DOMAIN dir \ {u} -> Rights] /\ DOMAIN dir' = DOMAIN dir \ {u}
      /\ \A v \in DOMAIN dir' : dir'[v] = dir[v]
  BY <1>1 DEF DirOK, Without
<1>3. \A v \in DOMAIN dir' : v \in 0 .. fresh' - 1
  <2>1. DOMAIN dir \subseteq 0 .. fresh - 1
    BY <1>1 DEF DirOK
  <2>2. \A x \in 0 .. fresh - 1 : x \in 0 .. fresh' - 1
    BY <1>1, IdsKept
  <2>3. QED
    BY <1>2, <2>1, <2>2
<1>4. DirOK'
  BY <1>2, <1>3 DEF DirOK
<1>5. QED
  BY <1>2, <1>4

\* Everything else stays as it is.
Same == UNCHANGED data /\ UNCHANGED past

LEMMA SameTypes ==
  ASSUME TypeOK, Same
  PROVE  /\ Counts /\ users' = users /\ dir' = dir /\ tokens' = tokens /\ cache' = cache
         /\ past' = past /\ content' = content
BY DEF Same, data, Counts

LEMMA RegisterType ==
  ASSUME TypeOK, NEW p \in Proc, NEW e \in Email, Register(p, e), Observe
  PROVE  TypeOK'
<1> DEFINE c == [NoCall EXCEPT !.op = "register", !.at = "grant", !.id = fresh,
                               !.rights = DefaultPermissions]
<1>1. /\ users' = With(users, fresh, [email |-> e, pending |-> TRUE, uuid |-> None])
      /\ fresh' = fresh + 1 /\ call' = [call EXCEPT ![p] = c]
      /\ UNCHANGED <<dir, content, tokens, cache, past>>
  BY DEF Register, Arrives
<1>2. UsersOK' /\ Counts /\ fresh \in Nat
  BY <1>1, RowAdded DEF Counts, TypeOK
<1>3. c \in Call
  BY <1>2, NewCallForms, RightsAre DEF Op, Stage, MaybeId
<1>4. /\ c.op = "register" /\ c.at = "grant" /\ c.id = fresh /\ c.uuid = None
      /\ c.claims.sub = None
  BY NoCallIs DEF Call
<1> HIDE DEF c
<1>5. Shape(c)
  BY <1>2, <1>4 DEF Shape, Writing, Deciding
<1>6. IssuedNow(c.id) /\ IssuedNow(c.uuid) /\ IssuedNow(c.claims.sub)
  BY <1>1, <1>2, <1>4 DEF IssuedNow
<1>7. QED
  BY <1>1, <1>2, <1>3, <1>5, <1>6, TypeStep

LEMMA RegisterFailsType ==
  ASSUME TypeOK, NEW p \in Proc, NEW e \in Email, RegisterFails(p, e), Observe
  PROVE  TypeOK'
<1>1. /\ users' = With(users, fresh, [email |-> e, pending |-> TRUE, uuid |-> None])
      /\ fresh' = fresh + 1 /\ call' = call /\ call[p] = NoCall
      /\ UNCHANGED <<dir, content, tokens, cache, past>>
  BY DEF RegisterFails
<1>2. UsersOK' /\ Counts
  BY <1>1, RowAdded DEF Counts, TypeOK
<1>3. Returns(p)
  BY <1>1 DEF Returns, Becomes, TypeOK
<1>4. QED
  BY <1>1, <1>2, <1>3, ReturnType

LEMMA ConfirmType ==
  ASSUME TypeOK, NEW p \in Proc, NEW i, Confirm(p, i), Observe
  PROVE  TypeOK'
<1>1. /\ i \in DOMAIN users /\ users' = [users EXCEPT ![i].pending = FALSE] /\ Returns(p)
      /\ UNCHANGED <<dir, content, fresh, tokens, cache, past>>
  BY DEF Confirm, Arrives, Returns, Becomes
<1>2. users \in [DOMAIN users -> Row] /\ Counts
  BY <1>1 DEF TypeOK, UsersOK, Counts
<1>3. [users[i] EXCEPT !.pending = FALSE] \in Row
  BY <1>1, <1>2, Zenon DEF Row
<1>4. users' \in [DOMAIN users -> Row] /\ \A j \in DOMAIN users : users'[j].uuid = users[j].uuid
  BY <1>1, <1>2, <1>3 DEF Row
<1>5. \A j \in DOMAIN users : IssuedNow(users'[j].uuid)
  BY <1>2, <1>4, IssuedKept DEF TypeOK, UsersOK
<1>6. UsersOK'
  BY <1>2, <1>4, <1>5, RowChanged
<1>7. QED
  BY <1>1, <1>2, <1>6, ReturnType

\* The sign-ins and requests that arrive.
LEMMA ArrivalType ==
  ASSUME TypeOK, NEW p \in Proc, Observe,
         \/ \E e \in Email : Login(p, e) \/ GoogleLogin(p, e)
         \/ \E t \in tokens : Request(p, t, "vote", None, NoRights)
         \/ \E t \in tokens, i \in DOMAIN users : Request(p, t, "delete", i, NoRights)
         \/ \E t \in tokens, i \in DOMAIN users, r \in Assigned : Request(p, t, "assign", i, r)
  PROVE  TypeOK'
<1>0. fresh \in Nat /\ UsersOK /\ TokensOK
  BY DEF TypeOK
<1>1. ASSUME NEW i \in DOMAIN users, NEW op \in {"login", "google"}, Same,
             call' = [call EXCEPT ![p] = SigningIn(op, i)]
      PROVE  TypeOK'
  <2> DEFINE c == SigningIn(op, i)
             u == users[i].uuid
  <2>1. i \in Nat /\ i \in 0 .. fresh - 1 /\ u \in MaybeId /\ Issued(u)
    BY <1>0 DEF UsersOK, Row
  <2>2. c = [NoCall EXCEPT !.op = op, !.at = "issue", !.id = i, !.uuid = u]
    BY DEF SigningIn
  <2> HIDE DEF c, u
  <2>3. c \in Call
    <3>1. op \in Op /\ "issue" \in Stage /\ i \in MaybeId /\ u \in MaybeId
      BY <2>1 DEF Op, Stage, MaybeId
    <3>2. QED
      BY <2>2, <3>1, NewCallForms, Zenon
  <2>4. c.op = op /\ c.at = "issue" /\ c.id = i /\ c.uuid = u /\ c.claims.sub = None
    BY <2>2, NoCallIs DEF Call
  <2>5. Shape(c)
    BY <2>1, <2>4 DEF Shape, Writing, Deciding
  <2>6. IssuedNow(c.id) /\ IssuedNow(c.uuid) /\ IssuedNow(c.claims.sub)
    BY <1>0, <1>1, <2>1, <2>4, SameTypes, IssuedKept, IdsKept DEF IssuedNow
  <2>7. call' = [call EXCEPT ![p] = c]
    BY <1>1 DEF c
  <2>8. QED
    BY <1>1, <2>3, <2>5, <2>6, <2>7, SameTypes, TypeStep
<1>2. ASSUME NEW e \in Email, Same,
             call' = [call EXCEPT ![p] =
               [NoCall EXCEPT !.op = "google", !.at = "insert", !.email = e,
                              !.rights = DefaultPermissions]]
      PROVE  TypeOK'
  <2> DEFINE c == [NoCall EXCEPT !.op = "google", !.at = "insert", !.email = e,
                                 !.rights = DefaultPermissions]
  <2>1. c \in Call
    BY NewCallForms, RightsAre DEF Op, Stage
  <2>2. c.op = "google" /\ c.at = "insert" /\ c.id = None /\ c.uuid = None /\ c.claims.sub = None
    BY NoCallIs DEF Call
  <2>3. call' = [call EXCEPT ![p] = c]
    BY <1>2
  <2> HIDE DEF c
  <2>4. Shape(c)
    BY <2>2 DEF Shape, Writing, Deciding
  <2>5. IssuedNow(c.id) /\ IssuedNow(c.uuid) /\ IssuedNow(c.claims.sub)
    BY <2>2 DEF IssuedNow
  <2>6. QED
    BY <1>2, <2>1, <2>3, <2>4, <2>5, SameTypes, TypeStep
<1>3. ASSUME NEW t \in tokens, NEW op \in {"vote", "delete", "assign"}, NEW i \in DOMAIN users \cup {None},
             NEW r \in Rights, Request(p, t, op, i, r)
      PROVE  TypeOK'
  <2> DEFINE c == [NoCall EXCEPT !.op = op, !.at = "row", !.claims = t, !.id = i, !.rights = r]
  <2>1. call' = [call EXCEPT ![p] = c] /\ Same
    BY <1>3 DEF Request, Arrives, Same
  <2>2. t \in Claim /\ t.sub \in 0 .. fresh - 1 /\ i \in MaybeId /\ Issued(i)
    BY <1>0 DEF TokensOK, UsersOK, MaybeId, Issued
  <2>3. c \in Call
    <3>1. op \in Op /\ "row" \in Stage
      BY DEF Op, Stage
    <3>2. QED
      BY <2>2, <3>1, NewCallForms, Zenon
  <2>4. c.op = op /\ c.at = "row" /\ c.id = i /\ c.uuid = None /\ c.claims = t
    BY NoCallIs DEF Call
  <2> HIDE DEF c
  <2>5. Shape(c)
    BY <1>0, <2>2, <2>4 DEF Shape, Writing, Deciding
  <2>6. IssuedNow(c.id) /\ IssuedNow(c.uuid) /\ IssuedNow(c.claims.sub)
    BY <1>0, <2>1, <2>2, <2>4, SameTypes, IssuedKept, IdsKept DEF IssuedNow
  <2>7. QED
    BY <2>1, <2>3, <2>5, <2>6, SameTypes, TypeStep
<1>4. NoRights \in Rights /\ Assigned \subseteq Rights
  BY RightsAre, AssignedAssumption
<1>5. CASE \E e \in Email : Login(p, e) \/ GoogleLogin(p, e)
  <2>1. PICK e \in Email : Login(p, e) \/ GoogleLogin(p, e)
    BY <1>5
  <2>2. Same
    BY <2>1 DEF Login, GoogleLogin, Same
  <2>3. \/ \E i \in DOMAIN users, op \in {"login", "google"} :
             call' = [call EXCEPT ![p] = SigningIn(op, i)]
        \/ call' = [call EXCEPT ![p] =
             [NoCall EXCEPT !.op = "google", !.at = "insert", !.email = e,
                            !.rights = DefaultPermissions]]
    BY <2>1 DEF Login, GoogleLogin, Arrives, RowsOf
  <2>4. QED
    BY <2>2, <2>3, <1>1, <1>2
<1>6. QED
  BY <1>3, <1>4, <1>5

\* The fields of a call that goes on.
LEMMA GoesFields ==
  ASSUME NEW c \in Call, NEW at \in Stage
  PROVE  LET d == [c EXCEPT !.at = at]
         IN  /\ d.at = at /\ d.op = c.op /\ d.id = c.id /\ d.uuid = c.uuid /\ d.claims = c.claims
             /\ d.rights = c.rights /\ d.seen = c.seen /\ d.gone = c.gone /\ d.clean = c.clean
BY DEF Call

LEMMA GrantType ==
  ASSUME TypeOK, NEW p \in Proc, Grant(p), Observe
  PROVE  TypeOK'
<1> DEFINE b == call[p]
           c == [b EXCEPT !.at = "link", !.uuid = fresh]
           given == past.given \cup {<<b.id, b.rights>>}
<1>0. /\ b \in Call /\ Shape(b) /\ fresh \in Nat /\ Issued(b.id) /\ Issued(b.claims.sub)
      /\ b.rights \in Rights
  BY CallIs
<1>1. /\ b.at = "grant" /\ dir' = With(dir, fresh, b.rights) /\ fresh' = fresh + 1
      /\ past' = [past EXCEPT !.given = given] /\ call' = [call EXCEPT ![p] = c]
      /\ UNCHANGED <<users, content, tokens, cache>>
  BY DEF Grant, At, Becomes
<1>2. Counts /\ fresh \in 0 .. fresh' - 1
  BY <1>0, <1>1 DEF Counts
<1>3. DirOK'
  BY <1>0, <1>1, <1>2, EntryPut
<1>4. b.id \in Nat /\ b.op \in {"register", "google", "assign"}
  BY <1>0, <1>1 DEF Shape, Writing
<1>5. given \in SUBSET (Nat \X Rights)
  BY <1>0, <1>4, PastIs
<1>6. c \in Call
  BY <1>0, CallForms DEF Stage, MaybeId
<1>7. c.at = "link" /\ c.op = b.op /\ c.id = b.id /\ c.uuid = fresh /\ c.claims = b.claims
  BY <1>0 DEF Call
<1> HIDE DEF c, given, b
<1>8. PastOK'
  <2>1. past \in Past
    BY PastIs
  <2>2. past' \in Past
    BY <1>1, <1>5, <2>1, PastForms
  <2>3. past'.acked = past.acked /\ past'.undone = past.undone
    BY <1>1, <2>1 DEF Past
  <2>4. QED
    BY <1>2, <2>2, <2>3, PastStep
<1>9. Shape(c)
  BY <1>0, <1>4, <1>7 DEF Shape, Writing, Deciding
<1>10. IssuedNow(c.id) /\ IssuedNow(c.uuid) /\ IssuedNow(c.claims.sub)
  BY <1>0, <1>2, <1>7, IssuedKept DEF IssuedNow
<1>11. QED
  BY <1>1, <1>2, <1>3, <1>6, <1>8, <1>9, <1>10, TypeStep

\* A call fails, and a registration goes on to take back what it did.
LEMMA FailsToType ==
  ASSUME TypeOK, Counts, NEW p \in Proc, NEW at \in {"undoRow", "undoEntry"}, FailsTo(p, at),
         call[p].at \in {"grant", "link"}, at = "undoEntry" => call[p].at = "link",
         users' = users \/ UsersOK', dir' = dir \/ DirOK',
         UNCHANGED <<tokens, cache, past, content>>, Observe
  PROVE  TypeOK'
<1>1. CASE Returns(p)
  BY <1>1, ReturnType
<1>2. CASE Goes(p, at) /\ call[p].op = "register"
  <2> DEFINE b == call[p]
             d == [b EXCEPT !.at = at]
  <2>1. b \in Call /\ Shape(b) /\ at \in Stage
    BY CallIs DEF Stage
  <2>2. d.at = at /\ d.op = "register" /\ d.id = b.id /\ d.uuid = b.uuid /\ d.claims = b.claims
    BY <1>2, <2>1 DEF Call
  <2>3. b.id \in Nat /\ (b.at = "link" => b.uuid \in Nat)
    BY <2>1 DEF Shape, Writing
  <2> HIDE DEF b, d
  <2>4. Shape(d)
    BY <2>2, <2>3 DEF Shape, Writing, Deciding, b
  <2>5. QED
    BY <1>2, <2>1, <2>4, GoesType DEF b, d
<1>3. QED
  BY <1>1, <1>2 DEF FailsTo

LEMMA GrantFailsType ==
  ASSUME TypeOK, NEW p \in Proc, GrantFails(p), Observe
  PROVE  TypeOK'
<1>0. call[p].rights \in Rights /\ fresh \in Nat
  BY CallIs
<1>1. /\ call[p].at = "grant" /\ dir' \in {dir, With(dir, fresh, call[p].rights)} /\ fresh' = fresh + 1
      /\ FailsTo(p, "undoRow") /\ UNCHANGED <<users, content, tokens, cache, past>>
  BY DEF GrantFails, At
<1>2. Counts /\ fresh \in 0 .. fresh' - 1
  BY <1>0, <1>1 DEF Counts
<1>3. dir' = dir \/ DirOK'
  BY <1>0, <1>1, <1>2, EntryPut
<1>4. QED
  BY <1>1, <1>2, <1>3, FailsToType

\* The row points at the entry the call has made.
LEMMA LinkedIs ==
  ASSUME TypeOK, Counts, NEW p \in Proc, call[p].at = "link", call[p].id \in DOMAIN users,
         users' = Linked(p)
  PROVE  /\ UsersOK' /\ DOMAIN users' = DOMAIN users /\ users'[call[p].id].uuid = call[p].uuid
         /\ \A i \in DOMAIN users : i # call[p].id => users'[i] = users[i]
<1> DEFINE k == call[p].id
           u == call[p].uuid
<1>1. users' = [users EXCEPT ![k].uuid = u] /\ k \in DOMAIN users
  BY DEF Linked
<1>2. u \in MaybeId /\ Issued(u) /\ fresh \in Nat
  BY CallIs DEF Call
<1> HIDE DEF k, u
<1>3. users \in [DOMAIN users -> Row] /\ \A i \in DOMAIN users : Issued(users[i].uuid)
  BY DEF TypeOK, UsersOK
<1>4. [users[k] EXCEPT !.uuid = u] \in Row
  <2>1. users[k] \in Row
    BY <1>1, <1>3
  <2>2. QED
    BY <1>2, <2>1, Zenon DEF Row
<1>5. /\ users' \in [DOMAIN users -> Row] /\ users'[k].uuid = u
      /\ \A i \in DOMAIN users : i # k => users'[i] = users[i]
  BY <1>1, <1>3, <1>4 DEF Row
<1>6. \A i \in DOMAIN users : IssuedNow(users'[i].uuid)
  BY <1>2, <1>3, <1>5, IssuedKept
<1>7. UsersOK'
  BY <1>5, <1>6, RowChanged
<1>8. QED
  BY <1>5, <1>7 DEF k, u

LEMMA LinkType ==
  ASSUME TypeOK, NEW p \in Proc, Link(p), Observe
  PROVE  TypeOK'
<1> DEFINE b == call[p]
<1>0. b \in Call /\ Shape(b) /\ fresh \in Nat /\ b.rights \in Rights
  BY CallIs
<1>1. /\ b.at = "link" /\ b.id \in DOMAIN users /\ users' = Linked(p)
      /\ UNCHANGED <<dir, content, fresh, tokens, cache>>
  BY DEF Link, At
<1>2. Counts
  BY <1>1 DEF Counts
<1>3. UsersOK'
  BY <1>1, <1>2, LinkedIs
<1>4. b.id \in Nat /\ b.uuid \in Nat
  BY <1>0, <1>1 DEF Shape, Writing
<1>5. CASE b.op = "assign" /\ Returns(p) /\ Acknowledge(p)
  <2> DEFINE g == With(past.granted, b.id, b.rights)
  <2>1. past' = [past EXCEPT !.granted = g]
    BY <1>5 DEF Acknowledge
  <2>2. past \in Past /\ g \in Maps
    BY <1>0, <1>4, PastIs, MapsAre
  <2> HIDE DEF g
  <2>3. past' \in Past
    BY <2>1, <2>2, PastForms
  <2>4. past'.acked = past.acked /\ past'.undone = past.undone
    BY <2>1, <2>2 DEF Past
  <2>5. PastOK'
    BY <1>2, <2>3, <2>4, PastStep
  <2>6. QED
    BY <1>1, <1>2, <1>3, <1>5, <2>5, ReturnType
<1>6. ASSUME NEW at \in {"mail", "issue"}, Goes(p, at), UNCHANGED past,
             at = "mail" => b.op = "register", at = "issue" => b.op = "google"
      PROVE  TypeOK'
  <2> DEFINE d == [b EXCEPT !.at = at]
  <2>1. at \in Stage
    BY DEF Stage
  <2>2. d.at = at /\ d.op = b.op /\ d.id = b.id /\ d.uuid = b.uuid /\ d.claims = b.claims
    BY <1>0 DEF Call
  <2> HIDE DEF d
  <2>3. Shape(d)
    BY <1>4, <1>6, <2>2 DEF Shape, Writing, Deciding
  <2>4. QED
    BY <1>1, <1>2, <1>3, <1>6, <2>1, <2>3, GoesType DEF d
<1>7. QED
  BY <1>5, <1>6 DEF Link

LEMMA LinkFailsType ==
  ASSUME TypeOK, NEW p \in Proc, LinkFails(p), Observe
  PROVE  TypeOK'
<1>1. /\ call[p].at = "link" /\ FailsTo(p, "undoEntry")
      /\ UNCHANGED <<dir, content, fresh, tokens, cache, past>>
      /\ users' = users \/ (call[p].id \in DOMAIN users /\ users' = Linked(p))
  BY DEF LinkFails, At
<1>2. Counts
  BY <1>1 DEF Counts
<1>3. users' = users \/ UsersOK'
  BY <1>1, <1>2, LinkedIs
<1>4. QED
  BY <1>1, <1>2, <1>3, FailsToType

LEMMA MailType ==
  ASSUME TypeOK, NEW p \in Proc, Mail(p) \/ MailFails(p), Observe
  PROVE  TypeOK'
<1> DEFINE b == call[p]
<1>0. b \in Call /\ Shape(b) /\ fresh \in Nat /\ Issued(b.id) /\ b.at = "mail"
  BY CallIs DEF Mail, MailFails, At
<1>1. UNCHANGED <<users, dir, content, fresh, tokens, cache>> /\ Counts
  BY DEF Mail, MailFails, Counts
<1>2. b.id \in Nat /\ b.uuid \in Nat /\ b.op = "register" /\ b.id \in 0 .. fresh - 1
  BY <1>0, NoneAssumption DEF Shape, Writing, Issued
<1>3. CASE Mail(p)
  <2> DEFINE a == past.acked \cup {b.id}
  <2>1. past' = [past EXCEPT !.acked = a] /\ Returns(p)
    BY <1>3 DEF Mail
  <2>2. past \in Past /\ PastOK /\ a \in SUBSET Nat /\ a \subseteq 0 .. fresh - 1
    BY <1>2, PastIs DEF PastOK
  <2> HIDE DEF a
  <2>3. past' \in Past
    BY <2>1, <2>2, PastForms
  <2>4. past'.acked = a /\ past'.undone = past.undone
    BY <2>1, <2>2 DEF Past
  <2>5. PastOK'
    BY <1>1, <2>2, <2>3, <2>4 DEF PastOK, Issued
  <2>6. QED
    BY <1>1, <2>1, <2>5, ReturnType
<1>4. CASE MailFails(p)
  <2> DEFINE d == [b EXCEPT !.at = "undoEntry"]
  <2>1. Goes(p, "undoEntry") /\ past' = past /\ "undoEntry" \in Stage
    BY <1>4 DEF MailFails, Stage
  <2>2. /\ d.at = "undoEntry" /\ d.op = b.op /\ d.id = b.id /\ d.uuid = b.uuid
        /\ d.claims = b.claims
    BY <1>0 DEF Call
  <2> HIDE DEF d
  <2>3. Shape(d)
    BY <1>2, <2>2 DEF Shape, Writing, Deciding
  <2>4. QED
    BY <1>1, <2>1, <2>3, GoesType DEF d
<1>5. QED
  BY <1>3, <1>4

LEMMA UndoEntryType ==
  ASSUME TypeOK, NEW p \in Proc, UndoEntry(p), Observe
  PROVE  TypeOK'
<1> DEFINE b == call[p]
           d == [b EXCEPT !.at = "undoRow"]
           e == [b EXCEPT !.at = "undoRow", !.clean = FALSE]
<1>0. /\ b \in Call /\ Shape(b) /\ fresh \in Nat /\ b.at = "undoEntry"
      /\ Issued(b.id) /\ Issued(b.uuid) /\ Issued(b.claims.sub) /\ "undoRow" \in Stage
  BY CallIs DEF UndoEntry, At, Stage
<1>1. UNCHANGED <<users, content, fresh, tokens, cache, past>> /\ Counts
  BY DEF UndoEntry, Counts
<1>2. b.id \in Nat /\ b.op = "register"
  BY <1>0 DEF Shape, Writing
<1>3. /\ d.at = "undoRow" /\ d.op = b.op /\ d.id = b.id /\ d.uuid = b.uuid /\ d.claims = b.claims
      /\ e.at = "undoRow" /\ e.op = b.op /\ e.id = b.id /\ e.uuid = b.uuid /\ e.claims = b.claims
  BY <1>0 DEF Call
<1>4. e \in Call
  BY <1>0, CallForms
<1>5. \/ dir' = Without(dir, b.uuid) /\ Goes(p, "undoRow")
      \/ dir' = dir /\ call' = [call EXCEPT ![p] = e]
  BY DEF UndoEntry, Becomes
<1> HIDE DEF d, e
<1>6. Shape(d) /\ Shape(e)
  BY <1>2, <1>3 DEF Shape, Writing, Deciding
<1>7. CASE dir' = Without(dir, b.uuid) /\ Goes(p, "undoRow")
  <2>1. DirOK'
    BY <1>1, <1>7, EntryRemoved
  <2>2. QED
    BY <1>0, <1>1, <1>6, <1>7, <2>1, GoesType DEF d
<1>8. CASE dir' = dir /\ call' = [call EXCEPT ![p] = e]
  <2>1. IssuedNow(e.id) /\ IssuedNow(e.uuid) /\ IssuedNow(e.claims.sub)
    BY <1>0, <1>1, <1>3, IssuedKept
  <2>2. QED
    BY <1>1, <1>4, <1>6, <1>8, <2>1, TypeStep
<1>9. QED
  BY <1>5, <1>7, <1>8

LEMMA UndoRowType ==
  ASSUME TypeOK, NEW p \in Proc, UndoRow(p), Observe
  PROVE  TypeOK'
<1> DEFINE b == call[p]
           f == [id |-> b.id, uuid |-> b.uuid]
           u == past.undone \cup {g \in {f} : b.clean}
           A == past.rolledBack \cup {b.id}
<1>0. /\ b \in Call /\ Shape(b) /\ fresh \in Nat /\ b.at = "undoRow" /\ Issued(b.id) /\ Issued(b.uuid)
  BY CallIs DEF UndoRow, At
<1>1. UNCHANGED <<dir, content, fresh, tokens, cache>> /\ Counts /\ Returns(p)
  BY DEF UndoRow, Counts
<1>2. b.id \in 0 .. fresh - 1 /\ b.id \in Nat /\ b.uuid \in MaybeId
  BY <1>0, NoneAssumption DEF Shape, Writing, Issued, Call
<1>3. f \in [id : Nat, uuid : MaybeId] /\ f.id = b.id /\ f.uuid = b.uuid
  BY <1>2
<1>4. users' = users \/ users' = Without(users, b.id)
  BY DEF UndoRow
<1>5. past' = past \/ past' = [past EXCEPT !.rolledBack = A, !.undone = u]
  BY DEF UndoRow
<1> HIDE DEF f
<1>6. past \in Past /\ PastOK /\ u \in SUBSET [id : Nat, uuid : MaybeId] /\ A \in SUBSET Nat
      /\ \A g \in u : g.id \in 0 .. fresh - 1 /\ Issued(g.uuid)
  BY <1>0, <1>2, <1>3, PastIs DEF PastOK
<1> HIDE DEF u, A
<1>7. CASE past' = [past EXCEPT !.rolledBack = A, !.undone = u]
  <2>1. past' \in Past
    BY <1>6, <1>7, Zenon DEF Past
  <2>2. past'.acked = past.acked /\ past'.undone = u
    BY <1>6, <1>7 DEF Past
  <2>3. PastOK'
    BY <1>1, <1>6, <2>1, <2>2 DEF PastOK, Issued
  <2>4. QED
    BY <1>1, <1>4, <2>3, RowRemoved, ReturnType
<1>8. CASE past' = past
  BY <1>1, <1>4, <1>8, RowRemoved, ReturnType
<1>9. QED
  BY <1>5, <1>7, <1>8

LEMMA CreateFromGoogleType ==
  ASSUME TypeOK, NEW p \in Proc, CreateFromGoogle(p), Observe
  PROVE  TypeOK'
<1> DEFINE b == call[p]
           c == [b EXCEPT !.at = "grant", !.id = fresh]
           d == [b EXCEPT !.at = "reread"]
<1>0. /\ b \in Call /\ Shape(b) /\ fresh \in Nat /\ b.at = "insert" /\ b.email \in Email \cup {None}
      /\ Issued(b.id) /\ Issued(b.claims.sub)
  BY CallIs DEF CreateFromGoogle, At, Call
<1>1. UNCHANGED <<dir, content, tokens, cache, past>>
  BY DEF CreateFromGoogle
<1>2. b.op = "google" /\ b.uuid = None
  BY <1>0 DEF Shape
<1>3. /\ c.at = "grant" /\ c.op = b.op /\ c.id = fresh /\ c.uuid = b.uuid /\ c.claims = b.claims
      /\ d.at = "reread" /\ d.op = b.op /\ d.id = b.id /\ d.uuid = b.uuid /\ d.claims = b.claims
  BY <1>0 DEF Call
<1>4. c \in Call /\ "reread" \in Stage
  BY <1>0, CallForms DEF Stage, MaybeId
<1>5. \/ /\ users' = With(users, fresh, [email |-> b.email, pending |-> FALSE, uuid |-> None])
         /\ fresh' = fresh + 1 /\ call' = [call EXCEPT ![p] = c]
      \/ Goes(p, "reread") /\ UNCHANGED <<users, fresh>>
  BY DEF CreateFromGoogle, Becomes
<1> HIDE DEF c, d
<1>6. Shape(c) /\ Shape(d)
  BY <1>0, <1>2, <1>3 DEF Shape, Writing, Deciding
<1>7. CASE /\ users' = With(users, fresh, [email |-> b.email, pending |-> FALSE, uuid |-> None])
           /\ fresh' = fresh + 1 /\ call' = [call EXCEPT ![p] = c]
  <2>1. Counts /\ fresh \in 0 .. fresh' - 1
    BY <1>0, <1>7 DEF Counts
  <2>2. UsersOK'
    BY <1>0, <1>7, RowAdded
  <2>3. IssuedNow(c.id) /\ IssuedNow(c.uuid) /\ IssuedNow(c.claims.sub)
    BY <1>0, <1>2, <1>3, <2>1, IssuedKept DEF IssuedNow
  <2>4. QED
    BY <1>1, <1>4, <1>6, <1>7, <2>1, <2>2, <2>3, TypeStep
<1>8. CASE Goes(p, "reread") /\ UNCHANGED <<users, fresh>>
  <2>1. Counts
    BY <1>8 DEF Counts
  <2>2. QED
    BY <1>1, <1>4, <1>6, <1>8, <2>1, GoesType DEF d
<1>9. QED
  BY <1>5, <1>7, <1>8

LEMMA InsertFailsType ==
  ASSUME TypeOK, NEW p \in Proc, InsertFails(p), Observe
  PROVE  TypeOK'
<1> DEFINE b == call[p]
<1>1. /\ users' = With(users, fresh, [email |-> b.email, pending |-> FALSE, uuid |-> None])
      /\ fresh' = fresh + 1 /\ Returns(p) /\ b.email \in Email \cup {None}
      /\ UNCHANGED <<dir, content, tokens, cache, past>>
  BY CallIs DEF InsertFails, Call
<1> HIDE DEF b
<1>2. UsersOK' /\ Counts
  BY <1>1, RowAdded DEF Counts, TypeOK
<1>3. QED
  BY <1>1, <1>2, ReturnType

LEMMA IssueTokenType ==
  ASSUME TypeOK, NEW p \in Proc, IssueToken(p), Observe
  PROVE  TypeOK'
<1> DEFINE b == call[p]
           r == IF b.uuid \in DOMAIN dir THEN dir[b.uuid] ELSE NoRights
<1>0. /\ b \in Call /\ Shape(b) /\ fresh \in Nat /\ b.at = "issue" /\ Issued(b.id) /\ DirOK /\ TokensOK
  BY CallIs DEF IssueToken, At, TypeOK
<1>1. /\ UNCHANGED <<users, dir, content, fresh, cache, past>> /\ Counts /\ Returns(p)
      /\ tokens' = tokens \cup {Claims(b.id, r)}
  BY DEF IssueToken, Counts
<1>2. b.id \in MaybeId /\ b.id \in 0 .. fresh - 1
  BY <1>0, NoneAssumption DEF Shape, Issued, Call
<1>3. r \in Rights
  BY <1>0, RightsAre DEF DirOK
<1> HIDE DEF r, b
<1>4. Claims(b.id, r) \in Claim /\ Claims(b.id, r).sub = b.id
  BY <1>2, <1>3, ClaimsAre
<1>5. TokensOK'
  BY <1>0, <1>1, <1>2, <1>4 DEF TokensOK
<1>6. QED
  BY <1>1, <1>5, ReturnType

\* The cache without one of its entries.
LEMMA DropIs ==
  ASSUME NEW S, NEW c \in Seq(S), NEW k \in DOMAIN c
  PROVE  /\ Drop(c, k) \in Seq(S) /\ Len(Drop(c, k)) = Len(c) - 1
         /\ \A j \in 1 .. Len(c) - 1 : Drop(c, k)[j] = IF j < k THEN c[j] ELSE c[j + 1]
<1>1. DOMAIN c = 1 .. Len(c) /\ Len(c) \in Nat /\ Len(c) >= 1
  OBVIOUS
<1>2. \A j \in 1 .. Len(c) - 1 : j \in 1 .. Len(c) /\ j + 1 \in 1 .. Len(c)
  BY <1>1
<1>3. \A j \in 1 .. Len(c) - 1 : (IF j < k THEN c[j] ELSE c[j + 1]) \in S
  BY <1>2
<1> DEFINE n == Len(c) - 1
           d == [j \in 1 .. n |-> IF j < k THEN c[j] ELSE c[j + 1]]
<1>4. n \in Nat /\ \A j \in 1 .. n : d[j] \in S
  BY <1>1, <1>3
<1>5. d \in Seq(S) /\ Len(d) = n
  <2>1. DOMAIN d = 1 .. n /\ d \in [1 .. n -> S]
    BY <1>4
  <2> HIDE DEF d, n
  <2>2. QED
    BY <1>4, <2>1
<1>6. Drop(c, k) = d
  BY DEF Drop
<1>7. QED
  BY <1>5, <1>6

\* The entries of the cache after a reading of account i, and that it has one for i.
LEMMA RememberedIs ==
  ASSUME CacheOK, NEW i \in Nat, NEW r \in Rights
  PROVE  LET new == Remembered(i, r)
             n == Len(new)
         IN  /\ new \in Seq(Kept) /\ n \in Nat \ {0} /\ new[n] = [id |-> i, rights |-> r]
             /\ \A j \in 1 .. n - 1 : new[j].id # i /\ \E k \in DOMAIN cache : new[j] = cache[k]
             /\ \A j, l \in 1 .. n : new[j].id = new[l].id => j = l
             /\ n <= MaxCached
<1> DEFINE Good(c) == /\ c \in Seq(Kept)
                      /\ \A j \in 1 .. Len(c) : \E k \in DOMAIN cache : c[j] = cache[k]
                      /\ \A j, l \in 1 .. Len(c) : c[j].id = c[l].id => j = l
           e == EvictOldest(i)
           o == Others(e, i)
<1>1. /\ Good(cache) /\ Len(cache) \in Nat /\ DOMAIN cache = 1 .. Len(cache)
      /\ Len(cache) <= MaxCached /\ MaxCached \in Nat
  BY MaxCachedAssumption DEF CacheOK, Kept
<1>2. ASSUME NEW c, Good(c), NEW k \in DOMAIN c PROVE Good(Drop(c, k)) /\ Len(Drop(c, k)) = Len(c) - 1
  <2> DEFINE d == Drop(c, k)
  <2>1. /\ d \in Seq(Kept) /\ Len(d) = Len(c) - 1 /\ Len(c) \in Nat
        /\ \A j \in 1 .. Len(c) - 1 : d[j] = IF j < k THEN c[j] ELSE c[j + 1]
    <3>1. c \in Seq(Kept) /\ Len(c) \in Nat
      BY <1>2
    <3>2. QED
      BY <1>2, <3>1, DropIs
  <2> HIDE DEF d
  <2>2. k \in 1 .. Len(c)
    BY <1>2
  <2> DEFINE s(j) == IF j < k THEN j ELSE j + 1
  <2>3. \A j \in 1 .. Len(d) : s(j) \in 1 .. Len(c) /\ d[j] = c[s(j)]
    BY <2>1, <2>2
  <2>4. \A j, l \in 1 .. Len(d) : s(j) = s(l) => j = l
    BY <2>1, <2>2
  <2>5. Good(d)
    <3> HIDE DEF s
    <3>1. \A j \in 1 .. Len(d) : \E m \in DOMAIN cache : d[j] = cache[m]
      BY <1>2, <2>3
    <3>2. \A j, l \in 1 .. Len(d) : d[j].id = d[l].id => j = l
      BY <1>2, <2>3, <2>4
    <3>3. QED
      BY <2>1, <3>1, <3>2
  <2>6. QED
    BY <2>1, <2>5 DEF d
<1>3. /\ Good(e) /\ Len(e) \in Nat /\ Len(e) <= MaxCached
      /\ Len(e) < MaxCached \/ (e = cache /\ Cached(i) # {})
  <2>1. CASE Len(cache) >= MaxCached /\ Cached(i) = {}
    <3>1. e = Drop(cache, 1)
      BY <2>1 DEF EvictOldest
    <3>2. 1 \in DOMAIN cache
      BY <1>1, <2>1, MaxCachedAssumption
    <3> HIDE DEF Good, e
    <3>3. Good(e) /\ Len(e) = Len(cache) - 1
      BY <1>1, <1>2, <3>1, <3>2
    <3>4. QED
      BY <1>1, <2>1, <3>3
  <2>2. CASE ~(Len(cache) >= MaxCached /\ Cached(i) = {})
    <3>1. e = cache
      BY <2>2 DEF EvictOldest
    <3> HIDE DEF Good, e
    <3>2. QED
      BY <1>1, <2>2, <3>1
  <2> HIDE DEF Good, e
  <2>3. QED
    BY <2>1, <2>2
<1>4. /\ Good(o) /\ Len(o) \in Nat /\ \A j \in 1 .. Len(o) : o[j].id # i
      /\ Len(o) < MaxCached
  <2> DEFINE at == {k \in DOMAIN e : e[k].id = i}
             w == CHOOSE k \in at : TRUE
  <2>0. Len(e) \in Nat /\ DOMAIN e = 1 .. Len(e) /\ MaxCached \in Nat
    BY <1>3, MaxCachedAssumption
  <2>1. CASE at = {}
    <3>1. o = e
      BY <2>1 DEF Others
    <3>2. \A j \in 1 .. Len(e) : e[j].id # i
      BY <2>0, <2>1
    <3>3. e = cache => Cached(i) = {}
      BY <2>1 DEF Cached
    <3> HIDE DEF Good, e, o, at
    <3>4. Len(e) < MaxCached
      BY <1>3, <3>3
    <3>5. QED
      BY <1>3, <2>0, <3>1, <3>2, <3>4
  <2>2. CASE at # {}
    <3>1. w \in DOMAIN e /\ e[w].id = i
      BY <2>2
    <3>2. o = Drop(e, w)
      BY <2>2 DEF Others
    <3>3. \A k \in 1 .. Len(e) : k # w => e[k].id # i
      BY <1>3, <2>0, <3>1
    <3>4. \A j \in 1 .. Len(e) - 1 : o[j] = IF j < w THEN e[j] ELSE e[j + 1]
      <4> HIDE DEF e, o, w
      <4>1. e \in Seq(Kept)
        BY <1>3
      <4>2. QED
        BY <3>1, <3>2, <4>1, DropIs
    <3>5. Good(o) /\ Len(o) = Len(e) - 1
      <4> HIDE DEF e, o, w, Good
      <4>1. QED
        BY <1>2, <1>3, <3>1, <3>2
    <3>6. w \in 1 .. Len(e)
      BY <2>0, <3>1
    <3> HIDE DEF e, o, w, Good, at
    <3>7. \A j \in 1 .. Len(o) : o[j].id # i
      <4>1. ASSUME NEW j \in 1 .. Len(o) PROVE o[j].id # i
        <5>1. CASE j < w
          <6>1. j \in 1 .. Len(e) /\ j # w /\ o[j] = e[j]
            BY <2>0, <3>4, <3>5, <3>6, <5>1
          <6>2. QED
            BY <3>3, <6>1
        <5>2. CASE ~(j < w)
          <6>1. j + 1 \in 1 .. Len(e) /\ j + 1 # w /\ o[j] = e[j + 1]
            BY <2>0, <3>4, <3>5, <3>6, <5>2
          <6>2. QED
            BY <3>3, <6>1
        <5>3. QED
          BY <5>1, <5>2
      <4>2. QED
        BY <4>1
    <3>8. QED
      BY <1>3, <2>0, <3>5, <3>6, <3>7
  <2>3. QED
    BY <2>1, <2>2
<1> DEFINE x == [id |-> i, rights |-> r]
           new == Remembered(i, r)
<1>5. x \in Kept /\ x.id = i
  BY DEF Kept
<1>6. new = Append(o, x)
  BY DEF Remembered
<1> HIDE DEF e, x
<1>7. /\ new \in Seq(Kept) /\ Len(new) = Len(o) + 1 /\ new[Len(o) + 1] = x
      /\ \A j \in 1 .. Len(o) : new[j] = o[j]
  <2> HIDE DEF o, new
  <2>1. QED
    BY <1>4, <1>5, <1>6
<1> HIDE DEF o, new
<1>8. \A j \in 1 .. Len(o) : new[j].id # i /\ \E k \in DOMAIN cache : new[j] = cache[k]
  BY <1>4, <1>7
<1>9. \A j, l \in 1 .. Len(o) + 1 : new[j].id = new[l].id => j = l
  <2>1. ASSUME NEW j \in 1 .. Len(o) + 1, NEW l \in 1 .. Len(o) + 1, new[j].id = new[l].id
        PROVE  j = l
    <3>1. CASE j \in 1 .. Len(o) /\ l \in 1 .. Len(o)
      BY <1>4, <1>7, <2>1, <3>1
    <3>2. CASE j = Len(o) + 1
      <4>1. new[j].id = i
        BY <1>5, <1>7, <3>2
      <4>2. l \notin 1 .. Len(o)
        BY <1>8, <2>1, <4>1
      <4>3. QED
        BY <1>4, <3>2, <4>2
    <3>3. CASE l = Len(o) + 1
      <4>1. new[l].id = i
        BY <1>5, <1>7, <3>3
      <4>2. j \notin 1 .. Len(o)
        BY <1>8, <2>1, <4>1
      <4>3. QED
        BY <1>4, <3>3, <4>2
    <3>4. QED
      BY <1>4, <3>1, <3>2, <3>3
  <2>2. QED
    BY <2>1
<1>10. Len(new) <= MaxCached
  BY <1>4, <1>7, MaxCachedAssumption
<1>11. Len(new) \in Nat \ {0} /\ Len(new) - 1 = Len(o) /\ new[Len(new)] = x
  BY <1>4, <1>7
<1>12. QED
  BY <1>7, <1>8, <1>9, <1>10, <1>11 DEF x, new

\* The call goes on as c, which is known to be well formed.
LEMMA BecomesType ==
  ASSUME TypeOK, Counts, NEW p \in Proc, NEW c \in Call, Becomes(p, c), Shape(c),
         Issued(c.id), Issued(c.uuid), Issued(c.claims.sub),
         users' = users, dir' = dir \/ DirOK', tokens' = tokens, cache' = cache \/ CacheOK',
         past' = past \/ PastOK', content' = content, Observe
  PROVE  TypeOK'
<1>1. fresh \in Nat
  BY DEF TypeOK
<1>2. IssuedNow(c.id) /\ IssuedNow(c.uuid) /\ IssuedNow(c.claims.sub)
  BY <1>1, IssuedKept
<1>3. QED
  BY <1>2, TypeStep DEF Becomes

LEMMA RereadType ==
  ASSUME TypeOK, NEW p \in Proc, Reread(p), Observe
  PROVE  TypeOK'
<1> DEFINE b == call[p]
<1>0. /\ b \in Call /\ Shape(b) /\ fresh \in Nat /\ b.at = "reread" /\ Issued(b.claims.sub)
      /\ UsersOK
  BY CallIs DEF Reread, At, TypeOK
<1>1. Same /\ Counts
  BY SameTypes DEF Reread, Same
<1>2. b.op = "google" /\ b.uuid = None
  BY <1>0 DEF Shape
<1>3. CASE Returns(p)
  BY <1>1, <1>3, SameTypes, ReturnType
<1>4. ASSUME NEW i \in DOMAIN users,
             \/ Becomes(p, SigningIn("google", i))
             \/ Becomes(p, [b EXCEPT !.at = "grant", !.id = i])
      PROVE  TypeOK'
  <2> DEFINE u == users[i].uuid
             c == [NoCall EXCEPT !.op = "google", !.at = "issue", !.id = i, !.uuid = u]
             d == [b EXCEPT !.at = "grant", !.id = i]
  <2>1. i \in Nat /\ Issued(i) /\ u \in MaybeId /\ Issued(u)
    BY <1>0 DEF UsersOK, Row, Issued
  <2>2. SigningIn("google", i) = c
    BY DEF SigningIn
  <2>3. c \in Call
    <3> HIDE DEF u
    <3>1. "google" \in Op /\ "issue" \in Stage /\ i \in MaybeId
      BY <2>1 DEF Op, Stage, MaybeId
    <3>2. QED
      BY <2>1, <3>1, NewCallForms, Zenon
  <2>4. d \in Call
    BY <1>0, <2>1, CallForms DEF Stage, MaybeId
  <2>5. c.op = "google" /\ c.at = "issue" /\ c.id = i /\ c.uuid = u /\ c.claims.sub = None
    BY NoCallIs DEF Call
  <2>6. d.op = b.op /\ d.at = "grant" /\ d.id = i /\ d.uuid = b.uuid /\ d.claims = b.claims
    BY <1>0 DEF Call
  <2>7. Becomes(p, c) \/ Becomes(p, d)
    BY <1>4, <2>2
  <2> HIDE DEF c, d, u
  <2>8. Shape(c) /\ Shape(d)
    BY <1>2, <2>1, <2>5, <2>6 DEF Shape, Writing, Deciding
  <2>9. Issued(c.claims.sub) /\ Issued(d.uuid)
    BY <1>2, <2>5, <2>6 DEF Issued
  <2>10. QED
    BY <1>0, <1>1, <2>1, <2>3, <2>4, <2>5, <2>6, <2>7, <2>8, <2>9, SameTypes, BecomesType
<1>5. \/ Returns(p)
      \/ \E i \in DOMAIN users : \/ Becomes(p, SigningIn("google", i))
                                 \/ Becomes(p, [b EXCEPT !.at = "grant", !.id = i])
  BY DEF Reread, RowsOf
<1>6. QED
  BY <1>3, <1>4, <1>5

LEMMA ReadRowType ==
  ASSUME TypeOK, NEW p \in Proc, ReadRow(p), Observe
  PROVE  TypeOK'
<1> DEFINE b == call[p]
           u == users[Caller(p)].uuid
           c == [b EXCEPT !.at = "entry", !.uuid = u]
           d == [b EXCEPT !.at = "recall"]
<1>0. /\ b \in Call /\ Shape(b) /\ fresh \in Nat /\ b.at = "row" /\ UsersOK
      /\ Issued(b.id) /\ Issued(b.uuid) /\ Issued(b.claims.sub)
  BY CallIs DEF ReadRow, At, TypeOK
<1>1. Same /\ Counts
  BY SameTypes DEF ReadRow, Same
<1>2. b.claims.sub \in Nat /\ b.op \in {"vote", "assign", "delete"}
  BY <1>0 DEF Shape, Deciding
<1>3. d.op = b.op /\ d.at = "recall" /\ d.id = b.id /\ d.uuid = b.uuid /\ d.claims = b.claims
  BY <1>0 DEF Call
<1>4. \/ u \in MaybeId /\ u # None /\ Issued(u) /\ Becomes(p, c)
      \/ Goes(p, "recall")
  <2>1. \/ Caller(p) \in DOMAIN users /\ u # None /\ Becomes(p, c)
        \/ Goes(p, "recall")
    BY DEF ReadRow
  <2>2. \A i \in DOMAIN users : users[i].uuid \in MaybeId /\ Issued(users[i].uuid)
    BY <1>0 DEF UsersOK, Row
  <2>3. QED
    BY <2>1, <2>2
<1> HIDE DEF u, d
<1>5. CASE Goes(p, "recall")
  <2>1. Shape(d) /\ "recall" \in Stage
    BY <1>2, <1>3 DEF Shape, Writing, Deciding, Stage
  <2>2. QED
    BY <1>1, <1>5, <2>1, SameTypes, GoesType DEF d
<1>6. CASE u \in MaybeId /\ u # None /\ Issued(u) /\ Becomes(p, c)
  <2>1. u \in MaybeId /\ u \in Nat /\ Issued(u)
    BY <1>6 DEF MaybeId
  <2>2. c \in Call
    <3>1. "entry" \in Stage
      BY DEF Stage
    <3>2. QED
      BY <1>0, <2>1, <3>1, CallForms, Zenon
  <2>3. c.op = b.op /\ c.at = "entry" /\ c.id = b.id /\ c.uuid = u /\ c.claims = b.claims
    BY <1>0 DEF Call
  <2> HIDE DEF c
  <2>4. Shape(c)
    BY <1>2, <2>1, <2>3 DEF Shape, Writing, Deciding
  <2>5. QED
    BY <1>0, <1>1, <1>6, <2>1, <2>2, <2>3, <2>4, SameTypes, BecomesType
<1>7. QED
  BY <1>4, <1>5, <1>6

LEMMA ReadEntryType ==
  ASSUME TypeOK, NEW p \in Proc, ReadEntry(p), Observe
  PROVE  TypeOK'
<1> DEFINE b == call[p]
           r == dir[b.uuid]
           c == [b EXCEPT !.at = "remember", !.seen = r]
           d == [b EXCEPT !.at = "recall"]
           m == With(past.read, Caller(p), r)
<1>0. /\ b \in Call /\ Shape(b) /\ fresh \in Nat /\ b.at = "entry" /\ DirOK
      /\ Issued(b.id) /\ Issued(b.uuid) /\ Issued(b.claims.sub)
  BY CallIs DEF ReadEntry, At, TypeOK
<1>1. UNCHANGED data /\ Counts /\ UNCHANGED <<users, dir, tokens, cache, content>>
  BY DEF ReadEntry, data, Counts
<1>2. b.claims.sub \in Nat /\ b.op \in {"vote", "assign", "delete"} /\ Caller(p) = b.claims.sub
  BY <1>0 DEF Shape, Deciding, Caller
<1>3. d.op = b.op /\ d.at = "recall" /\ d.id = b.id /\ d.uuid = b.uuid /\ d.claims = b.claims
  BY <1>0 DEF Call
<1>4. \/ b.uuid \in DOMAIN dir /\ Becomes(p, c) /\ past' = [past EXCEPT !.read = m]
      \/ Goes(p, "recall") /\ past' = past
  BY DEF ReadEntry
<1> HIDE DEF d
<1>5. CASE Goes(p, "recall") /\ past' = past
  <2>1. Shape(d) /\ "recall" \in Stage
    BY <1>2, <1>3 DEF Shape, Writing, Deciding, Stage
  <2>2. QED
    BY <1>1, <1>5, <2>1, GoesType DEF d
<1>6. CASE b.uuid \in DOMAIN dir /\ Becomes(p, c) /\ past' = [past EXCEPT !.read = m]
  <2>1. r \in Rights
    BY <1>0, <1>6 DEF DirOK
  <2>2. past \in Past /\ m \in Maps
    BY <1>2, <2>1, PastIs, MapsAre
  <2> HIDE DEF m, r
  <2>3. c \in Call
    <3>1. "remember" \in Stage
      BY DEF Stage
    <3>2. QED
      BY <1>0, <2>1, <3>1, CallForms, Zenon
  <2>4. c.op = b.op /\ c.at = "remember" /\ c.id = b.id /\ c.uuid = b.uuid /\ c.claims = b.claims
    BY <1>0 DEF Call
  <2>5. past' \in Past /\ past'.acked = past.acked /\ past'.undone = past.undone
    <3>1. past' \in Past
      BY <1>6, <2>2, PastForms
    <3>2. QED
      BY <1>6, <2>2, <3>1 DEF Past
  <2>6. PastOK'
    BY <1>1, <2>5, PastStep
  <2> HIDE DEF c
  <2>7. Shape(c)
    BY <1>2, <2>1, <2>4 DEF Shape, Writing, Deciding
  <2>8. QED
    BY <1>0, <1>1, <1>6, <2>3, <2>4, <2>6, <2>7, BecomesType
<1>7. QED
  BY <1>4, <1>5, <1>6

LEMMA EntryIs ==
  ASSUME CacheOK, NEW k \in DOMAIN cache
  PROVE  cache[k] \in Kept /\ cache[k].id \in Nat /\ cache[k].rights \in Rights
<1>1. cache[k] \in Kept
  BY DEF CacheOK
<1>2. QED
  BY <1>1 DEF Kept

LEMMA RememberType ==
  ASSUME TypeOK, NEW p \in Proc, Remember(p), Observe
  PROVE  TypeOK'
<1> DEFINE b == call[p]
           i == b.claims.sub
           t == Claims(i, b.seen)
           c == [b EXCEPT !.at = "handle", !.claims = t]
<1>0. /\ b \in Call /\ Shape(b) /\ b.at = "remember" /\ CacheOK /\ b.seen \in Rights
      /\ Issued(b.id) /\ Issued(b.uuid) /\ Issued(i)
  BY CallIs DEF Remember, At, TypeOK
<1>1. /\ UNCHANGED <<users, dir, tokens, content, past>> /\ Counts
      /\ Becomes(p, c) /\ cache' = Remembered(i, b.seen)
  BY DEF Remember, Counts, Caller
<1>2. i \in Nat /\ i \in MaybeId /\ b.op \in {"vote", "assign", "delete"}
  BY <1>0 DEF Shape, Deciding, MaybeId
<1>3. CacheOK'
  <2> HIDE DEF i, b
  <2>1. LET n == Len(cache')
        IN  /\ cache' \in Seq(Kept) /\ n \in Nat /\ n <= MaxCached
            /\ \A j, l \in 1 .. n : cache'[j].id = cache'[l].id => j = l
    <3>1. CacheOK /\ b.seen \in Rights
      BY <1>0 DEF TypeOK
    <3> DEFINE r == b.seen
    <3> HIDE DEF r
    <3>2. CacheOK /\ r \in Rights /\ i \in Nat /\ cache' = Remembered(i, r)
      BY <1>1, <1>2, <3>1 DEF r
    <3> DEFINE new == Remembered(i, r)
    <3>3. /\ new \in Seq(Kept) /\ Len(new) \in Nat \ {0} /\ Len(new) <= MaxCached
          /\ \A j, l \in 1 .. Len(new) : new[j].id = new[l].id => j = l
      BY <3>2, RememberedIs, Zenon
    <3>4. cache' = new /\ Len(new) \in Nat
      BY <3>2, <3>3
    <3>5. QED
      BY <3>3, <3>4, Zenon
  <2>2. QED
    BY <2>1 DEF CacheOK
<1> HIDE DEF i
<1>4. t \in Claim /\ t.sub = i
  BY <1>0, <1>2, ClaimsAre
<1> HIDE DEF t
<1>5. c \in Call
  <2>1. "handle" \in Stage
    BY DEF Stage
  <2>2. QED
    BY <1>0, <1>4, <2>1, CallForms, Zenon
<1>6. c.op = b.op /\ c.at = "handle" /\ c.id = b.id /\ c.uuid = b.uuid /\ c.claims = t
  BY <1>0 DEF Call
<1> HIDE DEF c
<1>7. Shape(c)
  BY <1>2, <1>4, <1>6 DEF Shape, Writing, Deciding
<1>8. QED
  BY <1>0, <1>1, <1>3, <1>4, <1>5, <1>6, <1>7, BecomesType

LEMMA RecallType ==
  ASSUME TypeOK, NEW p \in Proc, Recall(p), Observe
  PROVE  TypeOK'
<1> DEFINE b == call[p]
           i == b.claims.sub
<1>0. /\ b \in Call /\ Shape(b) /\ b.at = "recall" /\ CacheOK /\ b.claims \in Claim
      /\ Issued(b.id) /\ Issued(b.uuid) /\ Issued(i)
  BY CallIs DEF Recall, At, TypeOK
<1>1. Same /\ Counts
  BY SameTypes DEF Recall, Same
<1>2. i \in Nat /\ i \in MaybeId /\ b.op \in {"vote", "assign", "delete"}
  BY <1>0 DEF Shape, Deciding, MaybeId
<1>3. PICK r \in Rights : Becomes(p, [b EXCEPT !.at = "handle", !.claims = Claims(i, r)])
  <2>1. \A k \in DOMAIN cache : cache[k].rights \in Rights
    BY <1>0, EntryIs
  <2>2. RightsOf(b.claims) \in Rights
    BY <1>0, RightsOfType
  <2>3. \/ \E k \in DOMAIN cache :
             Becomes(p, [b EXCEPT !.at = "handle", !.claims = Claims(i, cache[k].rights)])
        \/ Becomes(p, [b EXCEPT !.at = "handle", !.claims = Claims(i, RightsOf(b.claims))])
    BY DEF Recall, Caller, Cached
  <2>4. QED
    BY <2>1, <2>2, <2>3
<1> DEFINE t == Claims(i, r)
           c == [b EXCEPT !.at = "handle", !.claims = t]
<1> HIDE DEF i
<1>4. t \in Claim /\ t.sub = i
  BY <1>2, ClaimsAre
<1>5. Becomes(p, c)
  BY <1>3
<1> HIDE DEF t
<1>6. c \in Call
  <2>1. "handle" \in Stage
    BY DEF Stage
  <2>2. QED
    BY <1>0, <1>4, <2>1, CallForms, Zenon
<1>7. c.op = b.op /\ c.at = "handle" /\ c.id = b.id /\ c.uuid = b.uuid /\ c.claims = t
  BY <1>0 DEF Call
<1> HIDE DEF c
<1>8. Shape(c)
  BY <1>2, <1>4, <1>7 DEF Shape, Writing, Deciding
<1>9. QED
  BY <1>0, <1>1, <1>4, <1>5, <1>6, <1>7, <1>8, SameTypes, BecomesType

\* A record of one field changes that no type looks at.
LEMMA Recorded ==
  ASSUME TypeOK, Counts,
         \/ past' = past
         \/ \E G \in SUBSET (Nat \X Rights) : past' = [past EXCEPT !.given = G]
         \/ \E M \in Maps : past' = [past EXCEPT !.granted = M]
         \/ \E G \in SUBSET (Nat \X Rights), M \in Maps : past' = [past EXCEPT !.given = G, !.granted = M]
         \/ \E A \in SUBSET Nat : past' = [past EXCEPT !.doomed = A] \/ past' = [past EXCEPT !.late = A]
  PROVE  PastOK'
<1>0. past \in Past
  BY PastIs
<1>1. past' \in Past
  <2>1. \A G \in SUBSET (Nat \X Rights), M \in Maps : [past EXCEPT !.given = G, !.granted = M] \in Past
    BY <1>0, Zenon DEF Past
  <2>2. /\ \A G \in SUBSET (Nat \X Rights) : [past EXCEPT !.given = G] \in Past
        /\ \A M \in Maps : [past EXCEPT !.granted = M] \in Past
        /\ \A A \in SUBSET Nat : [past EXCEPT !.doomed = A] \in Past /\ [past EXCEPT !.late = A] \in Past
    BY <1>0, PastForms, Zenon
  <2>3. CASE \/ past' = past
             \/ \E G \in SUBSET (Nat \X Rights) : past' = [past EXCEPT !.given = G]
             \/ \E M \in Maps : past' = [past EXCEPT !.granted = M]
    BY <1>0, <2>2, <2>3, Zenon
  <2>4. CASE \E G \in SUBSET (Nat \X Rights), M \in Maps : past' = [past EXCEPT !.given = G, !.granted = M]
    BY <2>1, <2>4, Zenon
  <2>5. CASE \E A \in SUBSET Nat : past' = [past EXCEPT !.doomed = A] \/ past' = [past EXCEPT !.late = A]
    BY <2>2, <2>5, Zenon
  <2>6. QED
    BY <2>3, <2>4, <2>5, Zenon
<1>2. past'.acked = past.acked /\ past'.undone = past.undone
  BY <1>0 DEF Past
<1>3. QED
  BY <1>1, <1>2, PastStep

LEMMA CastVoteType ==
  ASSUME TypeOK, NEW p \in Proc, CastVote(p), Observe
  PROVE  TypeOK'
<1> DEFINE i == call[p].claims.sub
           A == past.late \cup {i}
<1>0. /\ Shape(call[p]) /\ call[p].at = "handle" /\ Issued(i) /\ content \subseteq 0 .. fresh - 1
  BY CallIs DEF CastVote, At, TypeOK
<1>1. UNCHANGED <<users, dir, fresh, tokens, cache>> /\ Counts /\ Returns(p)
  BY DEF CastVote, Counts
<1>2. i \in Nat /\ i \in 0 .. fresh - 1
  BY <1>0, NoneAssumption DEF Shape, Deciding, Issued
<1>3. /\ content' = content \/ content' = content \cup {i}
      /\ past' = past \/ past' = [past EXCEPT !.late = A]
  BY DEF CastVote, Caller
<1>4. A \in SUBSET Nat
  BY <1>2, PastIs
<1> HIDE DEF i, A
<1>5. PastOK'
  BY <1>1, <1>3, <1>4, Recorded
<1>6. content' \subseteq 0 .. fresh' - 1
  BY <1>0, <1>1, <1>2, <1>3
<1>7. QED
  BY <1>1, <1>5, <1>6, ReturnType

LEMMA ReturnsType ==
  ASSUME TypeOK, NEW p \in Proc, Refused(p) \/ GivesUp(p), Observe
  PROVE  TypeOK'
<1>1. Same /\ Returns(p)
  BY DEF Refused, GivesUp, Same
<1>2. QED
  BY <1>1, SameTypes, ReturnType

LEMMA AssignDeleteType ==
  ASSUME TypeOK, NEW p \in Proc, Assign(p) \/ Delete(p), Observe
  PROVE  TypeOK'
<1> DEFINE b == call[p]
           u == users[b.id].uuid
           d(at) == [b EXCEPT !.at = at, !.uuid = u]
<1>0. /\ b \in Call /\ Shape(b) /\ b.at = "handle" /\ UsersOK /\ Issued(b.id) /\ Issued(b.claims.sub)
      /\ b.id \in DOMAIN users
  BY CallIs DEF Assign, Delete, At, TypeOK
<1>1. UNCHANGED <<users, dir, tokens, cache, content>> /\ Counts
  BY DEF Assign, Delete, data, Counts
<1>2. u \in MaybeId /\ Issued(u) /\ b.id \in Nat
  BY <1>0 DEF UsersOK, Row
<1>3. PastOK'
  <2> DEFINE M == Without(past.granted, b.id)
             A == past.doomed \cup {b.id}
  <2>1. M \in Maps /\ A \in SUBSET Nat
    BY <1>2, PastIs, MapsAre
  <2>2. past' = [past EXCEPT !.granted = M] \/ past' = [past EXCEPT !.doomed = A]
    BY DEF Assign, Delete
  <2> HIDE DEF M, A
  <2>3. QED
    BY <1>1, <2>1, <2>2, Recorded
<1>4. PICK at \in {"grant", "update", "purge", "unlink"} :
        /\ Becomes(p, d(at))
        /\ at \in {"grant", "update"} => b.op = "assign"
        /\ at \in {"purge", "unlink"} => b.op = "delete"
        /\ IF at \in {"grant", "purge"} THEN u = None ELSE u # None
  <2>1. CASE Assign(p)
    <3> DEFINE at == IF u = None THEN "grant" ELSE "update"
    <3>1. Becomes(p, d(at)) /\ b.op = "assign"
      BY <2>1 DEF Assign
    <3>2. at \in {"grant", "update"} /\ (at = "grant" => u = None) /\ (at = "update" => u # None)
      OBVIOUS
    <3> HIDE DEF at, d, u, b
    <3>3. QED
      BY <3>1, <3>2
  <2>2. CASE Delete(p)
    <3> DEFINE at == IF u = None THEN "purge" ELSE "unlink"
    <3>1. Becomes(p, d(at)) /\ b.op = "delete"
      BY <2>2 DEF Delete
    <3>2. at \in {"purge", "unlink"} /\ (at = "purge" => u = None) /\ (at = "unlink" => u # None)
      OBVIOUS
    <3> HIDE DEF at, d, u, b
    <3>3. QED
      BY <3>1, <3>2
  <2>3. QED
    BY <2>1, <2>2
<1> DEFINE c == d(at)
<1> HIDE DEF u
<1>5. c \in Call
  <2>1. at \in Stage
    BY DEF Stage
  <2>2. QED
    BY <1>0, <1>2, <2>1, CallForms, Zenon
<1>6. c.op = b.op /\ c.at = at /\ c.id = b.id /\ c.uuid = u /\ c.claims = b.claims
  BY <1>0 DEF Call
<1>7. Becomes(p, c)
  BY <1>4
<1> HIDE DEF c, d, b
<1>8. u # None => u \in Nat
  BY <1>2 DEF MaybeId
<1>9. Shape(c)
  BY <1>2, <1>4, <1>6, <1>8 DEF Shape, Writing, Deciding
<1>10. QED
  BY <1>0, <1>1, <1>2, <1>3, <1>5, <1>6, <1>7, <1>9, BecomesType

LEMMA UpdateType ==
  ASSUME TypeOK, NEW p \in Proc, UpdateGet(p) \/ UpdatePut(p) \/ UpdateFails(p), Observe
  PROVE  TypeOK'
<1> DEFINE b == call[p]
           G == past.given \cup {<<b.id, b.rights>>}
           M == With(past.granted, b.id, b.rights)
<1>0. /\ b \in Call /\ Shape(b) /\ b.at \in {"update", "put"} /\ Issued(b.uuid) /\ b.rights \in Rights
      /\ fresh \in Nat
  BY CallIs DEF UpdateGet, UpdatePut, UpdateFails, At
<1>1. UNCHANGED <<users, tokens, cache, content, fresh>> /\ Counts
  BY DEF UpdateGet, UpdatePut, UpdateFails, data, Counts
<1>2. b.id \in Nat /\ b.uuid \in 0 .. fresh - 1 /\ b.uuid \in Nat /\ b.op = "assign"
  BY <1>0, NoneAssumption DEF Shape, Writing, Issued
<1>3. CASE UpdateGet(p) /\ Goes(p, "put")
  <2> DEFINE d == [b EXCEPT !.at = "put"]
  <2>1. dir' = dir /\ past' = past /\ "put" \in Stage
    BY <1>3 DEF UpdateGet, data, Stage
  <2>2. d.op = b.op /\ d.at = "put" /\ d.id = b.id /\ d.uuid = b.uuid /\ d.claims = b.claims
    BY <1>0 DEF Call
  <2> HIDE DEF d
  <2>3. Shape(d)
    BY <1>2, <2>2 DEF Shape, Writing, Deciding
  <2>4. QED
    BY <1>1, <1>3, <2>1, <2>3, GoesType DEF d
<1>4. CASE Returns(p)
  <2>1. dir' = dir \/ dir' = With(dir, b.uuid, b.rights)
    BY DEF UpdateGet, UpdatePut, UpdateFails, data
  <2>2. dir' = dir \/ DirOK'
    BY <1>0, <1>1, <1>2, <2>1, EntryPut
  <2>3. G \in SUBSET (Nat \X Rights) /\ M \in Maps
    BY <1>0, <1>2, PastIs, MapsAre
  <2>4. \/ past' = past \/ past' = [past EXCEPT !.given = G]
        \/ past' = [past EXCEPT !.given = G, !.granted = M]
    <3>1. CASE UpdatePut(p)
      <4>1. past' = [Given(p) EXCEPT !.granted = With(Given(p).granted, b.id, b.rights)]
        BY <3>1 DEF UpdatePut
      <4>2. Given(p) = [past EXCEPT !.given = G] /\ past \in Past
        BY PastIs DEF Given
      <4> HIDE DEF G
      <4>3. Given(p).granted = past.granted
        BY <4>2 DEF Past
      <4>4. past' = [[past EXCEPT !.given = G] EXCEPT !.granted = M]
        BY <4>1, <4>2, <4>3
      <4>5. QED
        BY <4>4
    <3>2. CASE UpdateGet(p) \/ UpdateFails(p)
      BY <3>2 DEF UpdateGet, UpdateFails, Given
    <3>3. QED
      BY <3>1, <3>2
  <2> HIDE DEF G, M
  <2>5. PastOK'
    BY <1>1, <2>3, <2>4, Recorded
  <2>6. QED
    BY <1>1, <1>4, <2>2, <2>5, ReturnType
<1>5. QED
  BY <1>3, <1>4 DEF UpdateGet, UpdatePut, UpdateFails

LEMMA DeletionType ==
  ASSUME TypeOK, NEW p \in Proc, DeleteEntry(p) \/ Purge(p) \/ DeleteRow(p), Observe
  PROVE  TypeOK'
<1> DEFINE b == call[p]
           d(at) == [b EXCEPT !.at = at]
<1>0. /\ b \in Call /\ Shape(b) /\ b.at \in {"unlink", "purge", "dropRow"}
      /\ fresh \in Nat /\ content \subseteq 0 .. fresh - 1
  BY CallIs DEF DeleteEntry, Purge, DeleteRow, At, TypeOK
<1>1. UNCHANGED <<tokens, cache, fresh>> /\ Counts
  BY DEF DeleteEntry, Purge, DeleteRow, Counts
<1>2. b.id \in Nat /\ b.op = "delete"
  BY <1>0 DEF Shape, Writing
<1>3. \A at \in {"purge", "dropRow"} : Shape(d(at))
  <2> TAKE at \in {"purge", "dropRow"}
  <2> DEFINE c == d(at)
  <2>1. c.op = b.op /\ c.at = at /\ c.id = b.id /\ c.uuid = b.uuid /\ c.claims = b.claims
    BY <1>0 DEF Call
  <2> HIDE DEF c
  <2>2. Shape(c)
    BY <1>2, <2>1 DEF Shape, Writing, Deciding
  <2>3. QED
    BY <2>2 DEF c
<1>4. "purge" \in Stage /\ "dropRow" \in Stage
  BY DEF Stage
<1>5. CASE DeleteEntry(p)
  <2>1. dir' = Without(dir, b.uuid) /\ Goes(p, "purge") /\ UNCHANGED <<users, content, past>>
    BY <1>5 DEF DeleteEntry
  <2>2. DirOK'
    BY <1>1, <2>1, EntryRemoved
  <2>3. QED
    BY <1>1, <1>3, <1>4, <2>1, <2>2, GoesType
<1>6. CASE Purge(p)
  <2>1. content' = content \ {b.id} /\ Goes(p, "dropRow") /\ UNCHANGED <<users, dir, past>>
    BY <1>6 DEF Purge
  <2>2. content' \subseteq 0 .. fresh' - 1
    BY <1>0, <1>1, <2>1
  <2>3. QED
    BY <1>1, <1>3, <1>4, <2>1, <2>2, GoesType
<1>7. CASE DeleteRow(p)
  <2>1. users' = Without(users, b.id) /\ Returns(p) /\ UNCHANGED <<dir, content, past>>
    BY <1>7 DEF DeleteRow
  <2>2. UsersOK'
    BY <1>1, <2>1, RowRemoved
  <2>3. QED
    BY <1>1, <2>1, <2>2, ReturnType
<1>8. QED
  BY <1>5, <1>6, <1>7

LEMMA DisconnectType ==
  ASSUME TypeOK, NEW p \in Proc, Disconnect(p), Observe
  PROVE  TypeOK'
<1> DEFINE b == call[p]
           c == [b EXCEPT !.gone = TRUE]
<1>0. b \in Call /\ Shape(b) /\ Issued(b.id) /\ Issued(b.uuid) /\ Issued(b.claims.sub)
  BY CallIs
<1>1. Same /\ Becomes(p, c)
  BY DEF Disconnect, Same
<1>2. c \in Call
  BY <1>0, CallForms DEF Call
<1>3. c.op = b.op /\ c.at = b.at /\ c.id = b.id /\ c.uuid = b.uuid /\ c.claims = b.claims
  BY <1>0 DEF Call
<1> HIDE DEF b, c
<1>4. Shape(c)
  BY <1>0, <1>3 DEF Shape
<1>5. QED
  BY <1>0, <1>1, <1>2, <1>3, <1>4, SameTypes, BecomesType

LEMMA CrashType ==
  ASSUME TypeOK, Crash, Observe
  PROVE  TypeOK'
<1>1. /\ call' = [p \in Proc |-> NoCall] /\ cache' = <<>>
      /\ UNCHANGED <<users, dir, content, fresh, tokens, past>> /\ Counts
  BY DEF Crash, Counts
<1>2. call' \in [Proc -> Call] /\ \A p \in Proc : CallOK(call[p])'
  BY <1>1, NoCallIs DEF CallOK, Issued
<1>3. CacheOK'
  <2>1. Len(<<>>) = 0 /\ DOMAIN <<>> = {} /\ <<>> \in Seq(Kept)
    OBVIOUS
  <2>2. QED
    BY <1>1, <2>1, MaxCachedAssumption DEF CacheOK
<1>4. fresh' \in Nat /\ content' \subseteq 0 .. fresh' - 1 /\ UsersOK' /\ DirOK' /\ TokensOK' /\ PastOK'
  BY <1>1, UsersKept, DirKept, TokensKept, PastKept DEF TypeOK
<1>5. overlaps' \in [writes : SUBSET Nat, reads : SUBSET Nat]
  BY <1>4, ObserveType DEF TypeOK
<1>6. QED
  BY <1>2, <1>3, <1>4, <1>5 DEF TypeOK

LEMMA StutterType ==
  ASSUME TypeOK, UNCHANGED vars
  PROVE  TypeOK'
BY DEF vars, data, TypeOK, UsersOK, DirOK, TokensOK, CacheOK, PastOK, CallOK, Issued

\* Every variable keeps its type.
LEMMA TypeKept ==
  ASSUME TypeOK, [Next]_vars
  PROVE  TypeOK'
<1>1. CASE UNCHANGED vars
  BY <1>1, StutterType
<1>2. CASE Next
  <2>1. Observe
    BY <1>2 DEF Next
  <2>2. CASE Crash
    BY <2>1, <2>2, CrashType
  <2>3. ASSUME NEW p \in Proc, Calls(p) PROVE TypeOK'
    BY <2>1, <2>3, RegisterType, RegisterFailsType, ConfirmType, ArrivalType DEF Calls
  <2>4. ASSUME NEW p \in Proc, Steps(p) PROVE TypeOK'
    BY <2>1, <2>4, GrantType, GrantFailsType, LinkType, LinkFailsType, MailType, UndoEntryType,
       UndoRowType, CreateFromGoogleType, InsertFailsType, RereadType, IssueTokenType, ReadRowType, ReadEntryType,
       RememberType, RecallType, CastVoteType, ReturnsType, AssignDeleteType, UpdateType,
       DeletionType, DisconnectType DEF Steps
  <2>5. QED
    BY <1>2, <2>2, <2>3, <2>4 DEF Next
<1>3. QED
  BY <1>1, <1>2

-----------------------------------------------------------------------------
(* The parts of the inductive invariant.                                   *)

\* Call c relies on entry u being the one of account i.
Holds(c, i, u) ==
  /\ c.uuid = u
  /\ \/ c.at \in Holding /\ c.id = i
     \/ c.at = "entry" /\ c.claims.sub = i

\* Somebody takes entry u for the one of account i.
Ref(i, u) ==
  \/ i \in DOMAIN users /\ users[i].uuid = u
  \/ [id |-> i, uuid |-> u] \in past.undone
  \/ \E p \in Proc : Holds(call[p], i, u)

\* An entry belongs to one account, and has rights that account was given.
OneOwner == \A u, i, j \in Nat : Ref(i, u) /\ Ref(j, u) => i = j
EntriesGiven == \A u \in DOMAIN dir, i \in Nat : Ref(i, u) => <<i, dir[u]>> \in past.given
Owners == OneOwner /\ EntriesGiven

\* What the tokens, the cache and the requests say of an account is known of it.
Known(i, r) == r = NoRights \/ <<i, r>> \in past.given
CallKnown(c) ==
  /\ c.at \in Deciding => Known(c.claims.sub, RightsOf(c.claims))
  /\ c.at = "remember" => Known(c.claims.sub, c.seen)
Knowledge ==
  /\ \A t \in tokens : Known(t.sub, RightsOf(t))
  /\ \A k \in DOMAIN cache : Known(cache[k].id, cache[k].rights)
  /\ \A p \in Proc : CallKnown(call[p])

\* Unless calls have overlapped, the call that writes an account is alone to
\* do so, and has its row.
Writes(c) == c.at \in Writing
Alone ==
  \A p \in Proc :
    Writes(call[p]) /\ call[p].id \notin overlaps.writes =>
      /\ call[p].id \in DOMAIN users
      /\ \A q \in Proc : Writes(call[q]) /\ call[q].id = call[p].id => q = p

\* A registration has its account to itself until it is acknowledged.
Registers(c) == c.op = "register"
Sole ==
  \A p \in Proc :
    Registers(call[p]) =>
      /\ call[p].id \notin past.acked
      /\ \A q \in Proc : Registers(call[q]) /\ call[q].id = call[p].id => q = p

\* Only the account that an administrator has asked to delete is deleted.
Dooms == \A p \in Proc : call[p].at \in {"unlink", "purge", "dropRow"} => call[p].id \in past.doomed

\* An entry that is not linked yet is there as it was made, and nobody else knows it.
NewEntries ==
  \A p \in Proc :
    call[p].at = "link" =>
      /\ call[p].uuid \in DOMAIN dir /\ dir[call[p].uuid] = call[p].rights
      /\ \A i \in DOMAIN users : users[i].uuid # call[p].uuid
      /\ \A f \in past.undone : f.uuid # call[p].uuid
      /\ \A q \in Proc : q # p /\ call[q].at \in Holding \cup {"entry"} => call[q].uuid # call[p].uuid

\* Accounts whose registration is acknowledged, or about to be.
Registered(i) == i \in past.acked \/ \E p \in Proc : call[p].at = "mail" /\ call[p].id = i
HaveRights ==
  \A i \in Nat \ past.doomed : Registered(i) => i \in DOMAIN users /\ users[i].uuid \in DOMAIN dir

\* What a rollback has undone stays undone.
NothingLeft ==
  /\ \A f \in past.undone :
       f.id \notin overlaps.writes =>
         /\ f.id \notin DOMAIN users /\ f.uuid \notin DOMAIN dir
         /\ \A p \in Proc : ~(Writes(call[p]) /\ call[p].id = f.id)
  /\ \A p \in Proc :
       call[p].at = "undoRow" /\ call[p].clean /\ call[p].id \notin overlaps.writes =>
         call[p].uuid \notin DOMAIN dir

\* An account whose last assignment was acknowledged has it, and no call writes it.
Settled ==
  /\ \A i \in DOMAIN past.granted \ (past.doomed \cup overlaps.writes) :
       /\ i \in DOMAIN users /\ users[i].uuid \in DOMAIN dir
       /\ dir[users[i].uuid] = past.granted[i]
       /\ \A p \in Proc : ~(Writes(call[p]) /\ call[p].id = i)
  /\ \A p \in Proc :
       call[p].at \in {"update", "put"} /\ call[p].id \notin past.doomed \cup overlaps.writes =>
         users[call[p].id].uuid = call[p].uuid

\* Votes are under ids with a row, or were cast after a deletion swept, or
\* before a registration was rolled back.
Accounted ==
  /\ content \subseteq DOMAIN users \cup past.late \cup past.rolledBack
  /\ \A p \in Proc : call[p].at = "dropRow" /\ call[p].id \in content => call[p].id \in past.late

\* A reading that is to be remembered is the last one, unless two overlapped.
Reads(c) == c.at = "remember"
Fresh ==
  \A p \in Proc :
    Reads(call[p]) =>
      /\ Caller(p) \in DOMAIN past.read
      /\ Caller(p) \notin overlaps.reads =>
           /\ call[p].seen = past.read[Caller(p)]
           /\ \A q \in Proc : Reads(call[q]) /\ Caller(q) = Caller(p) => q = p
Tracks ==
  \A k \in DOMAIN cache :
    /\ cache[k].id \in DOMAIN past.read
    /\ cache[k].id \notin overlaps.reads /\ (\A p \in Proc : ~(Reads(call[p]) /\ Caller(p) = cache[k].id)) =>
         cache[k].rights = past.read[cache[k].id]

-----------------------------------------------------------------------------
(* A step of a call, by what it does to the call and to each table: b is    *)
(* the call before it and c the call after it.                              *)

Carries(b, c) == c.op = b.op /\ c.id = b.id /\ c.rights = b.rights /\ c.claims = b.claims
Stays(b, c) == Carries(b, c) /\ c.uuid = b.uuid /\ c.clean = b.clean /\ c.seen = b.seen
Leg(b, c, x, y) == b.at = x /\ c.at = y

\* The call goes on with what it has.
Onward(b, c) ==
  \/ c.at = b.at
  \/ Leg(b, c, "grant", "undoRow")
  \/ Leg(b, c, "link", "undoEntry")
  \/ Leg(b, c, "link", "mail") \/ Leg(b, c, "link", "issue")
  \/ Leg(b, c, "mail", "undoEntry")
  \/ Leg(b, c, "undoEntry", "undoRow") /\ b.uuid \notin DOMAIN dir'
  \/ Leg(b, c, "insert", "reread")
  \/ Leg(b, c, "row", "recall") \/ Leg(b, c, "entry", "recall")
  \/ Leg(b, c, "update", "put")
  \/ Leg(b, c, "unlink", "purge")
  \/ Leg(b, c, "purge", "dropRow") /\ b.id \notin content'

\* A call arrives.
Arrival(c) ==
  \/ c.op = "register" /\ c.at = "grant" /\ c.id = fresh /\ fresh \in DOMAIN users' /\ c.uuid = None
  \/ c.op = "google" /\ c.at = "insert"
  \/ c.op \in {"vote", "assign", "delete"} /\ c.at = "row" /\ c.claims \in tokens
  \/ c.op \in {"login", "google"} /\ c.at = "issue" /\ c.id \in DOMAIN users /\ c.uuid = users[c.id].uuid

\* A sign-in by Google makes an account, or takes the one without an entry.
Entering(c) ==
  /\ c.op = "google" /\ c.at = "grant" /\ c.uuid = None
  /\ \/ c.id = fresh /\ fresh \in DOMAIN users'
     \/ c.id \in DOMAIN users /\ users[c.id].uuid = None

\* An administrator's request comes to the account it is about.
Taking(b, c) ==
  /\ b.at = "handle" /\ Carries(b, c) /\ c.id \in DOMAIN users /\ c.uuid = users[c.id].uuid
  /\ \/ c.op = "assign" /\ c.at \in {"grant", "update"} /\ c.id \notin DOMAIN past'.granted
     \/ c.op = "delete" /\ c.at \in {"purge", "unlink"} /\ c.id \in past'.doomed

\* The request is decided: by the reading, the cache or the token.
Decided(b, c) ==
  /\ c.op = b.op /\ c.id = b.id /\ c.at = "handle" /\ c.claims.sub = b.claims.sub
  /\ \/ b.at = "remember" /\ RightsOf(c.claims) = b.seen
     \/ b.at = "recall" /\ \E k \in DOMAIN cache : cache[k].id = b.claims.sub /\ RightsOf(c.claims) = cache[k].rights
     \/ b.at = "recall" /\ RightsOf(c.claims) = RightsOf(b.claims)

CallMove(b, c) ==
  \/ c = NoCall
  \/ Arrival(c)
  \/ Stays(b, c) /\ Onward(b, c)
  \/ Leg(b, c, "undoEntry", "undoRow") /\ Carries(b, c) /\ c.uuid = b.uuid /\ ~c.clean
  \/ Leg(b, c, "grant", "link") /\ Carries(b, c) /\ c.uuid = fresh /\ fresh \in DOMAIN dir' /\ dir'[fresh] = b.rights
  \/ Entering(c)
  \/ /\ Leg(b, c, "row", "entry") /\ Carries(b, c)
     /\ b.claims.sub \in DOMAIN users /\ c.uuid = users[b.claims.sub].uuid
  \/ Leg(b, c, "entry", "remember") /\ Carries(b, c) /\ b.uuid \in DOMAIN dir /\ c.seen = dir[b.uuid]
  \/ Decided(b, c)
  \/ Taking(b, c)

UsersMove(b, c) ==
  \/ /\ DOMAIN users' = DOMAIN users /\ \A i \in DOMAIN users : users'[i].uuid = users[i].uuid
     /\ b.at = "link" => c.at # "mail"
  \/ /\ DOMAIN users' = DOMAIN users \cup {fresh} /\ users'[fresh].uuid = None
     /\ \A i \in DOMAIN users : users'[i].uuid = users[i].uuid
     /\ b.at \in {"idle", "insert"}
  \/ /\ b.at = "link" /\ c.at # "link" /\ b.id \in DOMAIN users
     /\ DOMAIN users' = DOMAIN users /\ users'[b.id].uuid = b.uuid
     /\ \A i \in DOMAIN users : i # b.id => users'[i].uuid = users[i].uuid
  \/ /\ b.at \in {"undoRow", "dropRow"} /\ c = NoCall /\ DOMAIN users' = DOMAIN users \ {b.id}
     /\ \A i \in DOMAIN users' : users'[i].uuid = users[i].uuid
     /\ b.at = "undoRow" => b.id \in past'.rolledBack

DirMove(b, c) ==
  \/ dir' = dir
  \/ /\ b.at = "grant" /\ DOMAIN dir' = DOMAIN dir \cup {fresh} /\ dir'[fresh] = b.rights
     /\ \A u \in DOMAIN dir : dir'[u] = dir[u]
     /\ c.at = "link" => <<b.id, b.rights>> \in past'.given
  \/ /\ b.at \in {"undoEntry", "unlink"} /\ DOMAIN dir' = DOMAIN dir \ {b.uuid}
     /\ \A u \in DOMAIN dir' : dir'[u] = dir[u]
  \/ /\ b.at = "put" /\ c = NoCall /\ DOMAIN dir' = DOMAIN dir \cup {b.uuid} /\ dir'[b.uuid] = b.rights
     /\ \A u \in DOMAIN dir : u # b.uuid => dir'[u] = dir[u]
     /\ <<b.id, b.rights>> \in past'.given

GrantedMove(b, c) ==
  \/ past'.granted = past.granted
  \/ /\ b.at = "handle" /\ DOMAIN past'.granted = DOMAIN past.granted \ {b.id}
     /\ \A i \in DOMAIN past'.granted : past'.granted[i] = past.granted[i]
  \/ /\ c = NoCall /\ DOMAIN past'.granted = DOMAIN past.granted \cup {b.id}
     /\ past'.granted[b.id] = b.rights
     /\ \A i \in DOMAIN past.granted : i # b.id => past'.granted[i] = past.granted[i]
     /\ \/ b.at = "link" /\ b.id \in DOMAIN users' /\ users'[b.id].uuid = b.uuid /\ dir' = dir
        \/ b.at = "put" /\ b.uuid \in DOMAIN dir' /\ dir'[b.uuid] = b.rights /\ users' = users

ReadMove(b, c) ==
  \/ past'.read = past.read /\ ~Leg(b, c, "entry", "remember")
  \/ /\ Leg(b, c, "entry", "remember") /\ DOMAIN past'.read = DOMAIN past.read \cup {b.claims.sub}
     /\ past'.read[b.claims.sub] = c.seen
     /\ \A i \in DOMAIN past.read : i # b.claims.sub => past'.read[i] = past.read[i]

PastMove(b, c) ==
  /\ past.given \subseteq past'.given /\ past.doomed \subseteq past'.doomed
  /\ past.rolledBack \subseteq past'.rolledBack /\ past.late \subseteq past'.late
  /\ \/ past'.acked = past.acked
     \/ b.at = "mail" /\ c = NoCall /\ past'.acked = past.acked \cup {b.id}
  /\ \/ past'.undone = past.undone
     \/ /\ b.at = "undoRow" /\ b.clean /\ c = NoCall /\ b.id \notin DOMAIN users'
        /\ past'.undone = past.undone \cup {[id |-> b.id, uuid |-> b.uuid]}
  /\ GrantedMove(b, c) /\ ReadMove(b, c)

ContentMove(b, c) ==
  \/ content' \subseteq content
  \/ /\ b.at = "handle" /\ content' = content \cup {b.claims.sub} /\ users' = users /\ c = NoCall
     /\ \/ b.claims.sub \in past'.late
        \/ b.claims.sub \in DOMAIN users /\ \A q \in Proc : ~(call[q].at = "dropRow" /\ call[q].id = b.claims.sub)

\* Tokens and cache: nothing new, or what the call has read.
KnownMove(b, c) ==
  /\ \/ tokens' = tokens
     \/ b.at = "issue" /\ \E r \in Rights :
          /\ tokens' = tokens \cup {Claims(b.id, r)}
          /\ r = NoRights \/ (b.uuid \in DOMAIN dir /\ r = dir[b.uuid])
  /\ \/ cache' = cache /\ (b.at = "remember" => c.at = "remember")
     \/ b.at = "remember" /\ c.at = "handle" /\ cache' = Remembered(b.claims.sub, b.seen)

Effects(b, c) ==
  /\ CallMove(b, c) /\ UsersMove(b, c) /\ DirMove(b, c) /\ PastMove(b, c)
  /\ ContentMove(b, c) /\ KnownMove(b, c)

Moves(p) ==
  /\ \A q \in Proc : q # p => call'[q] = call[q]
  /\ call'[p] \in Call /\ Effects(call[p], call'[p])

LEMMA UsersStay ==
  ASSUME users' = users, NEW b, NEW c, b.at = "link" => c.at # "mail"
  PROVE  UsersMove(b, c)
BY DEF UsersMove

LEMMA PastStays ==
  ASSUME past' = past, NEW b, NEW c, ~Leg(b, c, "entry", "remember")
  PROVE  PastMove(b, c)
BY DEF PastMove, GrantedMove, ReadMove

LEMMA ContentStays ==
  ASSUME content' = content, NEW b, NEW c
  PROVE  ContentMove(b, c)
BY DEF ContentMove

LEMMA KnownStays ==
  ASSUME tokens' = tokens, cache' = cache, NEW b, NEW c, b.at = "remember" => c.at = "remember"
  PROVE  KnownMove(b, c)
BY DEF KnownMove

LEMMA MovesBy ==
  ASSUME TypeOK, NEW p \in Proc, NEW c \in Call, Becomes(p, c), Effects(call[p], c)
  PROVE  Moves(p)
<1>1. call'[p] = c /\ \A q \in Proc : q # p => call'[q] = call[q]
  BY DEF TypeOK, Becomes
<1>2. QED
  BY <1>1 DEF Moves

\* A step that changes nothing but the call.
LEMMA QuietMoves ==
  ASSUME TypeOK, NEW p \in Proc, NEW c \in Call, Becomes(p, c), Same, CallMove(call[p], c),
         call[p].at = "link" => c.at # "mail", ~Leg(call[p], c, "entry", "remember"),
         call[p].at = "remember" => c.at = "remember"
  PROVE  Moves(p)
<1>1. /\ users' = users /\ dir' = dir /\ tokens' = tokens /\ cache' = cache
      /\ past' = past /\ content' = content
  BY SameTypes
<1>2. DirMove(call[p], c)
  BY <1>1 DEF DirMove
<1>3. PastMove(call[p], c)
  BY <1>1, PastStays
<1>4. UsersMove(call[p], c) /\ ContentMove(call[p], c) /\ KnownMove(call[p], c)
  BY <1>1, <1>3, UsersStay, ContentStays, KnownStays
<1>5. QED
  BY <1>2, <1>3, <1>4, MovesBy DEF Effects

LEMMA RegisterMoves ==
  ASSUME TypeOK, NEW p \in Proc, NEW e \in Email, Register(p, e)
  PROVE  Moves(p)
<1> DEFINE c == [NoCall EXCEPT !.op = "register", !.at = "grant", !.id = fresh,
                               !.rights = DefaultPermissions]
<1>1. /\ users' = With(users, fresh, [email |-> e, pending |-> TRUE, uuid |-> None])
      /\ fresh' = fresh + 1 /\ Becomes(p, c) /\ call[p] = NoCall
      /\ UNCHANGED <<dir, content, tokens, cache, past>>
  BY DEF Register, Arrives, Becomes
<1>2. /\ DOMAIN users' = DOMAIN users \cup {fresh} /\ users'[fresh].uuid = None
      /\ \A i \in DOMAIN users : users'[i] = users[i]
  BY <1>1, RowAdded
<1>3. c \in Call
  BY NewCallForms, RightsAre DEF Op, Stage, MaybeId, TypeOK
<1>4. c.op = "register" /\ c.at = "grant" /\ c.id = fresh /\ c.uuid = None /\ call[p].at = "idle"
  BY <1>1, NoCallIs DEF Call
<1> HIDE DEF c
<1>5. CallMove(call[p], c)
  BY <1>2, <1>4 DEF CallMove, Arrival
<1>6. UsersMove(call[p], c)
  BY <1>2, <1>4 DEF UsersMove
<1>7. PastMove(call[p], c)
  BY <1>1, <1>4, PastStays DEF Leg
<1>8. DirMove(call[p], c) /\ ContentMove(call[p], c) /\ KnownMove(call[p], c)
  BY <1>1, <1>4, <1>7, ContentStays, KnownStays DEF DirMove
<1>9. QED
  BY <1>1, <1>3, <1>5, <1>6, <1>7, <1>8, MovesBy DEF Effects

\* A row that the call which returns is not told of.
LEMMA RowMoves ==
  ASSUME TypeOK, NEW p \in Proc, NEW e \in Email \cup {None}, NEW h \in BOOLEAN,
         call[p].at \in {"idle", "insert"}, Becomes(p, NoCall), fresh' = fresh + 1,
         users' = With(users, fresh, [email |-> e, pending |-> h, uuid |-> None]),
         UNCHANGED <<dir, content, tokens, cache, past>>
  PROVE  Moves(p)
<1>1. /\ DOMAIN users' = DOMAIN users \cup {fresh} /\ users'[fresh].uuid = None
      /\ \A i \in DOMAIN users : users'[i] = users[i]
  BY RowAdded
<1>2. NoCall \in Call /\ CallMove(call[p], NoCall) /\ DirMove(call[p], NoCall)
  BY NoCallIs DEF CallMove, DirMove
<1>3. UsersMove(call[p], NoCall)
  BY <1>1 DEF UsersMove
<1>4. PastMove(call[p], NoCall)
  BY PastStays DEF Leg
<1>5. ContentMove(call[p], NoCall) /\ KnownMove(call[p], NoCall)
  BY ContentStays, KnownStays
<1>6. QED
  BY <1>2, <1>3, <1>4, <1>5, MovesBy DEF Effects

LEMMA RegisterFailsMoves ==
  ASSUME TypeOK, NEW p \in Proc, NEW e \in Email, RegisterFails(p, e)
  PROVE  Moves(p)
<1>1. /\ users' = With(users, fresh, [email |-> e, pending |-> TRUE, uuid |-> None])
      /\ fresh' = fresh + 1 /\ call' = call /\ call[p] = NoCall
      /\ UNCHANGED <<dir, content, tokens, cache, past>>
  BY DEF RegisterFails
<1>2. Becomes(p, NoCall) /\ call[p].at = "idle"
  BY <1>1, NoCallIs DEF Becomes, TypeOK
<1>3. QED
  BY <1>1, <1>2, RowMoves

LEMMA InsertFailsMoves ==
  ASSUME TypeOK, NEW p \in Proc, InsertFails(p)
  PROVE  Moves(p)
<1>1. /\ users' = With(users, fresh, [email |-> call[p].email, pending |-> FALSE, uuid |-> None])
      /\ fresh' = fresh + 1 /\ Becomes(p, NoCall) /\ call[p].at = "insert"
      /\ UNCHANGED <<dir, content, tokens, cache, past>>
  BY DEF InsertFails, At, Returns
<1>2. call[p].email \in Email \cup {None}
  BY CallIs DEF Call
<1>3. QED
  BY <1>1, <1>2, RowMoves

LEMMA ConfirmMoves ==
  ASSUME TypeOK, NEW p \in Proc, NEW i, Confirm(p, i)
  PROVE  Moves(p)
<1>1. /\ i \in DOMAIN users /\ users' = [users EXCEPT ![i].pending = FALSE] /\ Becomes(p, NoCall)
      /\ call[p] = NoCall /\ UNCHANGED <<dir, content, tokens, cache, past>>
  BY DEF Confirm, Arrives, Becomes
<1>2. DOMAIN users' = DOMAIN users /\ \A j \in DOMAIN users : users'[j].uuid = users[j].uuid
  BY <1>1 DEF TypeOK, UsersOK, Row
<1>3. NoCall \in Call /\ NoCall.at = "idle"
  BY NoCallIs
<1>4. CallMove(call[p], NoCall)
  BY DEF CallMove
<1>5. UsersMove(call[p], NoCall)
  BY <1>1, <1>2, <1>3 DEF UsersMove
<1>6. PastMove(call[p], NoCall)
  BY <1>1, <1>3, PastStays DEF Leg
<1>7. DirMove(call[p], NoCall) /\ ContentMove(call[p], NoCall) /\ KnownMove(call[p], NoCall)
  BY <1>1, <1>3, <1>6, ContentStays, KnownStays DEF DirMove
<1>8. QED
  BY <1>1, <1>3, <1>4, <1>5, <1>6, <1>7, MovesBy DEF Effects

\* The sign-ins and requests that arrive.
LEMMA ArrivalMoves ==
  ASSUME TypeOK, NEW p \in Proc,
         \/ \E e \in Email : Login(p, e) \/ GoogleLogin(p, e)
         \/ \E t \in tokens : Request(p, t, "vote", None, NoRights)
         \/ \E t \in tokens, i \in DOMAIN users : Request(p, t, "delete", i, NoRights)
         \/ \E t \in tokens, i \in DOMAIN users, r \in Assigned : Request(p, t, "assign", i, r)
  PROVE  Moves(p)
<1>0. UsersOK /\ TokensOK
  BY DEF TypeOK
<1>1. ASSUME NEW c \in Call, Becomes(p, c), Same, Arrival(c), call[p] = NoCall
      PROVE  Moves(p)
  BY <1>1, NoCallIs, QuietMoves DEF CallMove, Leg
<1>2. ASSUME NEW i \in DOMAIN users, NEW op \in {"login", "google"}, Same, call[p] = NoCall,
             Becomes(p, SigningIn(op, i))
      PROVE  Moves(p)
  <2> DEFINE u == users[i].uuid
             c == [NoCall EXCEPT !.op = op, !.at = "issue", !.id = i, !.uuid = u]
  <2>1. i \in MaybeId /\ u \in MaybeId /\ op \in Op /\ "issue" \in Stage
    BY <1>0 DEF UsersOK, Row, MaybeId, Op, Stage
  <2>2. Becomes(p, c)
    BY <1>2 DEF SigningIn
  <2> HIDE DEF u
  <2>3. c \in Call
    BY <2>1, NewCallForms, Zenon
  <2>4. c.op = op /\ c.at = "issue" /\ c.id = i /\ c.uuid = u
    BY NoCallIs DEF Call
  <2> HIDE DEF c
  <2>5. Arrival(c)
    BY <2>4 DEF Arrival, u
  <2>6. QED
    BY <1>1, <1>2, <2>2, <2>3, <2>5
<1>3. ASSUME NEW e \in Email, Same, call[p] = NoCall,
             Becomes(p, [NoCall EXCEPT !.op = "google", !.at = "insert", !.email = e,
                                       !.rights = DefaultPermissions])
      PROVE  Moves(p)
  <2> DEFINE c == [NoCall EXCEPT !.op = "google", !.at = "insert", !.email = e,
                                 !.rights = DefaultPermissions]
  <2>1. c \in Call
    BY NewCallForms, RightsAre DEF Op, Stage
  <2>2. c.op = "google" /\ c.at = "insert"
    BY NoCallIs DEF Call
  <2>3. Becomes(p, c)
    BY <1>3
  <2> HIDE DEF c
  <2>4. QED
    BY <1>1, <1>3, <2>1, <2>2, <2>3 DEF Arrival
<1>4. ASSUME NEW t \in tokens, NEW op \in {"vote", "delete", "assign"}, NEW i \in DOMAIN users \cup {None},
             NEW r \in Rights, Request(p, t, op, i, r)
      PROVE  Moves(p)
  <2> DEFINE c == [NoCall EXCEPT !.op = op, !.at = "row", !.claims = t, !.id = i, !.rights = r]
  <2>1. Becomes(p, c) /\ Same /\ call[p] = NoCall
    BY <1>4 DEF Request, Arrives, Same, Becomes
  <2>2. t \in Claim /\ i \in MaybeId /\ op \in Op /\ "row" \in Stage
    BY <1>0 DEF TokensOK, UsersOK, MaybeId, Op, Stage
  <2>3. c \in Call
    BY <2>2, NewCallForms, Zenon
  <2>4. c.op = op /\ c.at = "row" /\ c.claims = t
    BY NoCallIs DEF Call
  <2> HIDE DEF c
  <2>5. Arrival(c)
    BY <2>4 DEF Arrival
  <2>6. QED
    BY <1>1, <2>1, <2>3, <2>5
<1>5. NoRights \in Rights /\ Assigned \subseteq Rights
  BY RightsAre, AssignedAssumption
<1>6. CASE \E e \in Email : Login(p, e) \/ GoogleLogin(p, e)
  <2>1. PICK e \in Email : Login(p, e) \/ GoogleLogin(p, e)
    BY <1>6
  <2>2. Same /\ call[p] = NoCall
    BY <2>1 DEF Login, GoogleLogin, Same, Arrives
  <2>3. \/ \E i \in DOMAIN users, op \in {"login", "google"} : Becomes(p, SigningIn(op, i))
        \/ Becomes(p, [NoCall EXCEPT !.op = "google", !.at = "insert", !.email = e,
                                     !.rights = DefaultPermissions])
    BY <2>1 DEF Login, GoogleLogin, Arrives, RowsOf, Becomes
  <2>4. QED
    BY <2>2, <2>3, <1>2, <1>3
<1>7. QED
  BY <1>4, <1>5, <1>6

LEMMA GrantMoves ==
  ASSUME TypeOK, NEW p \in Proc, Grant(p)
  PROVE  Moves(p)
<1> DEFINE b == call[p]
           c == [b EXCEPT !.at = "link", !.uuid = fresh]
           given == past.given \cup {<<b.id, b.rights>>}
<1>0. b \in Call /\ fresh \in Nat /\ b.rights \in Rights /\ past \in Past
  BY CallIs, PastIs
<1>1. /\ b.at = "grant" /\ dir' = With(dir, fresh, b.rights) /\ fresh' = fresh + 1
      /\ past' = [past EXCEPT !.given = given] /\ Becomes(p, c)
      /\ UNCHANGED <<users, content, tokens, cache>>
  BY DEF Grant, At
<1>2. Counts /\ fresh \in 0 .. fresh' - 1 /\ fresh \notin DOMAIN dir
  BY <1>0, <1>1 DEF Counts, TypeOK, DirOK
<1>3. /\ DOMAIN dir' = DOMAIN dir \cup {fresh} /\ dir'[fresh] = b.rights
      /\ \A u \in DOMAIN dir : dir'[u] = dir[u]
  BY <1>0, <1>1, <1>2, EntryPut
<1>4. c \in Call
  BY <1>0, CallForms DEF Stage, MaybeId
<1>5. c.at = "link" /\ c.op = b.op /\ c.id = b.id /\ c.uuid = fresh /\ c.claims = b.claims
      /\ c.rights = b.rights
  BY <1>0 DEF Call
<1> HIDE DEF c, given
<1>6. /\ past'.given = given /\ past'.granted = past.granted /\ past'.read = past.read
      /\ past'.acked = past.acked /\ past'.undone = past.undone /\ past'.doomed = past.doomed
      /\ past'.rolledBack = past.rolledBack /\ past'.late = past.late
  BY <1>0, <1>1 DEF Past
<1>7. past.given \subseteq past'.given /\ <<b.id, b.rights>> \in past'.given
  BY <1>6 DEF given
<1> HIDE DEF b
<1>8. CallMove(b, c)
  BY <1>1, <1>3, <1>5 DEF CallMove, Leg, Carries
<1>9. UsersMove(b, c) /\ KnownMove(b, c)
  BY <1>1, <1>5, UsersStay, KnownStays
<1>10. DirMove(b, c)
  BY <1>1, <1>3, <1>7 DEF DirMove
<1>11. PastMove(b, c)
  BY <1>5, <1>6, <1>7 DEF PastMove, GrantedMove, ReadMove, Leg
<1>12. ContentMove(b, c)
  BY <1>1, <1>6, ContentStays
<1>13. QED
  BY <1>1, <1>4, <1>8, <1>9, <1>10, <1>11, <1>12, MovesBy DEF Effects, b

LEMMA GoesIs ==
  ASSUME TypeOK, NEW p \in Proc, NEW at \in Stage, Goes(p, at)
  PROVE  \E c \in Call : Becomes(p, c) /\ Stays(call[p], c) /\ c.at = at
<1> DEFINE b == call[p]
           c == [b EXCEPT !.at = at]
<1>1. b \in Call
  BY CallIs
<1>2. c \in Call
  BY <1>1, CallForms
<1>3. Stays(b, c) /\ c.at = at
  BY <1>1 DEF Stays, Carries, Call
<1>4. Becomes(p, c)
  BY DEF Goes
<1> HIDE DEF c
<1>5. QED
  BY <1>2, <1>3, <1>4

LEMMA FailsToIs ==
  ASSUME TypeOK, NEW p \in Proc, NEW at \in Stage, FailsTo(p, at)
  PROVE  \E c \in Call : Becomes(p, c) /\ (c = NoCall \/ (Stays(call[p], c) /\ c.at = at))
<1>1. CASE Goes(p, at)
  BY <1>1, GoesIs
<1>2. CASE Returns(p)
  BY <1>2, NoCallIs DEF Returns
<1>3. QED
  BY <1>1, <1>2 DEF FailsTo

LEMMA GrantFailsMoves ==
  ASSUME TypeOK, NEW p \in Proc, GrantFails(p)
  PROVE  Moves(p)
<1> DEFINE b == call[p]
<1>0. b \in Call /\ fresh \in Nat /\ b.rights \in Rights
  BY CallIs
<1>1. /\ b.at = "grant" /\ fresh' = fresh + 1 /\ FailsTo(p, "undoRow")
      /\ dir' = dir \/ dir' = With(dir, fresh, b.rights)
      /\ UNCHANGED <<users, content, tokens, cache, past>>
  BY DEF GrantFails, At
<1>2. Counts /\ fresh \in 0 .. fresh' - 1 /\ fresh \notin DOMAIN dir
  BY <1>0, <1>1 DEF Counts, TypeOK, DirOK
<1>3. PICK c \in Call : Becomes(p, c) /\ (c = NoCall \/ (Stays(b, c) /\ c.at = "undoRow"))
  BY <1>1, FailsToIs DEF Stage
<1>4. c.at \in {"idle", "undoRow"}
  BY <1>3, NoCallIs
<1>5. DirMove(b, c)
  <2>1. CASE dir' = With(dir, fresh, b.rights)
    <3>1. /\ DOMAIN dir' = DOMAIN dir \cup {fresh} /\ dir'[fresh] = b.rights
          /\ \A u \in DOMAIN dir : dir'[u] = dir[u]
      BY <1>0, <1>2, <2>1, EntryPut
    <3>2. QED
      BY <1>1, <1>4, <3>1 DEF DirMove
  <2>2. CASE dir' = dir
    BY <2>2 DEF DirMove
  <2>3. QED
    BY <1>1, <2>1, <2>2
<1>6. CallMove(b, c)
  BY <1>1, <1>3 DEF CallMove, Onward, Leg
<1>7. PastMove(b, c)
  BY <1>1, <1>4, PastStays DEF Leg
<1>8. UsersMove(b, c) /\ ContentMove(b, c) /\ KnownMove(b, c)
  BY <1>1, <1>4, <1>7, UsersStay, ContentStays, KnownStays
<1>9. QED
  BY <1>3, <1>5, <1>6, <1>7, <1>8, MovesBy DEF Effects

LEMMA LinkMoves ==
  ASSUME TypeOK, NEW p \in Proc, Link(p)
  PROVE  Moves(p)
<1> DEFINE b == call[p]
<1>0. b \in Call /\ Shape(b) /\ b.rights \in Rights /\ past \in Past /\ past.granted \in Maps
  BY CallIs, PastIs
<1>1. /\ b.at = "link" /\ b.id \in DOMAIN users /\ users' = Linked(p)
      /\ UNCHANGED <<dir, content, fresh, tokens, cache>>
  BY DEF Link, At
<1>2. /\ DOMAIN users' = DOMAIN users /\ users'[b.id].uuid = b.uuid
      /\ \A i \in DOMAIN users : i # b.id => users'[i] = users[i]
  BY <1>1, LinkedIs DEF Counts
<1>3. \A c : (c.at # "link" => UsersMove(b, c)) /\ DirMove(b, c) /\ KnownMove(b, c)
  BY <1>1, <1>2 DEF UsersMove, DirMove, KnownMove
<1>4. CASE past' = past /\ (Goes(p, "mail") \/ Goes(p, "issue"))
  <2>1. PICK c \in Call : Becomes(p, c) /\ Stays(b, c) /\ c.at \in {"mail", "issue"}
    BY <1>4, GoesIs DEF Stage
  <2>2. CallMove(b, c)
    BY <1>1, <2>1 DEF CallMove, Onward, Leg
  <2>3. PastMove(b, c)
    BY <1>4, <2>1, PastStays DEF Leg
  <2>4. ContentMove(b, c)
    BY <1>1, <2>3, ContentStays
  <2>5. QED
    BY <1>3, <2>1, <2>2, <2>3, <2>4, MovesBy DEF Effects
<1>5. CASE b.op = "assign" /\ Returns(p) /\ Acknowledge(p)
  <2> DEFINE g == With(past.granted, b.id, b.rights)
             c == NoCall
  <2>1. past' = [past EXCEPT !.granted = g] /\ Becomes(p, c)
    BY <1>5 DEF Acknowledge, Returns
  <2>2. /\ DOMAIN g = DOMAIN past.granted \cup {b.id} /\ g[b.id] = b.rights
        /\ \A i \in DOMAIN past.granted : i # b.id => g[i] = past.granted[i]
    BY <1>0 DEF With
  <2> HIDE DEF g
  <2>3. /\ past'.given = past.given /\ past'.granted = g /\ past'.read = past.read
        /\ past'.acked = past.acked /\ past'.undone = past.undone /\ past'.doomed = past.doomed
        /\ past'.rolledBack = past.rolledBack /\ past'.late = past.late
    BY <1>0, <2>1 DEF Past
  <2>4. c \in Call /\ c.at = "idle" /\ CallMove(b, c)
    BY NoCallIs DEF CallMove
  <2>5. GrantedMove(b, c)
    BY <1>1, <1>2, <2>2, <2>3 DEF GrantedMove
  <2>6. PastMove(b, c)
    BY <2>3, <2>4, <2>5 DEF PastMove, ReadMove, Leg
  <2>7. ContentMove(b, c)
    BY <1>1, <2>3, ContentStays
  <2> HIDE DEF c
  <2>8. QED
    BY <1>3, <2>1, <2>4, <2>6, <2>7, MovesBy DEF Effects
<1>6. QED
  BY <1>4, <1>5 DEF Link

LEMMA LinkFailsMoves ==
  ASSUME TypeOK, NEW p \in Proc, LinkFails(p)
  PROVE  Moves(p)
<1> DEFINE b == call[p]
<1>1. /\ b.at = "link" /\ FailsTo(p, "undoEntry")
      /\ UNCHANGED <<dir, content, fresh, tokens, cache, past>>
      /\ users' = users \/ (b.id \in DOMAIN users /\ users' = Linked(p))
  BY DEF LinkFails, At
<1>2. PICK c \in Call : Becomes(p, c) /\ (c = NoCall \/ (Stays(b, c) /\ c.at = "undoEntry"))
  BY <1>1, FailsToIs DEF Stage
<1>3. c.at \in {"idle", "undoEntry"}
  BY <1>2, NoCallIs
<1>4. UsersMove(b, c)
  <2>1. CASE b.id \in DOMAIN users /\ users' = Linked(p)
    <3>1. /\ DOMAIN users' = DOMAIN users /\ users'[b.id].uuid = b.uuid
          /\ \A i \in DOMAIN users : i # b.id => users'[i] = users[i]
      BY <1>1, <2>1, LinkedIs DEF Counts
    <3>2. QED
      BY <1>1, <1>3, <2>1, <3>1 DEF UsersMove
  <2>2. CASE users' = users
    BY <1>3, <2>2, UsersStay
  <2>3. QED
    BY <1>1, <2>1, <2>2
<1>5. CallMove(b, c) /\ DirMove(b, c)
  BY <1>1, <1>2 DEF CallMove, Onward, Leg, DirMove
<1>6. PastMove(b, c)
  BY <1>1, <1>3, PastStays DEF Leg
<1>7. ContentMove(b, c) /\ KnownMove(b, c)
  BY <1>1, <1>6, ContentStays, KnownStays
<1>8. QED
  BY <1>2, <1>4, <1>5, <1>6, <1>7, MovesBy DEF Effects

LEMMA MailMoves ==
  ASSUME TypeOK, NEW p \in Proc, Mail(p) \/ MailFails(p)
  PROVE  Moves(p)
<1> DEFINE b == call[p]
<1>0. past \in Past
  BY PastIs
<1>1. UNCHANGED <<users, dir, content, tokens, cache>> /\ b.at = "mail"
  BY DEF Mail, MailFails, At
<1>2. \A c : UsersMove(b, c) /\ DirMove(b, c) /\ KnownMove(b, c)
  BY <1>1, UsersStay, KnownStays DEF DirMove
<1>3. CASE Mail(p)
  <2> DEFINE a == past.acked \cup {b.id}
             c == NoCall
  <2>1. past' = [past EXCEPT !.acked = a] /\ Becomes(p, c)
    BY <1>3 DEF Mail, Returns
  <2> HIDE DEF a
  <2>2. /\ past'.given = past.given /\ past'.granted = past.granted /\ past'.read = past.read
        /\ past'.acked = a /\ past'.undone = past.undone /\ past'.doomed = past.doomed
        /\ past'.rolledBack = past.rolledBack /\ past'.late = past.late
    BY <1>0, <2>1 DEF Past
  <2>3. c \in Call /\ c.at = "idle" /\ CallMove(b, c)
    BY NoCallIs DEF CallMove
  <2>4. PastMove(b, c)
    BY <1>1, <2>2, <2>3 DEF PastMove, GrantedMove, ReadMove, Leg, a
  <2>5. ContentMove(b, c)
    BY <1>1, <2>2, ContentStays
  <2> HIDE DEF c
  <2>6. QED
    BY <1>2, <2>1, <2>3, <2>4, <2>5, MovesBy DEF Effects
<1>4. CASE MailFails(p)
  <2>1. Goes(p, "undoEntry") /\ past' = past
    BY <1>4 DEF MailFails
  <2>2. PICK c \in Call : Becomes(p, c) /\ Stays(b, c) /\ c.at = "undoEntry"
    BY <2>1, GoesIs DEF Stage
  <2>3. CallMove(b, c)
    BY <1>1, <2>2 DEF CallMove, Onward, Leg
  <2>4. PastMove(b, c)
    BY <1>1, <2>1, PastStays DEF Leg
  <2>5. ContentMove(b, c)
    BY <1>1, <2>4, ContentStays
  <2>6. QED
    BY <1>2, <2>2, <2>3, <2>4, <2>5, MovesBy DEF Effects
<1>5. QED
  BY <1>3, <1>4

LEMMA UndoEntryMoves ==
  ASSUME TypeOK, NEW p \in Proc, UndoEntry(p)
  PROVE  Moves(p)
<1> DEFINE b == call[p]
           e == [b EXCEPT !.at = "undoRow", !.clean = FALSE]
<1>0. b \in Call /\ b.at = "undoEntry" /\ "undoRow" \in Stage
  BY CallIs DEF UndoEntry, At, Stage
<1>1. UNCHANGED <<users, content, fresh, tokens, cache, past>> /\ Counts
  BY DEF UndoEntry, Counts
<1>2. \A c : UsersMove(b, c) /\ KnownMove(b, c) /\ PastMove(b, c) /\ ContentMove(b, c)
  BY <1>0, <1>1, UsersStay, KnownStays, PastStays, ContentStays DEF Leg
<1>3. CASE dir' = Without(dir, b.uuid) /\ Goes(p, "undoRow")
  <2>1. DOMAIN dir' = DOMAIN dir \ {b.uuid} /\ \A u \in DOMAIN dir' : dir'[u] = dir[u]
    BY <1>1, <1>3, EntryRemoved
  <2>2. PICK c \in Call : Becomes(p, c) /\ Stays(b, c) /\ c.at = "undoRow"
    BY <1>0, <1>3, GoesIs
  <2>3. CallMove(b, c) /\ DirMove(b, c)
    BY <1>0, <2>1, <2>2 DEF CallMove, Onward, Leg, DirMove
  <2>4. QED
    BY <1>2, <2>2, <2>3, MovesBy DEF Effects
<1>4. CASE dir' = dir /\ Becomes(p, e)
  <2>1. e \in Call
    BY <1>0, CallForms
  <2>2. e.at = "undoRow" /\ Carries(b, e) /\ e.uuid = b.uuid /\ ~e.clean
    BY <1>0 DEF Carries, Call
  <2> HIDE DEF e
  <2>3. CallMove(b, e) /\ DirMove(b, e)
    BY <1>0, <1>4, <2>2 DEF CallMove, Leg, DirMove
  <2>4. QED
    BY <1>2, <1>4, <2>1, <2>3, MovesBy DEF Effects
<1>5. QED
  BY <1>3, <1>4 DEF UndoEntry

LEMMA UndoRowMoves ==
  ASSUME TypeOK, NEW p \in Proc, UndoRow(p)
  PROVE  Moves(p)
<1> DEFINE b == call[p]
           f == [id |-> b.id, uuid |-> b.uuid]
           u == past.undone \cup {g \in {f} : b.clean}
           A == past.rolledBack \cup {b.id}
           c == NoCall
<1>0. b.at = "undoRow" /\ past \in Past
  BY PastIs DEF UndoRow, At
<1>1. UNCHANGED <<dir, content, fresh, tokens, cache>> /\ Counts /\ Becomes(p, c)
  BY DEF UndoRow, Counts, Returns
<1>2. c \in Call /\ c.at = "idle" /\ CallMove(b, c)
  BY NoCallIs DEF CallMove
<1>3. \/ users' = Without(users, b.id) /\ past' = [past EXCEPT !.rolledBack = A, !.undone = u]
      \/ users' = users /\ past' = past
  BY DEF UndoRow
<1>4. UsersMove(b, c) /\ PastMove(b, c)
  <2>1. CASE users' = users /\ past' = past
    BY <1>0, <1>2, <2>1, UsersStay, PastStays DEF Leg
  <2>2. CASE users' = Without(users, b.id) /\ past' = [past EXCEPT !.rolledBack = A, !.undone = u]
    <3>1. DOMAIN users' = DOMAIN users \ {b.id} /\ \A i \in DOMAIN users' : users'[i] = users[i]
      BY <2>2, <1>1, RowRemoved
    <3>2. u = past.undone \/ (b.clean /\ u = past.undone \cup {f})
      OBVIOUS
    <3>3. past.rolledBack \subseteq A /\ b.id \in A
      OBVIOUS
    <3> HIDE DEF u, A, f
    <3>4. /\ past'.given = past.given /\ past'.granted = past.granted /\ past'.read = past.read
          /\ past'.acked = past.acked /\ past'.undone = u /\ past'.doomed = past.doomed
          /\ past'.rolledBack = A /\ past'.late = past.late
      BY <1>0, <2>2 DEF Past
    <3>5. UsersMove(b, c)
      BY <1>0, <1>2, <3>1, <3>3, <3>4 DEF UsersMove
    <3>6. PastMove(b, c)
      BY <1>0, <1>2, <3>1, <3>2, <3>3, <3>4 DEF PastMove, GrantedMove, ReadMove, Leg, f
    <3>7. QED
      BY <3>5, <3>6
  <2>3. QED
    BY <1>3, <2>1, <2>2
<1>5. DirMove(b, c) /\ ContentMove(b, c) /\ KnownMove(b, c)
  BY <1>0, <1>1, ContentStays, KnownStays DEF DirMove
<1> HIDE DEF c
<1>6. QED
  BY <1>1, <1>2, <1>4, <1>5, MovesBy DEF Effects

LEMMA CreateFromGoogleMoves ==
  ASSUME TypeOK, NEW p \in Proc, CreateFromGoogle(p)
  PROVE  Moves(p)
<1> DEFINE b == call[p]
           c == [b EXCEPT !.at = "grant", !.id = fresh]
<1>0. /\ b \in Call /\ Shape(b) /\ fresh \in Nat /\ b.at = "insert" /\ b.email \in Email \cup {None}
  BY CallIs DEF CreateFromGoogle, At, Call
<1>1. UNCHANGED <<dir, content, tokens, cache, past>>
  BY DEF CreateFromGoogle
<1>2. b.op = "google" /\ b.uuid = None
  BY <1>0 DEF Shape
<1>3. CASE /\ users' = With(users, fresh, [email |-> b.email, pending |-> FALSE, uuid |-> None])
           /\ fresh' = fresh + 1 /\ Becomes(p, c)
  <2>1. /\ DOMAIN users' = DOMAIN users \cup {fresh} /\ users'[fresh].uuid = None
        /\ \A i \in DOMAIN users : users'[i] = users[i]
    BY <1>0, <1>3, RowAdded
  <2>2. c \in Call
    BY <1>0, CallForms DEF Stage, MaybeId
  <2>3. c.at = "grant" /\ c.op = b.op /\ c.id = fresh /\ c.uuid = b.uuid
    BY <1>0 DEF Call
  <2> HIDE DEF c
  <2>4. CallMove(b, c) /\ UsersMove(b, c) /\ DirMove(b, c)
    BY <1>0, <1>1, <1>2, <2>1, <2>3 DEF CallMove, Entering, UsersMove, DirMove
  <2>5. PastMove(b, c)
    BY <1>0, <1>1, PastStays DEF Leg
  <2>6. ContentMove(b, c) /\ KnownMove(b, c)
    BY <1>0, <1>1, <2>5, ContentStays, KnownStays
  <2>7. QED
    BY <1>3, <2>2, <2>4, <2>5, <2>6, MovesBy DEF Effects
<1>4. CASE Goes(p, "reread") /\ UNCHANGED <<users, fresh>> /\ UNCHANGED mailed
  <2>1. PICK d \in Call : Becomes(p, d) /\ Stays(b, d) /\ d.at = "reread"
    BY <1>4, GoesIs DEF Stage
  <2>2. CallMove(b, d)
    BY <1>0, <2>1 DEF CallMove, Onward, Leg
  <2>3. Same
    BY <1>1, <1>4 DEF Same, data
  <2>4. QED
    BY <1>0, <2>1, <2>2, <2>3, QuietMoves DEF Leg
<1>5. QED
  BY <1>3, <1>4 DEF CreateFromGoogle

LEMMA RereadMoves ==
  ASSUME TypeOK, NEW p \in Proc, Reread(p)
  PROVE  Moves(p)
<1> DEFINE b == call[p]
<1>0. /\ b \in Call /\ Shape(b) /\ b.at = "reread" /\ UsersOK /\ Same
  BY CallIs DEF Reread, At, TypeOK, Same
<1>2. b.op = "google" /\ b.uuid = None
  BY <1>0 DEF Shape
<1>3. CASE Returns(p)
  BY <1>0, <1>3, NoCallIs, QuietMoves DEF Returns, CallMove, Leg
<1>4. ASSUME NEW i \in DOMAIN users, Becomes(p, SigningIn("google", i))
      PROVE  Moves(p)
  <2> DEFINE u == users[i].uuid
             c == [NoCall EXCEPT !.op = "google", !.at = "issue", !.id = i, !.uuid = u]
  <2>1. i \in MaybeId /\ u \in MaybeId /\ "google" \in Op /\ "issue" \in Stage
    BY <1>0 DEF UsersOK, Row, MaybeId, Op, Stage
  <2>2. Becomes(p, c)
    BY <1>4 DEF SigningIn
  <2> HIDE DEF u
  <2>3. c \in Call
    BY <2>1, NewCallForms, Zenon
  <2>4. c.op = "google" /\ c.at = "issue" /\ c.id = i /\ c.uuid = u
    BY NoCallIs DEF Call
  <2> HIDE DEF c
  <2>5. CallMove(b, c)
    BY <2>4 DEF CallMove, Arrival, u
  <2>6. QED
    BY <1>0, <2>2, <2>3, <2>4, <2>5, QuietMoves DEF Leg
<1>5. ASSUME NEW i \in DOMAIN users, users[i].uuid = None, Becomes(p, [b EXCEPT !.at = "grant", !.id = i])
      PROVE  Moves(p)
  <2> DEFINE d == [b EXCEPT !.at = "grant", !.id = i]
  <2>1. i \in MaybeId /\ "grant" \in Stage
    BY <1>0 DEF UsersOK, MaybeId, Stage
  <2>2. d \in Call
    BY <1>0, <2>1, CallForms
  <2>3. d.op = b.op /\ d.at = "grant" /\ d.id = i /\ d.uuid = b.uuid
    BY <1>0 DEF Call
  <2>4. Becomes(p, d)
    BY <1>5
  <2> HIDE DEF d
  <2>5. CallMove(b, d)
    BY <1>2, <1>5, <2>3 DEF CallMove, Entering
  <2>6. QED
    BY <1>0, <2>2, <2>3, <2>4, <2>5, QuietMoves DEF Leg
<1>6. \/ Returns(p)
      \/ \E i \in DOMAIN users :
           \/ Becomes(p, SigningIn("google", i))
           \/ users[i].uuid = None /\ Becomes(p, [b EXCEPT !.at = "grant", !.id = i])
  BY DEF Reread, RowsOf
<1>7. QED
  BY <1>3, <1>4, <1>5, <1>6

LEMMA IssueTokenMoves ==
  ASSUME TypeOK, NEW p \in Proc, IssueToken(p)
  PROVE  Moves(p)
<1> DEFINE b == call[p]
           r == IF b.uuid \in DOMAIN dir THEN dir[b.uuid] ELSE NoRights
           c == NoCall
<1>0. b.at = "issue" /\ DirOK
  BY DEF IssueToken, At, TypeOK
<1>1. /\ UNCHANGED <<users, dir, content, cache, past>> /\ Becomes(p, c)
      /\ tokens' = tokens \cup {Claims(b.id, r)}
  BY DEF IssueToken, Returns
<1>2. r \in Rights /\ (r = NoRights \/ (b.uuid \in DOMAIN dir /\ r = dir[b.uuid]))
  BY <1>0, RightsAre DEF DirOK
<1> HIDE DEF r
<1>3. KnownMove(b, c)
  BY <1>0, <1>1, <1>2 DEF KnownMove
<1>4. c \in Call /\ c.at = "idle" /\ CallMove(b, c) /\ DirMove(b, c)
  BY <1>1, NoCallIs DEF CallMove, DirMove
<1>5. PastMove(b, c)
  BY <1>0, <1>1, PastStays DEF Leg
<1>6. UsersMove(b, c) /\ ContentMove(b, c)
  BY <1>0, <1>1, <1>5, UsersStay, ContentStays
<1> HIDE DEF c
<1>7. QED
  BY <1>1, <1>3, <1>4, <1>5, <1>6, MovesBy DEF Effects

LEMMA ReadRowMoves ==
  ASSUME TypeOK, NEW p \in Proc, ReadRow(p)
  PROVE  Moves(p)
<1> DEFINE b == call[p]
           i == b.claims.sub
           u == users[i].uuid
           c == [b EXCEPT !.at = "entry", !.uuid = u]
<1>0. b \in Call /\ b.at = "row" /\ UsersOK /\ Same
  BY CallIs DEF ReadRow, At, TypeOK, Same
<1>1. \/ i \in DOMAIN users /\ Becomes(p, c)
      \/ Goes(p, "recall")
  BY DEF ReadRow, Caller
<1>2. CASE Goes(p, "recall")
  <2>1. PICK d \in Call : Becomes(p, d) /\ Stays(b, d) /\ d.at = "recall"
    BY <1>2, GoesIs DEF Stage
  <2>2. CallMove(b, d)
    BY <1>0, <2>1 DEF CallMove, Onward, Leg
  <2>3. QED
    BY <1>0, <2>1, <2>2, QuietMoves DEF Leg
<1>3. CASE i \in DOMAIN users /\ Becomes(p, c)
  <2>1. u \in MaybeId /\ "entry" \in Stage
    BY <1>0, <1>3 DEF UsersOK, Row, Stage
  <2> HIDE DEF u
  <2>2. c \in Call
    BY <1>0, <2>1, CallForms, Zenon
  <2>3. c.at = "entry" /\ c.uuid = u /\ Carries(b, c)
    BY <1>0 DEF Call, Carries
  <2> HIDE DEF c
  <2>4. CallMove(b, c)
    BY <1>0, <1>3, <2>3 DEF CallMove, Leg, u
  <2>5. QED
    BY <1>0, <1>3, <2>2, <2>3, <2>4, QuietMoves DEF Leg
<1>4. QED
  BY <1>1, <1>2, <1>3

LEMMA ReadEntryMoves ==
  ASSUME TypeOK, NEW p \in Proc, ReadEntry(p)
  PROVE  Moves(p)
<1> DEFINE b == call[p]
           i == b.claims.sub
           r == dir[b.uuid]
           c == [b EXCEPT !.at = "remember", !.seen = r]
           m == With(past.read, i, r)
<1>0. b \in Call /\ b.at = "entry" /\ DirOK /\ past \in Past /\ past.read \in Maps
  BY CallIs, PastIs DEF ReadEntry, At, TypeOK
<1>1. UNCHANGED data /\ UNCHANGED <<users, dir, tokens, cache, content>>
  BY DEF ReadEntry, data
<1>2. \/ b.uuid \in DOMAIN dir /\ Becomes(p, c) /\ past' = [past EXCEPT !.read = m]
      \/ Goes(p, "recall") /\ past' = past
  BY DEF ReadEntry, Caller
<1>3. CASE Goes(p, "recall") /\ past' = past
  <2>1. PICK d \in Call : Becomes(p, d) /\ Stays(b, d) /\ d.at = "recall"
    BY <1>3, GoesIs DEF Stage
  <2>2. CallMove(b, d) /\ Same
    BY <1>0, <1>1, <1>3, <2>1 DEF CallMove, Onward, Leg, Same
  <2>3. QED
    BY <1>0, <2>1, <2>2, QuietMoves DEF Leg
<1>4. CASE b.uuid \in DOMAIN dir /\ Becomes(p, c) /\ past' = [past EXCEPT !.read = m]
  <2>1. r \in Rights
    BY <1>0, <1>4 DEF DirOK
  <2>2. /\ DOMAIN m = DOMAIN past.read \cup {i} /\ m[i] = r
        /\ \A j \in DOMAIN past.read : j # i => m[j] = past.read[j]
    BY DEF With
  <2> HIDE DEF m, r
  <2>3. c \in Call
    <3>1. "remember" \in Stage
      BY DEF Stage
    <3>2. QED
      BY <1>0, <2>1, <3>1, CallForms, Zenon
  <2>4. c.at = "remember" /\ c.seen = r /\ Carries(b, c)
    BY <1>0 DEF Call, Carries
  <2>5. /\ past'.given = past.given /\ past'.granted = past.granted /\ past'.read = m
        /\ past'.acked = past.acked /\ past'.undone = past.undone /\ past'.doomed = past.doomed
        /\ past'.rolledBack = past.rolledBack /\ past'.late = past.late
    BY <1>0, <1>4 DEF Past
  <2> HIDE DEF c
  <2>6. CallMove(b, c)
    BY <1>0, <1>4, <2>4 DEF CallMove, Leg, r
  <2>7. ReadMove(b, c)
    BY <1>0, <2>2, <2>4, <2>5 DEF ReadMove, Leg
  <2>8. PastMove(b, c) /\ DirMove(b, c)
    BY <1>1, <2>5, <2>7 DEF PastMove, GrantedMove, DirMove
  <2>9. UsersMove(b, c) /\ ContentMove(b, c) /\ KnownMove(b, c)
    BY <1>0, <1>1, <2>5, UsersStay, ContentStays, KnownStays
  <2>10. QED
    BY <1>4, <2>3, <2>6, <2>8, <2>9, MovesBy DEF Effects
<1>5. QED
  BY <1>2, <1>3, <1>4

LEMMA RememberMoves ==
  ASSUME TypeOK, NEW p \in Proc, Remember(p)
  PROVE  Moves(p)
<1> DEFINE b == call[p]
           i == b.claims.sub
           t == Claims(i, b.seen)
           c == [b EXCEPT !.at = "handle", !.claims = t]
<1>0. b \in Call /\ b.at = "remember" /\ b.seen \in Rights /\ i \in MaybeId
  BY CallIs DEF Remember, At, Claim
<1>1. /\ UNCHANGED <<users, dir, tokens, content, past>>
      /\ Becomes(p, c) /\ cache' = Remembered(i, b.seen)
  BY DEF Remember, Caller
<1>2. t \in Claim /\ t.sub = i /\ RightsOf(t) = b.seen
  BY <1>0, ClaimsAre
<1> HIDE DEF t
<1>3. c \in Call
  <2>1. "handle" \in Stage
    BY DEF Stage
  <2>2. QED
    BY <1>0, <1>2, <2>1, CallForms, Zenon
<1>4. c.op = b.op /\ c.at = "handle" /\ c.id = b.id /\ c.claims = t
  BY <1>0 DEF Call
<1> HIDE DEF c
<1>5. CallMove(b, c) /\ DirMove(b, c)
  BY <1>0, <1>1, <1>2, <1>4 DEF CallMove, Decided, DirMove
<1>6. KnownMove(b, c)
  BY <1>0, <1>1, <1>4 DEF KnownMove
<1>7. PastMove(b, c)
  BY <1>0, <1>1, PastStays DEF Leg
<1>8. UsersMove(b, c) /\ ContentMove(b, c)
  BY <1>0, <1>1, <1>7, UsersStay, ContentStays
<1>9. QED
  BY <1>1, <1>3, <1>5, <1>6, <1>7, <1>8, MovesBy DEF Effects

LEMMA RecallMoves ==
  ASSUME TypeOK, NEW p \in Proc, Recall(p)
  PROVE  Moves(p)
<1> DEFINE b == call[p]
           i == b.claims.sub
<1>0. b \in Call /\ b.at = "recall" /\ CacheOK /\ b.claims \in Claim /\ i \in MaybeId /\ Same
  BY CallIs DEF Recall, At, TypeOK, Claim, Same
<1>1. PICK r \in Rights :
        /\ Becomes(p, [b EXCEPT !.at = "handle", !.claims = Claims(i, r)])
        /\ \/ \E k \in DOMAIN cache : cache[k].id = i /\ r = cache[k].rights
           \/ r = RightsOf(b.claims)
  <2>1. \A k \in DOMAIN cache : cache[k].rights \in Rights
    BY <1>0, EntryIs
  <2>2. RightsOf(b.claims) \in Rights
    BY <1>0, RightsOfType
  <2>3. \/ \E k \in DOMAIN cache :
             /\ cache[k].id = i
             /\ Becomes(p, [b EXCEPT !.at = "handle", !.claims = Claims(i, cache[k].rights)])
        \/ Becomes(p, [b EXCEPT !.at = "handle", !.claims = Claims(i, RightsOf(b.claims))])
    BY DEF Recall, Caller, Cached
  <2>4. QED
    BY <2>1, <2>2, <2>3
<1> DEFINE t == Claims(i, r)
           c == [b EXCEPT !.at = "handle", !.claims = t]
<1>2. t \in Claim /\ t.sub = i /\ RightsOf(t) = r
  BY <1>0, ClaimsAre
<1>3. Becomes(p, c)
  BY <1>1
<1> HIDE DEF t
<1>4. c \in Call
  <2>1. "handle" \in Stage
    BY DEF Stage
  <2>2. QED
    BY <1>0, <1>2, <2>1, CallForms, Zenon
<1>5. c.op = b.op /\ c.at = "handle" /\ c.id = b.id /\ c.claims = t
  BY <1>0 DEF Call
<1> HIDE DEF c
<1>6. CallMove(b, c)
  BY <1>0, <1>1, <1>2, <1>5 DEF CallMove, Decided
<1>7. QED
  BY <1>0, <1>3, <1>4, <1>5, <1>6, QuietMoves DEF Leg

LEMMA CastVoteMoves ==
  ASSUME TypeOK, NEW p \in Proc, CastVote(p)
  PROVE  Moves(p)
<1> DEFINE b == call[p]
           i == b.claims.sub
           A == past.late \cup {i}
           c == NoCall
<1>0. b.at = "handle" /\ past \in Past
  BY PastIs DEF CastVote, At
<1>1. UNCHANGED <<users, dir, tokens, cache>> /\ Becomes(p, c)
  BY DEF CastVote, Returns
<1>2. c \in Call /\ CallMove(b, c) /\ DirMove(b, c)
  BY <1>1, NoCallIs DEF CallMove, DirMove
<1>3. UsersMove(b, c) /\ KnownMove(b, c)
  BY <1>0, <1>1, UsersStay, KnownStays
<1>4. /\ past'.given = past.given /\ past'.granted = past.granted /\ past'.read = past.read
      /\ past'.acked = past.acked /\ past'.undone = past.undone /\ past'.doomed = past.doomed
      /\ past'.rolledBack = past.rolledBack /\ past.late \subseteq past'.late
      /\ past' # past => i \in past'.late
  <2>1. past' = past \/ past' = [past EXCEPT !.late = A]
    BY DEF CastVote, Caller
  <2>2. past.late \subseteq A /\ i \in A
    OBVIOUS
  <2> HIDE DEF A, i
  <2>3. QED
    BY <1>0, <2>1, <2>2 DEF Past
<1>5. PastMove(b, c)
  BY <1>0, <1>4 DEF PastMove, GrantedMove, ReadMove, Leg
<1>6. \/ content' = content
      \/ /\ content' = content \cup {i}
         /\ IF i \notin DOMAIN users \/ Purged(i)
              THEN past' = [past EXCEPT !.late = A] ELSE past' = past
  BY DEF CastVote, Caller
<1>7. ~Purged(i) => \A q \in Proc : ~(call[q].at = "dropRow" /\ call[q].id = i)
  BY DEF Purged, At
<1>8. ContentMove(b, c)
  <2>1. CASE content' = content
    BY <1>4, <2>1, ContentStays
  <2>2. CASE content' = content \cup {i} /\ past' = [past EXCEPT !.late = A]
    <3>1. i \in past'.late
      BY <1>0, <2>2 DEF Past
    <3>2. QED
      BY <1>0, <1>1, <1>4, <2>2, <3>1 DEF ContentMove
  <2>3. CASE content' = content \cup {i} /\ i \in DOMAIN users /\ ~Purged(i)
    BY <1>0, <1>1, <1>4, <1>7, <2>3 DEF ContentMove
  <2>4. QED
    BY <1>6, <2>1, <2>2, <2>3
<1> HIDE DEF c
<1>9. QED
  BY <1>1, <1>2, <1>3, <1>5, <1>8, MovesBy DEF Effects

LEMMA ReturnsMoves ==
  ASSUME TypeOK, NEW p \in Proc, Refused(p) \/ GivesUp(p)
  PROVE  Moves(p)
<1>1. Same /\ Becomes(p, NoCall)
  BY DEF Refused, GivesUp, Same, Returns
<1>2. call[p].at # "remember"
  BY DEF Refused, GivesUp, At
<1>3. QED
  BY <1>1, <1>2, NoCallIs, QuietMoves DEF CallMove, Leg

LEMMA DisconnectMoves ==
  ASSUME TypeOK, NEW p \in Proc, Disconnect(p)
  PROVE  Moves(p)
<1> DEFINE b == call[p]
           c == [b EXCEPT !.gone = TRUE]
<1>0. b \in Call
  BY CallIs
<1>1. Same /\ Becomes(p, c)
  BY DEF Disconnect, Same
<1>2. c \in Call
  BY <1>0, CallForms DEF Call
<1>3. Stays(b, c) /\ c.at = b.at
  BY <1>0 DEF Stays, Carries, Call
<1> HIDE DEF c
<1>4. CallMove(b, c)
  BY <1>3 DEF CallMove, Onward
<1>5. QED
  BY <1>1, <1>2, <1>3, <1>4, QuietMoves DEF Leg

LEMMA AssignMoves ==
  ASSUME TypeOK, NEW p \in Proc, Assign(p)
  PROVE  Moves(p)
<1> DEFINE b == call[p]
           u == users[b.id].uuid
           at == IF u = None THEN "grant" ELSE "update"
           c == [b EXCEPT !.at = at, !.uuid = u]
           M == Without(past.granted, b.id)
<1>0. /\ b \in Call /\ b.at = "handle" /\ UsersOK /\ b.id \in DOMAIN users /\ past \in Past
      /\ b.op = "assign"
  BY CallIs, PastIs DEF Assign, At, TypeOK
<1>1. UNCHANGED <<users, dir, tokens, cache, content>> /\ Becomes(p, c) /\ past' = [past EXCEPT !.granted = M]
  BY DEF Assign, data
<1>2. u \in MaybeId /\ at \in Stage /\ at \in {"grant", "update"}
  BY <1>0 DEF UsersOK, Row, Stage
<1>3. /\ DOMAIN M = DOMAIN past.granted \ {b.id}
      /\ \A i \in DOMAIN M : M[i] = past.granted[i]
  BY DEF Without
<1> HIDE DEF u, at, M
<1>4. c \in Call
  BY <1>0, <1>2, CallForms, Zenon
<1>5. c.at = at /\ c.uuid = u /\ Carries(b, c)
  BY <1>0 DEF Carries, Call
<1>6. /\ past'.given = past.given /\ past'.granted = M /\ past'.read = past.read
      /\ past'.acked = past.acked /\ past'.undone = past.undone /\ past'.doomed = past.doomed
      /\ past'.rolledBack = past.rolledBack /\ past'.late = past.late
  BY <1>0, <1>1 DEF Past
<1> HIDE DEF c
<1>7. CallMove(b, c)
  BY <1>0, <1>2, <1>3, <1>5, <1>6 DEF CallMove, Taking, Carries, u
<1>8. PastMove(b, c)
  BY <1>0, <1>3, <1>6 DEF PastMove, GrantedMove, ReadMove, Leg
<1>9. UsersMove(b, c) /\ DirMove(b, c) /\ ContentMove(b, c) /\ KnownMove(b, c)
  BY <1>0, <1>1, <1>6, UsersStay, ContentStays, KnownStays DEF DirMove
<1>10. QED
  BY <1>1, <1>4, <1>7, <1>8, <1>9, MovesBy DEF Effects

LEMMA DeleteMoves ==
  ASSUME TypeOK, NEW p \in Proc, Delete(p)
  PROVE  Moves(p)
<1> DEFINE b == call[p]
           u == users[b.id].uuid
           at == IF u = None THEN "purge" ELSE "unlink"
           c == [b EXCEPT !.at = at, !.uuid = u]
           A == past.doomed \cup {b.id}
<1>0. /\ b \in Call /\ b.at = "handle" /\ UsersOK /\ b.id \in DOMAIN users /\ past \in Past
      /\ b.op = "delete"
  BY CallIs, PastIs DEF Delete, At, TypeOK
<1>1. UNCHANGED <<users, dir, tokens, cache, content>> /\ Becomes(p, c) /\ past' = [past EXCEPT !.doomed = A]
  BY DEF Delete, data
<1>2. u \in MaybeId /\ at \in Stage /\ at \in {"purge", "unlink"}
  BY <1>0 DEF UsersOK, Row, Stage
<1>3. past.doomed \subseteq A /\ b.id \in A
  OBVIOUS
<1> HIDE DEF u, at, A
<1>4. c \in Call
  BY <1>0, <1>2, CallForms, Zenon
<1>5. c.at = at /\ c.uuid = u /\ Carries(b, c)
  BY <1>0 DEF Carries, Call
<1>6. /\ past'.given = past.given /\ past'.granted = past.granted /\ past'.read = past.read
      /\ past'.acked = past.acked /\ past'.undone = past.undone /\ past'.doomed = A
      /\ past'.rolledBack = past.rolledBack /\ past'.late = past.late
  BY <1>0, <1>1 DEF Past
<1> HIDE DEF c
<1>7. CallMove(b, c)
  BY <1>0, <1>2, <1>3, <1>5, <1>6 DEF CallMove, Taking, Carries, u
<1>8. PastMove(b, c)
  BY <1>0, <1>3, <1>6 DEF PastMove, GrantedMove, ReadMove, Leg
<1>9. UsersMove(b, c) /\ DirMove(b, c) /\ ContentMove(b, c) /\ KnownMove(b, c)
  BY <1>0, <1>1, <1>6, UsersStay, ContentStays, KnownStays DEF DirMove
<1>10. QED
  BY <1>1, <1>4, <1>7, <1>8, <1>9, MovesBy DEF Effects

LEMMA UpdateGetMoves ==
  ASSUME TypeOK, NEW p \in Proc, UpdateGet(p)
  PROVE  Moves(p)
<1> DEFINE b == call[p]
<1>0. b.at = "update" /\ Same /\ (Goes(p, "put") \/ Returns(p))
  BY DEF UpdateGet, At, Same
<1>1. CASE Goes(p, "put")
  <2>1. PICK d \in Call : Becomes(p, d) /\ Stays(b, d) /\ d.at = "put"
    BY <1>1, GoesIs DEF Stage
  <2>2. CallMove(b, d)
    BY <1>0, <2>1 DEF CallMove, Onward, Leg
  <2>3. QED
    BY <1>0, <2>1, <2>2, QuietMoves DEF Leg
<1>2. CASE Returns(p)
  BY <1>0, <1>2, NoCallIs, QuietMoves DEF Returns, CallMove, Leg
<1>3. QED
  BY <1>0, <1>1, <1>2

\* The update of an entry, acknowledged or not.
LEMMA UpdatePutMoves ==
  ASSUME TypeOK, NEW p \in Proc, UpdatePut(p) \/ UpdateFails(p)
  PROVE  Moves(p)
<1> DEFINE b == call[p]
           G == past.given \cup {<<b.id, b.rights>>}
           M == With(past.granted, b.id, b.rights)
           c == NoCall
<1>0. /\ b \in Call /\ Shape(b) /\ b.at = "put" /\ Issued(b.uuid) /\ b.rights \in Rights
      /\ fresh \in Nat /\ past \in Past
  BY CallIs, PastIs DEF UpdatePut, UpdateFails, At
<1>1. UNCHANGED <<users, tokens, cache, content, fresh>> /\ Counts /\ Becomes(p, c)
  BY DEF UpdatePut, UpdateFails, Counts, Returns
<1>2. b.uuid \in 0 .. fresh' - 1
  BY <1>0, <1>1, NoneAssumption DEF Shape, Issued
<1>3. c \in Call /\ CallMove(b, c)
  BY NoCallIs DEF CallMove
<1>4. UsersMove(b, c) /\ KnownMove(b, c)
  BY <1>0, <1>1, UsersStay, KnownStays
<1>5. CASE dir' = dir /\ past' = past
  BY <1>0, <1>1, <1>3, <1>4, <1>5, PastStays, ContentStays, MovesBy DEF Effects, DirMove, Leg
<1>6. CASE dir' = With(dir, b.uuid, b.rights) /\ (past' = Given(p) \/ UpdatePut(p))
  <2>1. /\ DOMAIN dir' = DOMAIN dir \cup {b.uuid} /\ dir'[b.uuid] = b.rights
        /\ \A v \in DOMAIN dir : v # b.uuid => dir'[v] = dir[v]
    BY <1>0, <1>1, <1>2, <1>6, EntryPut
  <2>2. /\ DOMAIN M = DOMAIN past.granted \cup {b.id} /\ M[b.id] = b.rights
        /\ \A i \in DOMAIN past.granted : i # b.id => M[i] = past.granted[i]
    BY DEF With
  <2>3. past.given \subseteq G /\ <<b.id, b.rights>> \in G
    OBVIOUS
  <2>4. Given(p) = [past EXCEPT !.given = G]
    BY DEF Given
  <2>5. UpdatePut(p) => past' = [Given(p) EXCEPT !.granted = With(Given(p).granted, b.id, b.rights)]
    BY DEF UpdatePut
  <2> DEFINE g == Given(p)
  <2> HIDE DEF G, M, b
  <2>6. /\ g.given = G /\ g.granted = past.granted /\ g.read = past.read
        /\ g.acked = past.acked /\ g.undone = past.undone /\ g.doomed = past.doomed
        /\ g.rolledBack = past.rolledBack /\ g.late = past.late /\ g \in Past
    <3>1. G \in SUBSET (Nat \X Rights)
      BY <1>0, PastIs DEF G, Shape, Writing, b
    <3>2. g \in Past
      BY <1>0, <2>4, <3>1, PastForms
    <3>3. QED
      BY <1>0, <2>4, <3>2 DEF Past
  <2>7. UpdatePut(p) => past' = [g EXCEPT !.granted = M]
    BY <2>5, <2>6 DEF M
  <2> HIDE DEF g
  <2>8. /\ past'.given = G /\ past'.read = past.read /\ past'.acked = past.acked
        /\ past'.undone = past.undone /\ past'.doomed = past.doomed
        /\ past'.rolledBack = past.rolledBack /\ past'.late = past.late
        /\ past'.granted = past.granted \/ past'.granted = M
    <3>1. CASE past' = g
      BY <2>6, <3>1
    <3>2. CASE past' = [g EXCEPT !.granted = M]
      BY <2>6, <3>2 DEF Past
    <3>3. QED
      BY <1>6, <2>7, <3>1, <3>2 DEF g
  <2>9. DirMove(b, c)
    BY <1>0, <2>1, <2>3, <2>8 DEF DirMove, b
  <2>10. GrantedMove(b, c)
    BY <1>0, <1>1, <2>1, <2>2, <2>8 DEF GrantedMove, b
  <2>11. PastMove(b, c) /\ ContentMove(b, c)
    BY <1>0, <1>1, <2>3, <2>8, <2>10, ContentStays DEF PastMove, ReadMove, Leg, b
  <2> HIDE DEF c
  <2>12. QED
    BY <1>1, <1>3, <1>4, <2>9, <2>11, MovesBy DEF Effects, b
<1>7. QED
  BY <1>5, <1>6 DEF UpdatePut, UpdateFails

LEMMA DeleteEntryMoves ==
  ASSUME TypeOK, NEW p \in Proc, DeleteEntry(p)
  PROVE  Moves(p)
<1> DEFINE b == call[p]
<1>0. /\ b.at = "unlink" /\ dir' = Without(dir, b.uuid) /\ Goes(p, "purge")
      /\ UNCHANGED <<users, content, fresh, tokens, cache, past>> /\ Counts
  BY DEF DeleteEntry, At, Counts
<1>1. DOMAIN dir' = DOMAIN dir \ {b.uuid} /\ \A u \in DOMAIN dir' : dir'[u] = dir[u]
  BY <1>0, EntryRemoved
<1>2. PICK c \in Call : Becomes(p, c) /\ Stays(b, c) /\ c.at = "purge"
  BY <1>0, GoesIs DEF Stage
<1>3. CallMove(b, c) /\ DirMove(b, c)
  BY <1>0, <1>1, <1>2 DEF CallMove, Onward, Leg, DirMove
<1>4. UsersMove(b, c) /\ KnownMove(b, c) /\ PastMove(b, c) /\ ContentMove(b, c)
  BY <1>0, UsersStay, KnownStays, PastStays, ContentStays DEF Leg
<1>5. QED
  BY <1>2, <1>3, <1>4, MovesBy DEF Effects

LEMMA PurgeMoves ==
  ASSUME TypeOK, NEW p \in Proc, Purge(p)
  PROVE  Moves(p)
<1> DEFINE b == call[p]
<1>0. /\ b.at = "purge" /\ content' = content \ {b.id} /\ Goes(p, "dropRow")
      /\ UNCHANGED <<users, dir, tokens, cache, past>>
  BY DEF Purge, At
<1>1. PICK c \in Call : Becomes(p, c) /\ Stays(b, c) /\ c.at = "dropRow"
  BY <1>0, GoesIs DEF Stage
<1>2. CallMove(b, c) /\ DirMove(b, c)
  BY <1>0, <1>1 DEF CallMove, Onward, Leg, DirMove
<1>3. ContentMove(b, c)
  BY <1>0 DEF ContentMove
<1>4. UsersMove(b, c) /\ KnownMove(b, c) /\ PastMove(b, c)
  BY <1>0, UsersStay, KnownStays, PastStays DEF Leg
<1>5. QED
  BY <1>1, <1>2, <1>3, <1>4, MovesBy DEF Effects

LEMMA DeleteRowMoves ==
  ASSUME TypeOK, NEW p \in Proc, DeleteRow(p)
  PROVE  Moves(p)
<1> DEFINE b == call[p]
           c == NoCall
<1>0. /\ b.at = "dropRow" /\ users' = Without(users, b.id) /\ Becomes(p, c)
      /\ UNCHANGED <<dir, content, fresh, tokens, cache, past>> /\ Counts
  BY DEF DeleteRow, At, Counts, Returns
<1>1. c \in Call /\ CallMove(b, c) /\ DirMove(b, c)
  BY <1>0, NoCallIs DEF CallMove, DirMove
<1>2. UsersMove(b, c)
  BY <1>0, RowRemoved DEF UsersMove
<1>3. KnownMove(b, c) /\ PastMove(b, c) /\ ContentMove(b, c)
  BY <1>0, KnownStays, PastStays, ContentStays DEF Leg
<1> HIDE DEF c
<1>4. QED
  BY <1>0, <1>1, <1>2, <1>3, MovesBy DEF Effects

\* Every step of a call is one of these.
LEMMA StepMoves ==
  ASSUME TypeOK, NEW p \in Proc, Calls(p) \/ Steps(p)
  PROVE  Moves(p)
<1>1. CASE Calls(p)
  BY <1>1, RegisterMoves, RegisterFailsMoves, ConfirmMoves, ArrivalMoves DEF Calls
<1>2. CASE Steps(p)
  BY <1>2, GrantMoves, GrantFailsMoves, LinkMoves, LinkFailsMoves, MailMoves, UndoEntryMoves,
     UndoRowMoves, CreateFromGoogleMoves, InsertFailsMoves, RereadMoves, IssueTokenMoves, ReadRowMoves,
     ReadEntryMoves, RememberMoves, RecallMoves, CastVoteMoves, ReturnsMoves, AssignMoves,
     UpdateGetMoves, UpdatePutMoves, DeleteMoves, DeleteEntryMoves, PurgeMoves, DeleteRowMoves,
     DisconnectMoves DEF Steps
<1>3. QED
  BY <1>1, <1>2

-----------------------------------------------------------------------------
(* Entries have one owner, and what is known of an account was given to it. *)

LEMMA HoldsMoves ==
  ASSUME NEW b, NEW c, Shape(b), CallMove(b, c), NEW i \in Nat, NEW u \in Nat, Holds(c, i, u)
  PROVE  \/ Holds(b, i, u)
         \/ i \in DOMAIN users /\ users[i].uuid = u
         \/ Leg(b, c, "grant", "link") /\ c.id = b.id /\ i = b.id /\ u = fresh
<1>0. c.at \in Holding \cup {"entry"} /\ c.uuid = u /\ u # None
  BY NoneAssumption DEF Holds
<1>1. CASE c = NoCall \/ Arrival(c) \/ Entering(c) \/ Decided(b, c)
  BY <1>0, <1>1, NoCallIs DEF Holds, Holding, Arrival, Entering, Decided
<1>2. CASE Stays(b, c) /\ Onward(b, c)
  <2>1. b.at = "grant" => b.uuid = None
    BY DEF Shape
  <2>2. QED
    BY <1>0, <1>2, <2>1 DEF Holds, Holding, Stays, Carries, Onward, Leg
<1>3. CASE Taking(b, c)
  BY <1>3 DEF Holds, Holding, Taking
<1>4. CASE \/ Leg(b, c, "undoEntry", "undoRow") /\ Carries(b, c) /\ c.uuid = b.uuid /\ ~c.clean
           \/ Leg(b, c, "grant", "link") /\ Carries(b, c) /\ c.uuid = fresh
           \/ Leg(b, c, "entry", "remember")
  BY <1>0, <1>4 DEF Holds, Holding, Leg, Carries
<1>5. CASE /\ Leg(b, c, "row", "entry") /\ Carries(b, c)
           /\ b.claims.sub \in DOMAIN users /\ c.uuid = users[b.claims.sub].uuid
  BY <1>0, <1>5 DEF Holds, Holding, Leg, Carries
<1>6. QED
  BY <1>1, <1>2, <1>3, <1>4, <1>5 DEF CallMove

\* Nobody comes to take an entry for an account's, but the call that makes it.
LEMMA RefMoves ==
  ASSUME TypeOK, NEW p \in Proc, Moves(p), NEW i \in Nat, NEW u \in Nat, Ref(i, u)'
  PROVE  \/ Ref(i, u)
         \/ Leg(call[p], call'[p], "grant", "link") /\ i = call[p].id /\ u = fresh
<1> DEFINE b == call[p]
           c == call'[p]
<1>0. /\ Shape(b) /\ CallMove(b, c) /\ UsersMove(b, c) /\ PastMove(b, c)
      /\ \A q \in Proc : q # p => call'[q] = call[q]
  BY CallIs DEF Moves, Effects
<1>1. CASE i \in DOMAIN users' /\ users'[i].uuid = u
  <2>1. u # None
    BY NoneAssumption
  <2>2. (i \in DOMAIN users /\ users[i].uuid = u) \/ Holds(b, i, u)
    BY <1>0, <1>1, <2>1 DEF UsersMove, Holds, Holding
  <2>3. QED
    BY <2>2 DEF Ref
<1>2. CASE [id |-> i, uuid |-> u] \in past'.undone
  <2>1. \/ past'.undone = past.undone
        \/ b.at = "undoRow" /\ past'.undone = past.undone \cup {[id |-> b.id, uuid |-> b.uuid]}
    BY <1>0 DEF PastMove
  <2>2. CASE b.at = "undoRow" /\ [id |-> i, uuid |-> u] = [id |-> b.id, uuid |-> b.uuid]
    <3>1. [id |-> i, uuid |-> u].id = [id |-> b.id, uuid |-> b.uuid].id
          /\ [id |-> i, uuid |-> u].uuid = [id |-> b.id, uuid |-> b.uuid].uuid
      BY <2>2
    <3>2. Holds(b, i, u)
      BY <2>2, <3>1 DEF Holds, Holding
    <3>3. QED
      BY <3>2 DEF Ref
  <2>3. QED
    BY <1>2, <2>1, <2>2 DEF Ref
<1>3. ASSUME NEW q \in Proc, Holds(call'[q], i, u)
      PROVE  Ref(i, u) \/ (Leg(b, c, "grant", "link") /\ i = b.id /\ u = fresh)
  <2>1. CASE q # p
    BY <1>0, <1>3, <2>1 DEF Ref
  <2>2. CASE q = p
    <3> HIDE DEF b, c
    <3>1. Holds(c, i, u)
      BY <1>3, <2>2 DEF c
    <3>2. Holds(b, i, u) => Ref(i, u)
      BY DEF Ref, b
    <3>3. QED
      BY <1>0, <3>1, <3>2, HoldsMoves DEF Ref
  <2>3. QED
    BY <2>1, <2>2
<1>4. \/ i \in DOMAIN users' /\ users'[i].uuid = u
      \/ [id |-> i, uuid |-> u] \in past'.undone
      \/ \E q \in Proc : Holds(call'[q], i, u)
  BY DEF Ref, Holds
<1>5. QED
  BY <1>1, <1>2, <1>3, <1>4

\* Entries that somebody knows have been made.
LEMMA RefIssued ==
  ASSUME TypeOK, NEW i \in Nat, NEW u \in Nat, Ref(i, u)
  PROVE  u \in 0 .. fresh - 1 /\ u # fresh
<1>1. Issued(u)
  <2>1. ASSUME NEW q \in Proc, Holds(call[q], i, u) PROVE Issued(u)
    BY <2>1, CallIs DEF Holds
  <2>2. CASE i \in DOMAIN users /\ users[i].uuid = u
    BY <2>2 DEF TypeOK, UsersOK
  <2>3. CASE [id |-> i, uuid |-> u] \in past.undone
    <3>1. \A f \in past.undone : Issued(f.uuid)
      BY DEF TypeOK, PastOK
    <3>2. QED
      BY <2>3, <3>1
  <2>4. QED
    BY <2>1, <2>2, <2>3 DEF Ref
<1>2. fresh \in Nat /\ u # None
  BY NoneAssumption DEF TypeOK
<1>3. QED
  BY <1>1, <1>2 DEF Issued

LEMMA OneOwnerKept ==
  ASSUME TypeOK, OneOwner, NEW p \in Proc, Moves(p)
  PROVE  OneOwner'
<1> SUFFICES ASSUME NEW u \in Nat, NEW i \in Nat, NEW j \in Nat, Ref(i, u)', Ref(j, u)'
             PROVE  i = j
  BY DEF OneOwner
<1>1. /\ Ref(i, u) \/ (i = call[p].id /\ u = fresh)
      /\ Ref(j, u) \/ (j = call[p].id /\ u = fresh)
  BY RefMoves
<1>2. (Ref(i, u) => u # fresh) /\ (Ref(j, u) => u # fresh)
  BY RefIssued
<1>3. QED
  BY <1>1, <1>2 DEF OneOwner

LEMMA EntriesGivenKept ==
  ASSUME TypeOK, Owners, NEW p \in Proc, Moves(p)
  PROVE  EntriesGiven'
<1> DEFINE b == call[p]
           c == call'[p]
<1>0. DirMove(b, c) /\ past.given \subseteq past'.given /\ Shape(b) /\ DirOK /\ fresh \in Nat
  BY CallIs DEF Moves, Effects, PastMove, TypeOK
<1> SUFFICES ASSUME NEW u \in DOMAIN dir', NEW i \in Nat, Ref(i, u)'
             PROVE  <<i, dir'[u]>> \in past'.given
  BY DEF EntriesGiven
<1>1. ASSUME u \in DOMAIN dir, dir'[u] = dir[u]
      PROVE  <<i, dir'[u]>> \in past'.given
  <2>1. u \in Nat /\ u # fresh
    BY <1>0, <1>1 DEF DirOK
  <2>2. Ref(i, u)
    BY <2>1, RefMoves
  <2>3. QED
    BY <1>0, <1>1, <2>2 DEF Owners, EntriesGiven
<1>2. CASE b.at = "grant" /\ u = fresh /\ dir'[fresh] = b.rights /\ (c.at = "link" => <<b.id, b.rights>> \in past'.given)
  <2>1. u \in Nat /\ ~Ref(i, u)
    BY <1>0, <1>2, RefIssued
  <2>2. c.at = "link" /\ i = b.id
    BY <2>1, RefMoves DEF Leg
  <2>3. QED
    BY <1>2, <2>2
<1>3. CASE b.at = "put" /\ u = b.uuid /\ dir'[u] = b.rights /\ <<b.id, b.rights>> \in past'.given
  <2>1. b.id \in Nat /\ b.uuid \in Nat
    BY <1>0, <1>3 DEF Shape, Writing
  <2>2. Ref(b.id, u)
    BY <1>3 DEF Ref, Holds, Holding
  <2>3. Ref(i, u)
    BY <1>3, <2>1, RefMoves DEF Leg
  <2>4. i = b.id
    BY <1>3, <2>1, <2>2, <2>3 DEF Owners, OneOwner
  <2>5. QED
    BY <1>3, <2>4
<1>4. QED
  BY <1>0, <1>1, <1>2, <1>3 DEF DirMove

\* What is known of an account after the step.
KnownNow(i, r) == r = NoRights \/ <<i, r>> \in past'.given

\* What a call holds the entry of was given to the account.
LEMMA HeldGiven ==
  ASSUME TypeOK, Owners, NEW q \in Proc, NEW i \in Nat, Holds(call[q], i, call[q].uuid),
         call[q].uuid \in DOMAIN dir
  PROVE  Known(i, dir[call[q].uuid])
<1>1. Ref(i, call[q].uuid)
  BY DEF Ref
<1>2. QED
  BY <1>1 DEF Owners, EntriesGiven, Known

LEMMA CallKnownMoves ==
  ASSUME TypeOK, Owners, Knowledge, NEW p \in Proc, Moves(p)
  PROVE  LET c == call'[p]
         IN  /\ c.at \in Deciding => KnownNow(c.claims.sub, RightsOf(c.claims))
             /\ c.at = "remember" => KnownNow(c.claims.sub, c.seen)
<1> DEFINE b == call[p]
           c == call'[p]
<1>0. /\ Shape(b) /\ b \in Call /\ b.claims \in Claim /\ CallMove(b, c) /\ past.given \subseteq past'.given
      /\ CallKnown(b) /\ \A t \in tokens : Known(t.sub, RightsOf(t))
      /\ \A k \in DOMAIN cache : Known(cache[k].id, cache[k].rights)
  BY CallIs DEF Moves, Effects, PastMove, Knowledge
<1>1. ASSUME NEW i, NEW r, Known(i, r) PROVE KnownNow(i, r)
  BY <1>0, <1>1 DEF Known, KnownNow
<1>2. b.at = "entry" /\ b.uuid \in DOMAIN dir => Known(b.claims.sub, dir[b.uuid])
  <2>1. b.at = "entry" => b.claims.sub \in Nat
    BY <1>0 DEF Shape, Deciding
  <2>2. QED
    BY <2>1, HeldGiven DEF Holds
<1> SUFFICES /\ c.at \in Deciding => KnownNow(c.claims.sub, RightsOf(c.claims))
             /\ c.at = "remember" => KnownNow(c.claims.sub, c.seen)
  OBVIOUS
<1> HIDE DEF b, c
<1>3. CASE c = NoCall \/ Entering(c) \/ Taking(b, c)
  BY <1>3, NoCallIs DEF Entering, Taking, Deciding
<1>4. CASE Arrival(c)
  BY <1>0, <1>1, <1>4 DEF Arrival, Deciding
<1>5. CASE Stays(b, c) /\ Onward(b, c)
  <2>1. c.claims = b.claims /\ c.seen = b.seen
    BY <1>5 DEF Stays, Carries
  <2>2. (c.at \in Deciding => b.at \in Deciding) /\ (c.at = "remember" => b.at = "remember")
    BY <1>5 DEF Onward, Leg, Deciding
  <2>3. QED
    BY <1>0, <1>1, <2>1, <2>2 DEF CallKnown
<1>6. CASE Leg(b, c, "undoEntry", "undoRow") \/ Leg(b, c, "grant", "link")
  BY <1>6 DEF Leg, Deciding
<1>7. CASE Leg(b, c, "row", "entry") /\ Carries(b, c)
  BY <1>0, <1>1, <1>7 DEF Leg, Deciding, Carries, CallKnown
<1>8. CASE Leg(b, c, "entry", "remember") /\ Carries(b, c) /\ b.uuid \in DOMAIN dir /\ c.seen = dir[b.uuid]
  BY <1>0, <1>1, <1>2, <1>8 DEF Leg, Deciding, Carries, CallKnown
<1>9. CASE Decided(b, c)
  <2>1. c.at = "handle" /\ c.claims.sub = b.claims.sub /\ b.at \in Deciding
    BY <1>9 DEF Decided, Deciding
  <2>2. Known(b.claims.sub, RightsOf(c.claims))
    BY <1>0, <1>9, <2>1 DEF Decided, CallKnown
  <2>3. QED
    BY <1>1, <2>1, <2>2
<1>10. QED
  BY <1>0, <1>3, <1>4, <1>5, <1>6, <1>7, <1>8, <1>9 DEF CallMove

LEMMA KnowledgeKept ==
  ASSUME TypeOK, Owners, Knowledge, NEW p \in Proc, Moves(p)
  PROVE  Knowledge'
<1> DEFINE b == call[p]
           c == call'[p]
<1>0. /\ Shape(b) /\ b \in Call /\ KnownMove(b, c) /\ past.given \subseteq past'.given /\ CallKnown(b)
      /\ b.seen \in Rights /\ CacheOK
      /\ \A q \in Proc : q # p => call'[q] = call[q]
  BY CallIs DEF Moves, Effects, PastMove, Knowledge, TypeOK
<1>1. ASSUME NEW i, NEW r, Known(i, r) PROVE KnownNow(i, r)
  BY <1>0, <1>1 DEF Known, KnownNow
<1>2. ASSUME NEW t \in tokens' PROVE KnownNow(t.sub, RightsOf(t))
  <2>1. CASE t \in tokens
    BY <1>1, <2>1 DEF Knowledge
  <2>2. ASSUME b.at = "issue", NEW r \in Rights, t = Claims(b.id, r),
               r = NoRights \/ (b.uuid \in DOMAIN dir /\ r = dir[b.uuid])
        PROVE  KnownNow(t.sub, RightsOf(t))
    <3>1. b.id \in Nat /\ b.id \in MaybeId
      BY <1>0, <2>2 DEF Shape, MaybeId
    <3>2. t.sub = b.id /\ RightsOf(t) = r
      BY <2>2, <3>1, ClaimsAre
    <3>3. Known(b.id, r)
      <4>1. CASE r = NoRights
        BY <4>1 DEF Known
      <4>2. CASE b.uuid \in DOMAIN dir /\ r = dir[b.uuid]
        BY <2>2, <3>1, <4>2, HeldGiven DEF Holds, Holding
      <4>3. QED
        BY <2>2, <4>1, <4>2
    <3>4. QED
      BY <1>1, <3>2, <3>3
  <2>3. QED
    BY <1>0, <2>1, <2>2 DEF KnownMove
<1>3. ASSUME NEW k \in DOMAIN cache' PROVE KnownNow(cache'[k].id, cache'[k].rights)
  <2>1. CASE cache' = cache
    BY <1>1, <2>1 DEF Knowledge
  <2>2. CASE b.at = "remember" /\ cache' = Remembered(b.claims.sub, b.seen)
    <3>1. b.claims.sub \in Nat /\ Known(b.claims.sub, b.seen)
      BY <1>0, <2>2 DEF Shape, Deciding, CallKnown
    <3> DEFINE n == Len(cache')
    <3>2. /\ cache' \in Seq(Kept) /\ n \in Nat \ {0} /\ cache'[n] = [id |-> b.claims.sub, rights |-> b.seen]
          /\ \A j \in 1 .. n - 1 : \E l \in DOMAIN cache : cache'[j] = cache[l]
      BY <1>0, <2>2, <3>1, RememberedIs
    <3>3. k = n \/ k \in 1 .. n - 1
      BY <3>2
    <3> HIDE DEF n
    <3>4. CASE k = n
      BY <1>1, <3>1, <3>2, <3>4
    <3>5. CASE k \in 1 .. n - 1
      BY <1>1, <3>2, <3>5 DEF Knowledge
    <3>6. QED
      BY <3>3, <3>4, <3>5
  <2>3. QED
    BY <1>0, <2>1, <2>2 DEF KnownMove
<1>4. ASSUME NEW q \in Proc PROVE CallKnown(call[q])'
  <2>1. CASE q = p
    BY <2>1, CallKnownMoves DEF CallKnown, Known, KnownNow
  <2>2. CASE q # p
    <3>1. call'[q] = call[q] /\ CallKnown(call[q])
      BY <1>0, <2>2 DEF Knowledge
    <3>2. QED
      BY <1>0, <3>1 DEF CallKnown, Known
  <2>3. QED
    BY <2>1, <2>2
<1>5. QED
  BY <1>2, <1>3, <1>4 DEF Knowledge, Known, KnownNow

-----------------------------------------------------------------------------
(* Who writes an account.                                                  *)

\* A call that writes an account after the step did so before, or has its row.
LEMMA WriterMoves ==
  ASSUME NEW b, NEW c, CallMove(b, c), Writes(c)
  PROVE  \/ Writes(b) /\ c.id = b.id
         \/ c.at = "grant" /\ c.id = fresh /\ fresh \in DOMAIN users'
         \/ c.at = "grant" /\ c.id \in DOMAIN users /\ users[c.id].uuid = None /\ Entering(c)
         \/ Taking(b, c) /\ c.id \in DOMAIN users
<1>1. CASE c = NoCall \/ Arrival(c) \/ Decided(b, c)
  BY <1>1, NoCallIs DEF Writes, Writing, Arrival, Decided
<1>2. CASE Stays(b, c) /\ Onward(b, c)
  BY <1>2 DEF Writes, Writing, Stays, Carries, Onward, Leg
<1>3. CASE Taking(b, c)
  BY <1>3 DEF Taking
<1>4. CASE \/ Leg(b, c, "undoEntry", "undoRow") /\ Carries(b, c)
           \/ Leg(b, c, "grant", "link") /\ Carries(b, c)
           \/ Leg(b, c, "entry", "remember") \/ Leg(b, c, "row", "entry")
  BY <1>4 DEF Writes, Writing, Leg, Carries
<1>5. CASE Entering(c)
  BY <1>5 DEF Entering
<1>6. QED
  BY <1>1, <1>2, <1>3, <1>4, <1>5 DEF CallMove

LEMMA TwoIn ==
  ASSUME NEW S, IsFiniteSet(S), NEW x \in S, NEW y \in S, x # y
  PROVE  Cardinality(S) > 1
<1>1. IsFiniteSet({x}) /\ Cardinality({x}) = 1
  BY FS_Singleton
<1>a. y \notin {x}
  OBVIOUS
<1>b. /\ IsFiniteSet({x} \cup {y})
      /\ Cardinality({x} \cup {y})
           = IF y \in {x} THEN Cardinality({x}) ELSE Cardinality({x}) + 1
  <2>1. IsFiniteSet({x})
    BY <1>1
  <2>2. QED
    BY ONLY <2>1, FS_AddElement, Zenon
<1>2. IsFiniteSet({x} \cup {y}) /\ Cardinality({x} \cup {y}) = 2
  BY <1>a, <1>b, <1>1
<1>3. {x} \cup {y} \subseteq S
  OBVIOUS
<1>4. Cardinality({x} \cup {y}) <= Cardinality(S) /\ Cardinality(S) \in Nat
  BY <1>3, FS_Subset, FS_CardinalityType
<1>5. QED
  BY <1>2, <1>4

\* Two calls that write an account at once are noticed.
LEMMA OneWriter ==
  ASSUME Observe, NEW i \in DOMAIN users', i \notin overlaps'.writes,
         NEW q \in Proc, Writes(call'[q]), call'[q].id = i,
         NEW r \in Proc, Writes(call'[r]), call'[r].id = i
  PROVE  q = r
<1> DEFINE W == {x \in Proc : call'[x].id = i /\ call'[x].at \in Writing}
<1>1. Writers(i)' = W
  BY DEF Writers, Writing
<1>2. W \subseteq Proc /\ q \in W /\ r \in W
  BY DEF Writes
<1>3. IsFiniteSet(W)
  BY <1>2, ProcAssumption, FS_Subset
<1>4. overlaps'.writes = overlaps.writes \cup {j \in DOMAIN users' : Cardinality(Writers(j)') > 1}
  BY DEF Observe
<1>5. ~(Cardinality(W) > 1)
  BY <1>1, <1>4
<1> HIDE DEF W
<1>6. QED
  BY <1>2, <1>3, <1>5, TwoIn

LEMMA AloneKept ==
  ASSUME TypeOK, TypeOK', Alone, NEW p \in Proc, Moves(p), Observe
  PROVE  Alone'
<1> DEFINE b == call[p]
           c == call'[p]
<1>0. /\ CallMove(b, c) /\ UsersMove(b, c)
      /\ \A q \in Proc : q # p => call'[q] = call[q]
      /\ overlaps.writes \subseteq overlaps'.writes
  BY ObserveType DEF Moves, Effects, TypeOK
<1>1. ASSUME NEW q \in Proc, Writes(call'[q]), call'[q].id \notin overlaps'.writes
      PROVE  call'[q].id \in DOMAIN users'
  <2> DEFINE i == call'[q].id
  <2>1. i \notin overlaps.writes
    BY <1>0, <1>1
  <2>2. CASE q # p
    <3>1. Writes(call[q]) /\ call[q].id = i
      BY <1>0, <1>1, <2>2
    <3>2. i \in DOMAIN users /\ ~(Writes(b) /\ b.id = i)
      BY <2>1, <2>2, <3>1 DEF Alone
    <3> HIDE DEF i, b, c
    <3>3. i \in DOMAIN users'
      BY <1>0, <3>2 DEF UsersMove, Writes, Writing
    <3>4. QED
      BY <3>3 DEF i
  <2>3. CASE q = p
    <3>1. i = c.id /\ Writes(c)
      BY <1>1, <2>3
    <3>2. Writes(b) /\ b.id = i => i \in DOMAIN users
      BY <2>1 DEF Alone
    <3> HIDE DEF i, b, c
    <3>3. c.at # "idle"
      BY <3>1 DEF Writes, Writing
    <3>4. DOMAIN users \subseteq DOMAIN users'
      BY <1>0, <3>3, NoCallIs DEF UsersMove
    <3>5. i \in DOMAIN users \/ i \in DOMAIN users'
      BY <1>0, <3>1, <3>2, WriterMoves
    <3>6. QED
      BY <3>4, <3>5 DEF i
  <2>4. QED
    BY <2>2, <2>3
<1>2. ASSUME NEW q \in Proc, Writes(call'[q]), call'[q].id \notin overlaps'.writes,
             NEW r \in Proc, Writes(call'[r]), call'[r].id = call'[q].id
      PROVE  r = q
  BY <1>1, <1>2, OneWriter
<1>3. QED
  BY <1>1, <1>2 DEF Alone, Writes

\* A call that registers did so before, or has just come with a new account.
LEMMA RegisterMoved ==
  ASSUME NEW b, NEW c, CallMove(b, c), Registers(c)
  PROVE  \/ Registers(b) /\ c.id = b.id
         \/ c.at = "grant" /\ c.id = fresh
BY NoCallIs DEF CallMove, Registers, Arrival, Stays, Carries, Entering, Decided, Taking

\* Identifiers that are given out are not the next one.
LEMMA NotFresh ==
  ASSUME TypeOK, NEW x, Issued(x), x # None
  PROVE  x # fresh /\ x \in Nat
BY DEF TypeOK, Issued

LEMMA SoleKept ==
  ASSUME TypeOK, Sole, NEW p \in Proc, Moves(p)
  PROVE  Sole'
<1> DEFINE b == call[p]
           c == call'[p]
<1>0. /\ Shape(b) /\ CallMove(b, c) /\ PastMove(b, c)
      /\ \A q \in Proc : q # p => call'[q] = call[q]
  BY CallIs DEF Moves, Effects
<1>1. \A q \in Proc : Registers(call[q]) => call[q].id \in Nat /\ call[q].id # fresh
  <2>1. ASSUME NEW q \in Proc, Registers(call[q]) PROVE call[q].id \in Nat /\ call[q].id # fresh
    <3>1. Shape(call[q]) /\ Issued(call[q].id)
      BY CallIs
    <3>2. call[q].id \in Nat
      BY <2>1, <3>1 DEF Registers, Shape, Writing
    <3>3. QED
      BY <3>1, <3>2, NotFresh, NoneAssumption
  <2>2. QED
    BY <2>1
<1>2. \A x \in past.acked : x # fresh
  BY DEF TypeOK, PastOK
<1>3. \A q \in Proc : Registers(call'[q]) =>
        \/ Registers(call[q]) /\ call'[q].id = call[q].id
        \/ q = p /\ call'[q].id = fresh
  <2>1. ASSUME NEW q \in Proc, Registers(call'[q]), q # p PROVE Registers(call[q]) /\ call'[q].id = call[q].id
    BY <1>0, <2>1
  <2>2. Registers(c) => (Registers(b) /\ c.id = b.id) \/ c.id = fresh
    BY <1>0, RegisterMoved
  <2>3. QED
    BY <2>1, <2>2
<1>4. ASSUME NEW q \in Proc, Registers(call'[q]) PROVE call'[q].id \notin past'.acked
  <2>1. CASE past'.acked = past.acked
    BY <1>2, <1>3, <1>4, <2>1 DEF Sole
  <2>2. CASE b.at = "mail" /\ c = NoCall /\ past'.acked = past.acked \cup {b.id}
    <3>1. Registers(b) /\ ~Registers(c)
      BY <1>0, <2>2, NoCallIs DEF Shape, Registers
    <3>2. q # p /\ Registers(call[q]) /\ call'[q].id = call[q].id
      BY <1>3, <1>4, <3>1
    <3>3. call[q].id # b.id /\ call[q].id \notin past.acked
      BY <3>1, <3>2 DEF Sole
    <3>4. QED
      BY <2>2, <3>2, <3>3
  <2>3. QED
    BY <1>0, <2>1, <2>2 DEF PastMove
<1>5. ASSUME NEW q \in Proc, Registers(call'[q]), NEW r \in Proc, Registers(call'[r]), call'[r].id = call'[q].id
      PROVE  r = q
  BY <1>1, <1>3, <1>5 DEF Sole
<1>6. QED
  BY <1>4, <1>5 DEF Sole, Registers

LEMMA DoomsKept ==
  ASSUME TypeOK, Dooms, NEW p \in Proc, Moves(p)
  PROVE  Dooms'
<1> DEFINE b == call[p]
           c == call'[p]
<1>0. /\ CallMove(b, c) /\ past.doomed \subseteq past'.doomed
      /\ \A q \in Proc : q # p => call'[q] = call[q]
  BY DEF Moves, Effects, PastMove
<1>1. b.at \in {"unlink", "purge", "dropRow"} => b.id \in past.doomed
  BY DEF Dooms
<1>2. c.at \in {"unlink", "purge", "dropRow"} => c.id \in past'.doomed
  <2> HIDE DEF b, c
  <2> SUFFICES ASSUME c.at \in {"unlink", "purge", "dropRow"} PROVE c.id \in past'.doomed
    OBVIOUS
  <2>1. CASE Stays(b, c) /\ Onward(b, c)
    BY <1>0, <1>1, <2>1 DEF Stays, Carries, Onward, Leg
  <2>2. CASE c = NoCall \/ Arrival(c) \/ Decided(b, c) \/ Entering(c) \/ Taking(b, c)
    BY <2>2, NoCallIs DEF Arrival, Decided, Entering, Taking
  <2>3. QED
    BY <1>0, <2>1, <2>2 DEF CallMove, Leg
<1>3. QED
  BY <1>0, <1>2 DEF Dooms

-----------------------------------------------------------------------------
(* The entries of the accounts there are.                                  *)

LEMMA NewEntriesKept ==
  ASSUME TypeOK, TypeOK', NewEntries, NEW p \in Proc, Moves(p)
  PROVE  NewEntries'
<1> DEFINE b == call[p]
           c == call'[p]
<1>0. /\ Shape(b) /\ CallMove(b, c) /\ UsersMove(b, c) /\ DirMove(b, c) /\ PastMove(b, c)
      /\ \A q \in Proc : q # p => call'[q] = call[q]
  BY CallIs DEF Moves, Effects
<1>1. Shape(c)
  BY DEF TypeOK, CallOK
<1>2. /\ \A i \in DOMAIN users : users[i].uuid # fresh
      /\ \A f \in past.undone : f.uuid # fresh
      /\ \A q \in Proc : call[q].uuid # fresh
  <2>1. ASSUME NEW x, Issued(x) PROVE x # fresh
    BY <2>1, NoneAssumption DEF Issued, TypeOK
  <2>2. QED
    BY <2>1, CallIs DEF TypeOK, UsersOK, PastOK
<1> DEFINE Own(q, u, r) ==
      /\ u \in DOMAIN dir' /\ dir'[u] = r
      /\ \A i \in DOMAIN users' : users'[i].uuid # u
      /\ \A f \in past'.undone : f.uuid # u
      /\ \A x \in Proc : x # q /\ call'[x].at \in Holding \cup {"entry"} => call'[x].uuid # u
<1>3. ASSUME c.at = "link" PROVE Own(p, c.uuid, c.rights)
  <2>1. \/ b.at = "link" /\ Stays(b, c)
        \/ b.at = "grant" /\ Carries(b, c) /\ c.uuid = fresh /\ fresh \in DOMAIN dir' /\ dir'[fresh] = b.rights
    <3> HIDE DEF b, c
    <3>1. CASE c = NoCall \/ Arrival(c) \/ Decided(b, c) \/ Entering(c) \/ Taking(b, c)
      BY <1>3, <3>1, NoCallIs DEF Arrival, Decided, Entering, Taking
    <3>2. QED
      BY <1>0, <1>3, <3>1 DEF CallMove, Onward, Leg
  <2>2. /\ DOMAIN users' = DOMAIN users /\ \A i \in DOMAIN users : users'[i].uuid = users[i].uuid
        /\ past'.undone = past.undone
    <3> HIDE DEF b, c
    <3>1. b.at \in {"link", "grant"}
      BY <2>1
    <3>2. QED
      BY <1>0, <1>3, <3>1 DEF UsersMove, PastMove
  <2>3. CASE b.at = "link" /\ Stays(b, c)
    <3>1. dir' = dir
      BY <1>0, <2>3 DEF DirMove
    <3>2. /\ b.uuid \in DOMAIN dir /\ dir[b.uuid] = b.rights
          /\ \A i \in DOMAIN users : users[i].uuid # b.uuid
          /\ \A f \in past.undone : f.uuid # b.uuid
          /\ \A q \in Proc : q # p /\ call[q].at \in Holding \cup {"entry"} => call[q].uuid # b.uuid
      BY <2>3 DEF NewEntries
    <3>3. c.uuid = b.uuid /\ c.rights = b.rights
      BY <2>3 DEF Stays, Carries
    <3> HIDE DEF b, c
    <3>4. QED
      BY <1>0, <2>2, <3>1, <3>2, <3>3
  <2>4. CASE b.at = "grant" /\ Carries(b, c) /\ c.uuid = fresh /\ fresh \in DOMAIN dir' /\ dir'[fresh] = b.rights
    <3> HIDE DEF b, c
    <3>1. QED
      BY <1>0, <1>2, <2>2, <2>4 DEF Carries
  <2>5. QED
    BY <2>1, <2>3, <2>4
<1>4. ASSUME NEW q \in Proc, q # p, call[q].at = "link" PROVE Own(q, call[q].uuid, call[q].rights)
  <2> DEFINE u == call[q].uuid
             r == call[q].rights
  <2>1. /\ u \in DOMAIN dir /\ dir[u] = r
        /\ \A i \in DOMAIN users : users[i].uuid # u
        /\ \A f \in past.undone : f.uuid # u
        /\ \A x \in Proc : x # q /\ call[x].at \in Holding \cup {"entry"} => call[x].uuid # u
    BY <1>4 DEF NewEntries
  <2>2. u \in Nat /\ u # None /\ u # fresh
    BY <1>2, <1>4, CallIs, NoneAssumption DEF Shape
  <2>3. b.at \in Holding \cup {"entry"} => b.uuid # u
    BY <1>4, <2>1
  <2> HIDE DEF u, r
  <2>4. u \in DOMAIN dir' /\ dir'[u] = r
    <3> HIDE DEF b, c
    <3>1. QED
      BY <1>0, <2>1, <2>3 DEF DirMove, Holding
  <2>5. \A i \in DOMAIN users' : users'[i].uuid # u
    <3> HIDE DEF b, c
    <3>1. QED
      BY <1>0, <2>1, <2>2, <2>3 DEF UsersMove, Holding
  <2>6. \A f \in past'.undone : f.uuid # u
    <3> HIDE DEF b, c
    <3>1. QED
      BY <1>0, <2>1, <2>3 DEF PastMove, Holding
  <2>7. c.at \in Holding \cup {"entry"} => c.uuid # u
    <3> SUFFICES ASSUME c.at \in Holding \cup {"entry"}, c.uuid = u PROVE FALSE
      OBVIOUS
    <3> DEFINE i == IF c.at = "entry" THEN c.claims.sub ELSE c.id
    <3> HIDE DEF b, c
    <3>1. i \in Nat
      BY <1>1 DEF Shape, Holding, Writing, Deciding
    <3>2. Holds(c, i, u)
      BY DEF Holds, Holding
    <3> HIDE DEF i
    <3>3. \/ Holds(b, i, u)
          \/ i \in DOMAIN users /\ users[i].uuid = u
          \/ u = fresh
      BY <1>0, <2>2, <3>1, <3>2, HoldsMoves
    <3>4. QED
      BY <2>1, <2>2, <2>3, <3>3 DEF Holds
  <2>8. QED
    BY <1>0, <2>1, <2>4, <2>5, <2>6, <2>7 DEF u, r
<1>5. ASSUME NEW q \in Proc, call'[q].at = "link" PROVE Own(q, call'[q].uuid, call'[q].rights)
  BY <1>0, <1>3, <1>4, <1>5
<1>6. QED
  BY <1>5 DEF NewEntries

\* A registration that is taken back is not acknowledged, nor about to be.
LEMMA NotUndone ==
  ASSUME TypeOK, Sole, NEW p \in Proc, call[p].at \in {"undoEntry", "undoRow"}
  PROVE  ~Registered(call[p].id)
<1>1. Registers(call[p])
  BY CallIs DEF Shape, Registers
<1>2. call[p].id \notin past.acked
  BY <1>1 DEF Sole
<1>3. ASSUME NEW q \in Proc, call[q].at = "mail", call[q].id = call[p].id PROVE FALSE
  <2>1. Registers(call[q])
    BY <1>3, CallIs DEF Shape, Registers
  <2>2. q = p
    BY <1>1, <1>3, <2>1 DEF Sole
  <2>3. QED
    BY <1>3, <2>2
<1>4. QED
  BY <1>2, <1>3 DEF Registered

LEMMA HaveRightsKept ==
  ASSUME TypeOK, Owners, Sole, Dooms, NewEntries, HaveRights, NEW p \in Proc, Moves(p)
  PROVE  HaveRights'
<1> DEFINE b == call[p]
           c == call'[p]
<1>0. /\ Shape(b) /\ CallMove(b, c) /\ UsersMove(b, c) /\ DirMove(b, c) /\ PastMove(b, c)
      /\ \A q \in Proc : q # p => call'[q] = call[q]
  BY CallIs DEF Moves, Effects
<1>1. b.at = "link" => b.uuid \in DOMAIN dir /\ dir' = dir
  BY <1>0 DEF NewEntries, DirMove
<1> SUFFICES ASSUME NEW i \in Nat, i \notin past'.doomed, Registered(i)'
             PROVE  i \in DOMAIN users' /\ users'[i].uuid \in DOMAIN dir'
  BY DEF HaveRights
<1>2. i \notin past.doomed
  BY <1>0 DEF PastMove
<1>3. Registered(i) \/ (b.at = "link" /\ c.at = "mail" /\ i = b.id)
  <2>1. CASE i \in past'.acked
    BY <1>0, <2>1 DEF PastMove, Registered
  <2>2. ASSUME NEW q \in Proc, q # p, call'[q].at = "mail", call'[q].id = i PROVE Registered(i)
    BY <1>0, <2>2 DEF Registered
  <2>3. CASE c.at = "mail" /\ c.id = i
    <3>1. (b.at = "mail" \/ b.at = "link") /\ b.id = i
      <4> HIDE DEF b, c
      <4>1. CASE c = NoCall \/ Arrival(c) \/ Decided(b, c) \/ Entering(c) \/ Taking(b, c)
        BY <2>3, <4>1, NoCallIs DEF Arrival, Decided, Entering, Taking
      <4>2. QED
        BY <1>0, <2>3, <4>1 DEF CallMove, Onward, Leg, Stays, Carries
    <3>2. QED
      BY <2>3, <3>1 DEF Registered
  <2>4. QED
    BY <2>1, <2>2, <2>3 DEF Registered
<1>4. CASE b.at = "link" /\ c.at = "mail" /\ i = b.id
  BY <1>0, <1>1, <1>4 DEF UsersMove
<1>5. CASE Registered(i)
  <2> DEFINE w == users[i].uuid
  <2>1. i \in DOMAIN users /\ w \in DOMAIN dir
    BY <1>2, <1>5 DEF HaveRights
  <2>2. w \in Nat
    BY <2>1 DEF TypeOK, DirOK
  <2>3. b.at \in {"undoEntry", "undoRow"} => b.id # i
    BY <1>5, NotUndone
  <2>4. b.at \in {"unlink", "dropRow"} => b.id # i
    BY <1>2 DEF Dooms
  <2>5. b.at \in {"undoEntry", "unlink"} => b.uuid # w
    <3> SUFFICES ASSUME b.at \in {"undoEntry", "unlink"}, b.uuid = w PROVE FALSE
      OBVIOUS
    <3>1. b.id \in Nat
      BY <1>0 DEF Shape, Writing
    <3>2. Ref(b.id, w) /\ Ref(i, w)
      BY <2>1 DEF Ref, Holds, Holding
    <3>3. b.id = i
      BY <2>2, <3>1, <3>2 DEF Owners, OneOwner
    <3>4. QED
      BY <2>3, <2>4, <3>3
  <2> HIDE DEF b, c
  <2>6. w \in DOMAIN dir'
    BY <1>0, <2>1, <2>5 DEF DirMove
  <2>7. i \in DOMAIN users' /\ (users'[i].uuid = w \/ (b.at = "link" /\ users'[i].uuid = b.uuid))
    BY <1>0, <2>1, <2>3, <2>4 DEF UsersMove
  <2>8. QED
    BY <1>1, <2>6, <2>7
<1>6. QED
  BY <1>3, <1>4, <1>5

\* What changes the entry of an account is a call that writes that account.
LEMMA PutByWriter ==
  ASSUME TypeOK, Owners, NEW p \in Proc, call[p].at \in {"put", "undoEntry", "unlink"},
         NEW i \in Nat, Ref(i, call[p].uuid)
  PROVE  Writes(call[p]) /\ call[p].id = i
<1> DEFINE b == call[p]
<1>1. Shape(b)
  BY CallIs
<1>2. b.id \in Nat /\ b.uuid \in Nat /\ Writes(b)
  BY <1>1 DEF Shape, Writing, Writes
<1>3. Ref(b.id, b.uuid)
  BY DEF Ref, Holds, Holding
<1>4. QED
  BY <1>2, <1>3 DEF Owners, OneOwner

\* Nobody comes to write an account without a row.
LEMMA NoNewWriter ==
  ASSUME NEW p \in Proc, Moves(p), NEW i, i # fresh, i \notin DOMAIN users,
         \A q \in Proc : ~(Writes(call[q]) /\ call[q].id = i)
  PROVE  \A q \in Proc : ~(Writes(call'[q]) /\ call'[q].id = i)
<1>1. CallMove(call[p], call'[p]) /\ \A q \in Proc : q # p => call'[q] = call[q]
  BY DEF Moves, Effects
<1>2. ~(Writes(call'[p]) /\ call'[p].id = i)
  BY <1>1, WriterMoves
<1>3. QED
  BY <1>1, <1>2

LEMMA NothingLeftKept ==
  ASSUME TypeOK, TypeOK', Owners, Alone, NothingLeft, NEW p \in Proc, Moves(p), Observe
  PROVE  NothingLeft'
<1> DEFINE b == call[p]
           c == call'[p]
<1>0. /\ Shape(b) /\ CallMove(b, c) /\ UsersMove(b, c) /\ DirMove(b, c) /\ PastMove(b, c)
      /\ \A q \in Proc : q # p => call'[q] = call[q]
      /\ overlaps.writes \subseteq overlaps'.writes
  BY CallIs, ObserveType DEF Moves, Effects, TypeOK
<1>1. DOMAIN dir' \subseteq Nat /\ fresh \in Nat
  BY DEF TypeOK, DirOK
<1> DEFINE Gone(f) == /\ f.id \notin DOMAIN users' /\ f.uuid \notin DOMAIN dir'
                      /\ \A q \in Proc : ~(Writes(call'[q]) /\ call'[q].id = f.id)
<1>2. ASSUME NEW f \in past.undone, f.id \notin overlaps'.writes PROVE Gone(f)
  <2>1. /\ f.id \notin DOMAIN users /\ f.uuid \notin DOMAIN dir
        /\ \A q \in Proc : ~(Writes(call[q]) /\ call[q].id = f.id)
    BY <1>0, <1>2 DEF NothingLeft
  <2>2. f.id \in Nat /\ f.id # fresh /\ Issued(f.uuid) /\ f.uuid # fresh
    BY NoneAssumption DEF TypeOK, PastOK, Issued
  <2>3. f = [id |-> f.id, uuid |-> f.uuid]
    BY PastIs
  <2>4. b.at = "put" => b.uuid # f.uuid
    <3> SUFFICES ASSUME b.at = "put", b.uuid = f.uuid PROVE FALSE
      OBVIOUS
    <3>1. Ref(f.id, b.uuid)
      BY <2>3 DEF Ref
    <3>2. QED
      BY <2>1, <2>2, <3>1, PutByWriter
  <2>5. \A q \in Proc : ~(Writes(call'[q]) /\ call'[q].id = f.id)
    BY <2>1, <2>2, NoNewWriter
  <2> HIDE DEF b, c
  <2>6. f.id \notin DOMAIN users'
    BY <1>0, <2>1, <2>2 DEF UsersMove
  <2>7. f.uuid \notin DOMAIN dir'
    BY <1>0, <2>1, <2>2, <2>4 DEF DirMove
  <2>8. QED
    BY <2>5, <2>6, <2>7
<1>3. ASSUME b.at = "undoRow", b.clean, c = NoCall, b.id \notin DOMAIN users', b.id \notin overlaps'.writes
      PROVE  Gone([id |-> b.id, uuid |-> b.uuid])
  <2>1. b.uuid \notin DOMAIN dir
    BY <1>0, <1>3 DEF NothingLeft
  <2>2. dir' = dir
    BY <1>0, <1>3 DEF DirMove
  <2>3. Writes(b) /\ ~Writes(c)
    BY <1>3, NoCallIs DEF Writes, Writing
  <2>4. \A q \in Proc : Writes(call[q]) /\ call[q].id = b.id => q = p
    BY <1>0, <1>3, <2>3 DEF Alone
  <2>5. \A q \in Proc : ~(Writes(call'[q]) /\ call'[q].id = b.id)
    BY <1>0, <2>3, <2>4
  <2>6. QED
    BY <1>3, <2>1, <2>2, <2>5
<1>4. ASSUME NEW f \in past'.undone, f.id \notin overlaps'.writes PROVE Gone(f)
  <2>1. CASE f \in past.undone
    BY <1>2, <1>4, <2>1
  <2>2. CASE /\ b.at = "undoRow" /\ b.clean /\ c = NoCall /\ b.id \notin DOMAIN users'
             /\ f = [id |-> b.id, uuid |-> b.uuid]
    <3>1. f.id = b.id
      BY <2>2
    <3>2. b.id \notin overlaps'.writes
      BY <1>4, <3>1
    <3>3. Gone([id |-> b.id, uuid |-> b.uuid])
      BY <1>3, <2>2, <3>2
    <3> HIDE DEF Gone
    <3>4. QED
      BY <2>2, <3>3
  <2>3. QED
    BY <1>0, <2>1, <2>2 DEF PastMove
<1>5. ASSUME NEW q \in Proc, call'[q].at = "undoRow", call'[q].clean, call'[q].id \notin overlaps'.writes
      PROVE  call'[q].uuid \notin DOMAIN dir'
  <2>1. CASE q = p
    <3>1. c.at = "undoRow" /\ c.clean /\ c.id \notin overlaps.writes
      BY <1>0, <1>5, <2>1
    <3>2. b.at = "grant" => b.uuid = None
      BY <1>0 DEF Shape
    <3>3. b.at = "undoRow" /\ b.clean /\ b.id \notin overlaps.writes => b.uuid \notin DOMAIN dir
      BY DEF NothingLeft
    <3> HIDE DEF b, c
    <3>4. Stays(b, c) /\ Onward(b, c)
      <4>1. CASE c = NoCall \/ Arrival(c) \/ Decided(b, c) \/ Entering(c) \/ Taking(b, c)
        BY <3>1, <4>1, NoCallIs DEF Arrival, Decided, Entering, Taking
      <4>2. QED
        BY <1>0, <3>1, <4>1 DEF CallMove, Leg
    <3>5. c.uuid = b.uuid /\ c.id = b.id /\ c.clean = b.clean
      BY <3>4 DEF Stays, Carries
    <3>6. \/ b.at = "undoRow" \/ b.at = "grant" \/ b.uuid \notin DOMAIN dir'
      BY <3>1, <3>4 DEF Onward, Leg
    <3>7. CASE b.at = "undoRow"
      <4>1. dir' = dir
        BY <1>0, <3>7 DEF DirMove
      <4>2. QED
        BY <2>1, <3>1, <3>3, <3>5, <3>7, <4>1 DEF c
    <3>8. CASE b.at = "grant"
      BY <1>1, <2>1, <3>2, <3>5, <3>8, NoneAssumption DEF c
    <3>9. QED
      BY <2>1, <3>5, <3>6, <3>7, <3>8 DEF c
  <2>2. CASE q # p
    <3> DEFINE d == call[q]
    <3>1. call'[q] = d /\ d.at = "undoRow" /\ d.clean /\ d.id \notin overlaps.writes
      BY <1>0, <1>5, <2>2
    <3>2. d.uuid \notin DOMAIN dir /\ Shape(d) /\ Issued(d.uuid) /\ Writes(d)
      BY <3>1, CallIs DEF NothingLeft, Writes, Writing
    <3>3. d.id \in Nat /\ d.uuid # fresh
      BY <1>1, <3>1, <3>2, NoneAssumption DEF Shape, Writing, Issued
    <3>4. b.at = "put" => b.uuid # d.uuid
      <4> SUFFICES ASSUME b.at = "put", b.uuid = d.uuid PROVE FALSE
        OBVIOUS
      <4>1. Ref(d.id, b.uuid)
        BY <3>1 DEF Ref, Holds, Holding
      <4>2. Writes(b) /\ b.id = d.id
        BY <3>3, <4>1, PutByWriter
      <4>3. QED
        BY <2>2, <3>1, <3>2, <4>2 DEF Alone
    <3> HIDE DEF b, c, d
    <3>5. d.uuid \notin DOMAIN dir'
      BY <1>0, <3>2, <3>3, <3>4 DEF DirMove
    <3>6. QED
      BY <3>1, <3>5
  <2>3. QED
    BY <2>1, <2>2
<1>6. QED
  BY <1>4, <1>5 DEF NothingLeft, Writes

LEMMA SettledKept ==
  ASSUME TypeOK, TypeOK', Owners, Alone, NewEntries, Settled, NEW p \in Proc, Moves(p), Observe
  PROVE  Settled'
<1> DEFINE b == call[p]
           c == call'[p]
<1>0. /\ Shape(b) /\ CallMove(b, c) /\ UsersMove(b, c) /\ DirMove(b, c) /\ GrantedMove(b, c)
      /\ \A q \in Proc : q # p => call'[q] = call[q]
      /\ overlaps.writes \subseteq overlaps'.writes /\ past.doomed \subseteq past'.doomed
  BY CallIs, ObserveType DEF Moves, Effects, TypeOK, PastMove
<1>1. DOMAIN dir \subseteq Nat /\ fresh \in Nat /\ fresh \notin DOMAIN users /\ DOMAIN users \subseteq Nat
  BY DEF TypeOK, DirOK, UsersOK
<1> DEFINE Has(i, r) ==
      /\ i \in DOMAIN users' /\ users'[i].uuid \in DOMAIN dir' /\ dir'[users'[i].uuid] = r
      /\ \A q \in Proc : ~(Writes(call'[q]) /\ call'[q].id = i)
<1>2. ASSUME NEW i \in DOMAIN past.granted, i \in DOMAIN past'.granted,
             i \notin past'.doomed, i \notin overlaps'.writes
      PROVE  Has(i, past.granted[i])
  <2> DEFINE w == users[i].uuid
             r == past.granted[i]
  <2>1. /\ i \in DOMAIN users /\ w \in DOMAIN dir /\ dir[w] = r
        /\ \A q \in Proc : ~(Writes(call[q]) /\ call[q].id = i)
    BY <1>0, <1>2 DEF Settled
  <2>2. i \in Nat /\ w \in Nat /\ w # None /\ Ref(i, w) /\ i # fresh
    BY <1>1, <2>1, NoneAssumption DEF Ref
  <2>3. ~(Writes(b) /\ b.id = i)
    BY <2>1
  <2>4. b.at \in {"put", "undoEntry", "unlink"} => b.uuid # w
    BY <2>2, <2>3, PutByWriter
  <2> HIDE DEF r, b, c
  <2>5. i \in DOMAIN users' /\ users'[i].uuid = w
    <3> HIDE DEF w
    <3>1. users[i].uuid = w
      BY DEF w
    <3>2. QED
      BY <1>0, <2>1, <2>3, <3>1 DEF UsersMove, Writes, Writing
  <2>6. w \in DOMAIN dir' /\ dir'[w] = r
    <3> HIDE DEF w
    <3>1. QED
      BY <1>0, <2>1, <2>4 DEF DirMove
  <2>7. ~(Writes(c) /\ c.id = i)
    <3> SUFFICES ASSUME Writes(c), c.id = i PROVE FALSE
      OBVIOUS
    <3>1. (users[i].uuid = None) \/ Taking(b, c)
      BY <1>0, <2>2, <2>3, WriterMoves
    <3>2. QED
      BY <1>2, <2>2, <3>1 DEF Taking
  <2>8. \A q \in Proc : ~(Writes(call'[q]) /\ call'[q].id = i)
    BY <1>0, <2>1, <2>7 DEF c
  <2>9. QED
    BY <2>5, <2>6, <2>8 DEF r
<1>3. ASSUME c = NoCall, b.id \notin past'.doomed, b.id \notin overlaps'.writes,
             \/ b.at = "link" /\ b.id \in DOMAIN users' /\ users'[b.id].uuid = b.uuid /\ dir' = dir
             \/ b.at = "put" /\ b.uuid \in DOMAIN dir' /\ dir'[b.uuid] = b.rights /\ users' = users
      PROVE  Has(b.id, b.rights)
  <2>1. Writes(b) /\ ~Writes(c) /\ b.id \notin overlaps.writes /\ b.id \notin past.doomed
    BY <1>0, <1>3, NoCallIs DEF Writes, Writing
  <2>2. b.id \in DOMAIN users /\ \A q \in Proc : Writes(call[q]) /\ call[q].id = b.id => q = p
    BY <2>1 DEF Alone
  <2>3. \A q \in Proc : ~(Writes(call'[q]) /\ call'[q].id = b.id)
    BY <1>0, <2>1, <2>2
  <2>4. b.at = "link" => b.uuid \in DOMAIN dir /\ dir[b.uuid] = b.rights
    BY DEF NewEntries
  <2>5. b.at = "put" => users[b.id].uuid = b.uuid
    BY <2>1 DEF Settled
  <2> HIDE DEF b, c
  <2>6. QED
    BY <1>3, <2>2, <2>3, <2>4, <2>5
<1>4. ASSUME NEW i \in DOMAIN past'.granted, i \notin past'.doomed, i \notin overlaps'.writes
      PROVE  Has(i, past'.granted[i])
  <2>1. CASE i \in DOMAIN past.granted /\ past'.granted[i] = past.granted[i]
    BY <1>2, <1>4, <2>1
  <2>2. CASE /\ i = b.id /\ c = NoCall /\ past'.granted[b.id] = b.rights
             /\ \/ b.at = "link" /\ b.id \in DOMAIN users' /\ users'[b.id].uuid = b.uuid /\ dir' = dir
                \/ b.at = "put" /\ b.uuid \in DOMAIN dir' /\ dir'[b.uuid] = b.rights /\ users' = users
    <3> HIDE DEF Has
    <3>1. QED
      BY <1>3, <1>4, <2>2
  <2> HIDE DEF b, c, Has
  <2>3. QED
    BY <1>0, <1>4, <2>1, <2>2 DEF GrantedMove
<1>5. ASSUME NEW q \in Proc, call'[q].at \in {"update", "put"}, call'[q].id \notin past'.doomed,
             call'[q].id \notin overlaps'.writes
      PROVE  users'[call'[q].id].uuid = call'[q].uuid
  <2>1. CASE q # p
    <3> DEFINE d == call[q]
    <3>1. /\ call'[q] = d /\ d.at \in {"update", "put"} /\ Writes(d)
          /\ d.id \notin past.doomed /\ d.id \notin overlaps.writes
      BY <1>0, <1>5, <2>1 DEF Writes, Writing
    <3>2. d.id \in DOMAIN users /\ ~(Writes(b) /\ b.id = d.id)
      BY <2>1, <3>1 DEF Alone
    <3>3. users[d.id].uuid = d.uuid
      BY <3>1 DEF Settled
    <3> HIDE DEF b, c, d
    <3>4. users'[d.id].uuid = d.uuid
      BY <1>0, <3>2, <3>3 DEF UsersMove, Writes, Writing
    <3>5. QED
      BY <3>1, <3>4
  <2>2. CASE q = p
    <3>1. c.at \in {"update", "put"} /\ c.id \notin past.doomed /\ c.id \notin overlaps.writes
      BY <1>0, <1>5, <2>2
    <3>2. b.at \in {"update", "put"} /\ b.id \notin past.doomed /\ b.id \notin overlaps.writes =>
            users[b.id].uuid = b.uuid /\ b.id \in DOMAIN users
      BY DEF Settled, Alone, Writes, Writing
    <3> HIDE DEF b, c
    <3>3. \/ b.at \in {"update", "put"} /\ c.id = b.id /\ c.uuid = b.uuid
          \/ b.at = "handle" /\ c.id \in DOMAIN users /\ c.uuid = users[c.id].uuid
      <4>1. CASE c = NoCall \/ Arrival(c) \/ Decided(b, c) \/ Entering(c)
        BY <3>1, <4>1, NoCallIs DEF Arrival, Decided, Entering
      <4>2. CASE Taking(b, c)
        BY <4>2 DEF Taking
      <4>3. CASE Stays(b, c) /\ Onward(b, c)
        BY <3>1, <4>3 DEF Stays, Carries, Onward, Leg
      <4>4. QED
        BY <1>0, <3>1, <4>1, <4>2, <4>3 DEF CallMove, Leg
    <3>4. c.id \in DOMAIN users /\ users[c.id].uuid = c.uuid /\ b.at \in {"update", "put", "handle"}
      BY <3>1, <3>2, <3>3
    <3>5. users'[c.id].uuid = c.uuid
      BY <1>0, <3>4 DEF UsersMove
    <3>6. QED
      BY <2>2, <3>5 DEF c
  <2>3. QED
    BY <2>1, <2>2
<1>6. QED
  BY <1>4, <1>5 DEF Settled, Writes

-----------------------------------------------------------------------------
(* Votes and the accounts they are under.                                  *)

LEMMA AccountedKept ==
  ASSUME TypeOK, Accounted, NEW p \in Proc, Moves(p)
  PROVE  Accounted'
<1> DEFINE b == call[p]
           c == call'[p]
           x == b.claims.sub
<1>0. /\ CallMove(b, c) /\ UsersMove(b, c) /\ ContentMove(b, c)
      /\ past.late \subseteq past'.late /\ past.rolledBack \subseteq past'.rolledBack
      /\ \A q \in Proc : q # p => call'[q] = call[q]
  BY DEF Moves, Effects, PastMove
<1>1. /\ content \subseteq DOMAIN users \cup past.late \cup past.rolledBack
      /\ \A q \in Proc : call[q].at = "dropRow" /\ call[q].id \in content => call[q].id \in past.late
  BY DEF Accounted
\* What a vote adds, no deletion is about to leave without a row.
<1>2. \A y \in content' \ content :
        \/ y \in past'.late
        \/ y \in DOMAIN users' /\ \A q \in Proc : ~(call[q].at = "dropRow" /\ call[q].id = y)
  BY <1>0 DEF ContentMove
<1>3. ASSUME NEW y \in content' PROVE y \in DOMAIN users' \cup past'.late \cup past'.rolledBack
  <2>1. CASE y \in content
    <3>1. y \in DOMAIN users /\ y \notin DOMAIN users' =>
            y = b.id /\ (b.at = "dropRow" \/ (b.at = "undoRow" /\ y \in past'.rolledBack))
      BY <1>0 DEF UsersMove
    <3>2. b.at = "dropRow" /\ b.id \in content => b.id \in past.late
      BY <1>1
    <3> HIDE DEF b
    <3>3. QED
      BY <1>0, <1>1, <2>1, <3>1, <3>2
  <2>2. QED
    BY <1>2, <1>3, <2>1
\* A call comes to drop a row when it has just swept, or was there before.
<1>4. c.at = "dropRow" => c.id \notin content' \/ (b.at = "dropRow" /\ b.id = c.id)
  <2>1. CASE Stays(b, c) /\ Onward(b, c)
    <3> HIDE DEF b, c
    <3>1. QED
      BY <2>1 DEF Stays, Carries, Onward, Leg
  <2>2. CASE c = NoCall \/ Arrival(c) \/ Decided(b, c) \/ Entering(c) \/ Taking(b, c)
    <3> HIDE DEF b, c
    <3>1. QED
      BY <2>2, NoCallIs DEF Arrival, Decided, Entering, Taking
  <2>3. QED
    BY <1>0, <2>1, <2>2 DEF CallMove, Leg
<1>5. ASSUME NEW q \in Proc, call'[q].at = "dropRow", call'[q].id \in content'
      PROVE  call'[q].id \in past'.late
  <2>1. call[q].at = "dropRow" /\ call[q].id = call'[q].id
    BY <1>0, <1>4, <1>5
  <2>2. QED
    BY <1>0, <1>1, <1>2, <1>5, <2>1
<1>6. QED
  BY <1>3, <1>5 DEF Accounted

-----------------------------------------------------------------------------
(* Readings and the cache.                                                 *)

\* A reading to remember was there, or has just been made.
LEMMA ReaderMoves ==
  ASSUME NEW b, NEW c, CallMove(b, c), Reads(c)
  PROVE  /\ c.claims = b.claims
         /\ (Reads(b) /\ c.seen = b.seen) \/ Leg(b, c, "entry", "remember")
<1>1. CASE Stays(b, c) /\ Onward(b, c)
  BY <1>1 DEF Reads, Stays, Carries, Onward, Leg
<1>2. CASE c = NoCall \/ Arrival(c) \/ Decided(b, c) \/ Entering(c) \/ Taking(b, c)
  BY <1>2, NoCallIs DEF Reads, Arrival, Decided, Entering, Taking
<1>3. QED
  BY <1>1, <1>2 DEF CallMove, Leg, Reads, Carries

\* Whom a reading is of does not change.
LEMMA ReadersWere ==
  ASSUME TypeOK, NEW p \in Proc, Moves(p), NEW q \in Proc, Reads(call'[q])
  PROVE  /\ call'[q].claims = call[q].claims /\ call[q].claims.sub \in 0 .. fresh - 1
         /\ \/ Reads(call[q]) /\ call'[q].seen = call[q].seen
            \/ q = p /\ Leg(call[q], call'[q], "entry", "remember")
<1>1. CallMove(call[p], call'[p]) /\ (q # p => call'[q] = call[q])
  BY DEF Moves, Effects
<1>2. /\ call'[q].claims = call[q].claims
      /\ \/ Reads(call[q]) /\ call'[q].seen = call[q].seen
         \/ q = p /\ Leg(call[q], call'[q], "entry", "remember")
  <2>1. CASE q # p
    BY <1>1, <2>1
  <2>2. CASE q = p
    BY <1>1, <2>2, ReaderMoves
  <2>3. QED
    BY <2>1, <2>2
<1>3. call[q].at \in Deciding
  BY <1>2 DEF Reads, Leg, Deciding
<1>4. call[q].claims.sub \in Nat /\ Issued(call[q].claims.sub)
  BY <1>3, CallIs DEF Shape
<1>5. QED
  BY <1>2, <1>4, NoneAssumption DEF Issued

\* Two readings of an account that are to be remembered at once are noticed.
LEMMA OneReader ==
  ASSUME TypeOK, NEW p \in Proc, Moves(p), Observe, NEW i, i \notin overlaps'.reads,
         NEW q \in Proc, Reads(call'[q]), call'[q].claims.sub = i,
         NEW r \in Proc, Reads(call'[r]), call'[r].claims.sub = i
  PROVE  q = r
<1> DEFINE R == {x \in Proc : call'[x].at = "remember" /\ call'[x].claims.sub = i}
<1>1. Readers(i)' = R
  BY DEF Readers, At, Caller
<1>2. R \subseteq Proc /\ q \in R /\ r \in R
  BY DEF Reads
<1>3. IsFiniteSet(R)
  BY <1>2, ProcAssumption, FS_Subset
<1>4. i \in 0 .. fresh
  <2>1. i \in 0 .. fresh - 1
    BY ReadersWere
  <2>2. QED
    BY <2>1 DEF TypeOK
<1>5. overlaps'.reads = overlaps.reads \cup {j \in 0 .. fresh : Cardinality(Readers(j)') > 1}
  BY DEF Observe
<1>6. ~(Cardinality(R) > 1)
  BY <1>1, <1>4, <1>5
<1> HIDE DEF R
<1>7. QED
  BY <1>2, <1>3, <1>6, TwoIn

\* What was read last of an account changes only when it is read.
LEMMA ReadKept ==
  ASSUME TypeOK, NEW p \in Proc, Moves(p), NEW i \in DOMAIN past.read
  PROVE  /\ i \in DOMAIN past'.read
         /\ past'.read[i] = past.read[i] \/ (Reads(call'[p]) /\ call'[p].claims.sub = i)
<1> DEFINE b == call[p]
           c == call'[p]
<1>1. ReadMove(b, c) /\ CallMove(b, c)
  BY DEF Moves, Effects, PastMove
<1> HIDE DEF b, c
<1>2. Leg(b, c, "entry", "remember") => Reads(c) /\ c.claims = b.claims
  BY <1>1, ReaderMoves DEF Leg, Reads
<1>3. i \in DOMAIN past'.read /\ (past'.read[i] = past.read[i] \/ (Reads(c) /\ c.claims.sub = i))
  BY <1>1, <1>2 DEF ReadMove
<1>4. QED
  BY <1>3 DEF c

LEMMA FreshKept ==
  ASSUME TypeOK, TypeOK', Fresh, NEW p \in Proc, Moves(p), Observe
  PROVE  Fresh'
<1>0. /\ overlaps.reads \subseteq overlaps'.reads /\ ReadMove(call[p], call'[p])
      /\ \A q \in Proc : q # p => call'[q] = call[q]
  BY ObserveType DEF Moves, Effects, PastMove, TypeOK
<1>1. ASSUME NEW q \in Proc, Reads(call'[q])
      PROVE  /\ call'[q].claims.sub \in DOMAIN past'.read
             /\ call'[q].claims.sub \notin overlaps'.reads => call'[q].seen = past'.read[call'[q].claims.sub]
  <2> DEFINE i == call'[q].claims.sub
  <2>1. CASE Reads(call[q]) /\ call'[q].seen = call[q].seen
    <3>1. /\ i = call[q].claims.sub /\ i \in DOMAIN past.read
          /\ i \notin overlaps.reads => call[q].seen = past.read[i]
      BY <1>1, <2>1, ReadersWere DEF Fresh, Caller
    <3> HIDE DEF i
    <3>2. i \in DOMAIN past'.read /\ (past'.read[i] = past.read[i] \/ (Reads(call'[p]) /\ call'[p].claims.sub = i))
      BY <3>1, ReadKept
    <3>3. CASE past'.read[i] = past.read[i]
      BY <1>0, <2>1, <3>1, <3>2, <3>3 DEF i
    <3>4. CASE Reads(call'[p]) /\ call'[p].claims.sub = i /\ q # p
      <4>1. i \in overlaps'.reads
        BY <1>1, <3>4, OneReader DEF i
      <4>2. QED
        BY <3>2, <4>1 DEF i
    <3>5. CASE q = p
      <4>1. past'.read = past.read
        BY <1>0, <2>1, <3>5 DEF ReadMove, Leg, Reads
      <4>2. QED
        BY <3>3, <4>1
    <3>6. QED
      BY <3>2, <3>3, <3>4, <3>5
  <2>2. CASE q = p /\ Leg(call[q], call'[q], "entry", "remember")
    <3>1. i = call[q].claims.sub
      BY <1>1, ReadersWere
    <3>2. DOMAIN past'.read = DOMAIN past.read \cup {call[q].claims.sub} /\ past'.read[call[q].claims.sub] = call'[q].seen
      BY <1>0, <2>2 DEF ReadMove
    <3>3. QED
      BY <3>1, <3>2
  <2>3. QED
    BY <1>1, <2>1, <2>2, ReadersWere
<1>2. ASSUME NEW q \in Proc, Reads(call'[q]), call'[q].claims.sub \notin overlaps'.reads,
             NEW r \in Proc, Reads(call'[r]), call'[r].claims.sub = call'[q].claims.sub
      PROVE  r = q
  BY <1>2, OneReader
<1>3. QED
  BY <1>1, <1>2 DEF Fresh, Reads, Caller

LEMMA TracksKept ==
  ASSUME TypeOK, TypeOK', Fresh, Tracks, NEW p \in Proc, Moves(p), Observe
  PROVE  Tracks'
<1> DEFINE b == call[p]
           c == call'[p]
           Quiet(i) == \A q \in Proc : ~(Reads(call'[q]) /\ call'[q].claims.sub = i)
<1>0. /\ overlaps.reads \subseteq overlaps'.reads /\ ReadMove(b, c) /\ CallMove(b, c) /\ KnownMove(b, c)
      /\ \A q \in Proc : q # p => call'[q] = call[q]
  BY ObserveType DEF Moves, Effects, PastMove, TypeOK
\* An entry that stays is the last reading still, if no reading of it is left to remember.
<1>1. ASSUME NEW k \in DOMAIN cache, Reads(b) => Reads(c) \/ b.claims.sub # cache[k].id
      PROVE  /\ cache[k].id \in DOMAIN past'.read
             /\ cache[k].id \notin overlaps'.reads /\ Quiet(cache[k].id) => cache[k].rights = past'.read[cache[k].id]
  <2> DEFINE i == cache[k].id
  <2>1. /\ i \in DOMAIN past.read
        /\ i \notin overlaps.reads /\ (\A q \in Proc : ~(Reads(call[q]) /\ call[q].claims.sub = i))
             => cache[k].rights = past.read[i]
    BY DEF Tracks, Caller
  <2>2. Reads(b) /\ b.claims.sub = i => Reads(c) /\ c.claims.sub = i
    BY <1>0, <1>1, ReaderMoves
  <2>3. Quiet(i) => \A q \in Proc : ~(Reads(call[q]) /\ call[q].claims.sub = i)
    BY <1>0, <2>2
  <2> HIDE DEF i
  <2>4. i \in DOMAIN past'.read /\ (past'.read[i] = past.read[i] \/ (Reads(call'[p]) /\ call'[p].claims.sub = i))
    BY <2>1, ReadKept
  <2>5. i \notin overlaps'.reads /\ Quiet(i) => cache[k].rights = past'.read[i]
    BY <1>0, <2>1, <2>3, <2>4
  <2>6. QED
    BY <2>4, <2>5 DEF i
<1>2. CASE cache' = cache /\ (b.at = "remember" => c.at = "remember")
  BY <1>1, <1>2 DEF Tracks, Reads, Caller
<1>3. CASE b.at = "remember" /\ c.at = "handle" /\ cache' = Remembered(b.claims.sub, b.seen)
  <2> DEFINE i == b.claims.sub
             n == Len(cache')
  <2>1. Reads(b) /\ i \in Nat /\ b.seen \in Rights
    BY <1>3, CallIs DEF Reads, Shape, Deciding, Call
  <2>2. i \in DOMAIN past.read /\ (i \notin overlaps.reads => b.seen = past.read[i])
    BY <2>1 DEF Fresh, Caller
  <2>3. past'.read = past.read
    BY <1>0, <1>3 DEF ReadMove, Leg
  <2>4. CacheOK
    BY DEF TypeOK
  <2> HIDE DEF i, b, c
  <2>5. /\ cache' \in Seq(Kept) /\ n \in Nat \ {0} /\ cache'[n] = [id |-> i, rights |-> b.seen]
        /\ \A j \in 1 .. n - 1 : cache'[j].id # i /\ \E k \in DOMAIN cache : cache'[j] = cache[k]
    BY <1>3, <2>1, <2>4, RememberedIs DEF i
  <2> HIDE DEF Quiet
  <2>6. ASSUME NEW j \in DOMAIN cache'
        PROVE  /\ cache'[j].id \in DOMAIN past'.read
               /\ cache'[j].id \notin overlaps'.reads /\ Quiet(cache'[j].id) => cache'[j].rights = past'.read[cache'[j].id]
    <3>1. DOMAIN cache' = 1 .. n
      BY <2>5
    <3>2. CASE j = n
      <4>1. cache'[j].id = i /\ cache'[j].rights = b.seen
        BY <2>5, <3>2
      <4>2. QED
        BY <1>0, <2>2, <2>3, <4>1
    <3>3. CASE j # n
      <4>1. j \in 1 .. n - 1
        BY <2>5, <3>1, <3>3
      <4>2. PICK k \in DOMAIN cache : cache'[j] = cache[k]
        BY <2>5, <4>1
      <4>3. i # cache[k].id
        BY <2>5, <4>1, <4>2
      <4>4. QED
        BY <1>1, <4>2, <4>3 DEF i
    <3>4. QED
      BY <3>2, <3>3
  <2>7. QED
    BY <2>6 DEF Tracks, Reads, Caller, Quiet
<1>4. QED
  BY <1>0, <1>2, <1>3 DEF KnownMove

-----------------------------------------------------------------------------
(* The inductive invariant.                                                *)

SafetyInv ==
  /\ TypeOK
  /\ Owners /\ Knowledge
  /\ Alone /\ Sole /\ Dooms /\ NewEntries
  /\ HaveRights /\ NothingLeft /\ Settled
  /\ Accounted /\ Fresh /\ Tracks

\* No request is being served.
Idle == \A p \in Proc : call[p].at = "idle" /\ call[p].op = "none"

LEMMA IdleParts ==
  ASSUME Idle
  PROVE  /\ Alone /\ Sole /\ Dooms /\ NewEntries /\ Fresh
         /\ \A p \in Proc : CallKnown(call[p]) /\ ~Writes(call[p]) /\ ~Registers(call[p]) /\ ~Reads(call[p])
<1>1. \A p \in Proc : CallKnown(call[p]) /\ ~Writes(call[p]) /\ ~Registers(call[p]) /\ ~Reads(call[p])
  BY DEF Idle, CallKnown, Deciding, Writes, Writing, Registers, Reads
<1>2. Alone /\ Sole /\ Fresh
  BY <1>1 DEF Alone, Sole, Fresh
<1>3. Dooms /\ NewEntries
  BY DEF Idle, Dooms, NewEntries
<1>4. QED
  BY <1>1, <1>2, <1>3

LEMMA InitSafety == Init => SafetyInv
<1> SUFFICES ASSUME Init PROVE SafetyInv
  OBVIOUS
<1> DEFINE r == [root |-> TRUE, perms |-> {}]
<1>1. TypeOK
  BY InitTypeOK
<1>2. Idle
  BY NoCallIs DEF Init, Idle
<1>3. /\ \A p \in Proc : call[p] = NoCall
      /\ DOMAIN users = {Root} /\ users[Root].uuid = RootUUID /\ DOMAIN dir = {RootUUID} /\ dir[RootUUID] = r
      /\ past.given = {<<Root, r>>} /\ past.acked = {} /\ past.undone = {} /\ past.rolledBack = {}
      /\ content = {} /\ tokens = {Claims(Root, r)} /\ cache = <<>>
  BY DEF Init
<1>4. DOMAIN past.granted = {}
  BY DEF Init
<1>5. r \in Rights /\ Root \in MaybeId
  BY DEF Rights, Root, MaybeId
<1> HIDE DEF r
<1>6. Owners
  <2>1. ASSUME NEW i, NEW u, Ref(i, u) PROVE i = Root /\ u = RootUUID
    BY <1>2, <1>3, <2>1 DEF Ref, Holds, Holding, Idle
  <2>2. OneOwner
    BY <2>1 DEF OneOwner
  <2>3. EntriesGiven
    BY <1>3, <2>1 DEF EntriesGiven
  <2>4. QED
    BY <2>2, <2>3 DEF Owners
<1>7. Knowledge
  <2>1. Claims(Root, r).sub = Root /\ RightsOf(Claims(Root, r)) = r
    BY <1>5, ClaimsAre
  <2>2. \A t \in tokens : Known(t.sub, RightsOf(t))
    BY <1>3, <2>1 DEF Known
  <2>3. DOMAIN cache = {}
    BY <1>3
  <2>4. QED
    BY <1>2, <2>2, <2>3, IdleParts DEF Knowledge
<1>8. HaveRights
  BY <1>2, <1>3 DEF HaveRights, Registered, Idle
<1>9. NothingLeft /\ Settled
  BY <1>2, <1>3, <1>4 DEF NothingLeft, Settled, Idle
<1>10. Accounted
  BY <1>2, <1>3 DEF Accounted, Idle
<1>11. Tracks
  <2>1. DOMAIN cache = {}
    BY <1>3
  <2>2. QED
    BY <2>1 DEF Tracks
<1>12. QED
  BY <1>1, <1>2, <1>6, <1>7, <1>8, <1>9, <1>10, <1>11, IdleParts DEF SafetyInv

LEMMA CrashSafety ==
  ASSUME SafetyInv, Crash, Observe
  PROVE  SafetyInv'
<1>0. TypeOK /\ TypeOK'
  BY CrashType DEF SafetyInv
<1>1. /\ \A p \in Proc : call'[p] = NoCall
      /\ users' = users /\ dir' = dir /\ content' = content /\ tokens' = tokens /\ past' = past
      /\ cache' = <<>>
  BY DEF Crash
<1>2. Idle'
  BY <1>1, NoCallIs DEF Idle
<1>3. overlaps.writes \subseteq overlaps'.writes
  BY <1>0, ObserveType DEF TypeOK
<1>4. /\ Alone' /\ Sole' /\ Dooms' /\ NewEntries' /\ Fresh'
      /\ \A p \in Proc : CallKnown(call[p])' /\ ~Writes(call'[p]) /\ ~Registers(call'[p])
  <2>1. \A p \in Proc : ~Writes(call'[p]) /\ ~Registers(call'[p]) /\ ~Reads(call'[p])
    BY <1>2 DEF Idle, Writes, Writing, Registers, Reads
  <2>2. \A p \in Proc : CallKnown(call[p])'
    BY <1>2 DEF Idle, CallKnown, Deciding
  <2>3. Alone' /\ Sole' /\ Fresh'
    BY <2>1 DEF Alone, Sole, Fresh, Writes, Registers, Reads
  <2>4. Dooms' /\ NewEntries'
    BY <1>2 DEF Idle, Dooms, NewEntries
  <2>5. QED
    BY <2>1, <2>2, <2>3, <2>4
<1>5. DOMAIN cache' = {}
  BY <1>1
<1>6. Owners'
  <2>1. ASSUME NEW i, NEW u, Ref(i, u)' PROVE Ref(i, u)
    BY <1>1, <1>2, <2>1 DEF Ref, Holds, Holding, Idle
  <2>2. OneOwner /\ EntriesGiven
    BY DEF SafetyInv, Owners
  <2>3. OneOwner'
    BY <2>1, <2>2 DEF OneOwner
  <2>4. EntriesGiven'
    BY <1>1, <2>1, <2>2 DEF EntriesGiven
  <2>5. QED
    BY <2>3, <2>4 DEF Owners
<1>7. Knowledge'
  <2>1. Knowledge
    BY DEF SafetyInv
  <2>2. \A t \in tokens : Known(t.sub, RightsOf(t))'
    BY <1>1, <2>1 DEF Knowledge, Known
  <2>3. QED
    BY <1>1, <1>4, <1>5, <2>2 DEF Knowledge
<1>8. HaveRights'
  <2>1. HaveRights
    BY DEF SafetyInv
  <2>2. QED
    BY <1>1, <1>2, <2>1 DEF HaveRights, Registered, Idle
<1>9. NothingLeft'
  <2>1. NothingLeft
    BY DEF SafetyInv
  <2>2. QED
    BY <1>1, <1>2, <1>3, <1>4, <2>1 DEF NothingLeft, Idle
<1>10. Settled'
  <2>1. Settled
    BY DEF SafetyInv
  <2>2. QED
    BY <1>1, <1>2, <1>3, <1>4, <2>1 DEF Settled, Idle
<1>11. Accounted'
  <2>1. Accounted
    BY DEF SafetyInv
  <2>2. QED
    BY <1>1, <1>2, <1>4, <2>1 DEF Accounted, Idle
<1>12. Tracks'
  BY <1>5 DEF Tracks
<1>13. QED
  BY <1>0, <1>4, <1>6, <1>7, <1>8, <1>9, <1>10, <1>11, <1>12 DEF SafetyInv

LEMMA StepSafety ==
  ASSUME SafetyInv, NEW p \in Proc, Calls(p) \/ Steps(p), Observe, TypeOK'
  PROVE  SafetyInv'
<1>1. TypeOK /\ Moves(p)
  BY StepMoves DEF SafetyInv
<1>2. /\ Owners /\ Knowledge /\ Alone /\ Sole /\ Dooms /\ NewEntries /\ HaveRights
      /\ NothingLeft /\ Settled /\ Accounted /\ Fresh /\ Tracks
  BY DEF SafetyInv
<1>3. Owners'
  BY <1>1, <1>2, OneOwnerKept, EntriesGivenKept DEF Owners
<1>4. Knowledge' /\ HaveRights'
  BY <1>1, <1>2, KnowledgeKept, HaveRightsKept
<1>5. Alone' /\ Sole' /\ Dooms' /\ NewEntries'
  BY <1>1, <1>2, AloneKept, SoleKept, DoomsKept, NewEntriesKept
<1>6. NothingLeft' /\ Settled'
  BY <1>1, <1>2, NothingLeftKept, SettledKept
<1>7. Accounted' /\ Fresh' /\ Tracks'
  BY <1>1, <1>2, AccountedKept, FreshKept, TracksKept
<1>8. QED
  BY <1>3, <1>4, <1>5, <1>6, <1>7 DEF SafetyInv

LEMMA StutterSafety ==
  ASSUME SafetyInv, UNCHANGED vars
  PROVE  SafetyInv'
<1>1. TypeOK'
  BY StutterType DEF SafetyInv
<1>2. /\ users' = users /\ dir' = dir /\ content' = content /\ tokens' = tokens /\ cache' = cache
      /\ call' = call /\ past' = past /\ overlaps' = overlaps
  BY DEF vars, data
<1>3. Owners' /\ Knowledge'
  BY <1>2 DEF SafetyInv, Owners, OneOwner, EntriesGiven, Ref, Holds, Knowledge, Known, CallKnown
<1>4. Alone' /\ Sole' /\ Dooms' /\ NewEntries'
  BY <1>2 DEF SafetyInv, Alone, Sole, Dooms, NewEntries
<1>5. HaveRights' /\ NothingLeft' /\ Settled' /\ Accounted'
  BY <1>2 DEF SafetyInv, HaveRights, Registered, NothingLeft, Settled, Accounted
<1>6. Fresh' /\ Tracks'
  BY <1>2 DEF SafetyInv, Fresh, Tracks, Caller
<1>7. QED
  BY <1>1, <1>3, <1>4, <1>5, <1>6 DEF SafetyInv

(* What the proofs of the properties below rest on: every part of the       *)
(* inductive invariant holds of every behaviour, however many requests,     *)
(* accounts, faults and crashes there are.                                  *)
THEOREM AccountsSafety == Spec => []SafetyInv
<1>1. Init => SafetyInv
  BY InitSafety
<1>2. SafetyInv /\ [Next]_vars => SafetyInv'
  <2> SUFFICES ASSUME SafetyInv, [Next]_vars PROVE SafetyInv'
    OBVIOUS
  <2>1. CASE UNCHANGED vars
    BY <2>1, StutterSafety
  <2>2. CASE Next
    <3>1. TypeOK' /\ Observe
      BY <2>2, TypeKept DEF SafetyInv, Next
    <3>2. CASE Crash
      BY <3>1, <3>2, CrashSafety
    <3>3. ASSUME NEW p \in Proc, Calls(p) \/ Steps(p) PROVE SafetyInv'
      BY <3>1, <3>3, StepSafety
    <3>4. QED
      BY <2>2, <3>2, <3>3 DEF Next
  <2>3. QED
    BY <2>1, <2>2
<1>3. QED
  BY <1>1, <1>2, PTL DEF Spec

-----------------------------------------------------------------------------
(* The properties.                                                         *)

(* A request is decided by rights its caller was given, or by none          *)
(* (currentPermissions), whichever of the directory, the cache and the      *)
(* token it was that answered.                                              *)
THEOREM RequestsDecidedByGivenRights == Spec => []NothingUngranted
<1>1. SafetyInv => NothingUngranted
  <2> SUFFICES ASSUME SafetyInv, NEW p \in Proc, At(p, "handle")
               PROVE  RightsOf(call[p].claims) \in {NoRights} \cup {g[2] : g \in {g \in past.given : g[1] = Caller(p)}}
    BY DEF NothingUngranted
  <2> DEFINE r == RightsOf(call[p].claims)
  <2>1. Known(Caller(p), r)
    BY DEF SafetyInv, Knowledge, CallKnown, At, Deciding, Caller
  <2> HIDE DEF r
  <2>2. CASE <<Caller(p), r>> \in past.given
    <3> DEFINE g == <<Caller(p), r>>
    <3>1. g[1] = Caller(p) /\ g[2] = r /\ g \in past.given
      BY <2>2
    <3> HIDE DEF g
    <3>2. g \in {h \in past.given : h[1] = Caller(p)}
      BY <3>1
    <3>3. QED
      BY <3>1, <3>2 DEF r
  <2>3. QED
    BY <2>1, <2>2 DEF Known, r
<1>2. QED
  BY <1>1, AccountsSafety, PTL

(* An account whose registration was acknowledged keeps its row and its     *)
(* rights until an administrator deletes it (registerHandler).              *)
THEOREM AcknowledgedAccountsHaveRights == Spec => []AckedAccountHasRights
<1>1. SafetyInv => AckedAccountHasRights
  <2>1. ASSUME SafetyInv PROVE past.acked \subseteq Nat
    BY <2>1 DEF SafetyInv, TypeOK, PastOK
  <2>2. QED
    BY <2>1 DEF SafetyInv, HaveRights, Registered, AckedAccountHasRights
<1>2. QED
  BY <1>1, AccountsSafety, PTL

(* A rollback that went through has removed the row, and the entry that it  *)
(* was told of, and nothing brings them back (registerHandler), unless      *)
(* another call was writing the account.                                    *)
THEOREM RollbackHolds == Spec => []RolledBackStaysGone
<1>1. SafetyInv => RolledBackStaysGone
  BY DEF SafetyInv, NothingLeft, RolledBackStaysGone
<1>2. QED
  BY <1>1, AccountsSafety, PTL

(* An acknowledged assignment of rights stays in force until the next one   *)
(* or the account's deletion (assignPermissionsHandler), unless two calls   *)
(* were writing the account at once.                                        *)
THEOREM AcknowledgedGrantKept == Spec => []GrantKept
<1>1. SafetyInv => GrantKept
  BY DEF SafetyInv, Settled, GrantKept
<1>2. QED
  BY <1>1, AccountsSafety, PTL

(* The cache holds at most maxCachedPermissions entries, one for an account *)
(* and each the last reading of the directory (permissionCache.remember),   *)
(* unless two readings of the account were to be remembered at once.        *)
THEOREM CacheHoldsLastReading == Spec => []CacheTracksReads
<1>1. SafetyInv => CacheTracksReads
  <2> SUFFICES ASSUME SafetyInv PROVE CacheTracksReads
    OBVIOUS
  <2>1. Len(cache) <= MaxCached /\ \A k, l \in DOMAIN cache : cache[k].id = cache[l].id => k = l
    BY DEF SafetyInv, TypeOK, CacheOK
  <2>2. ASSUME NEW k \in DOMAIN cache
        PROVE  /\ Cached(cache[k].id) = {k}
               /\ cache[k].id \notin overlaps.reads /\ Readers(cache[k].id) = {} =>
                    cache[k].rights = past.read[cache[k].id]
    <3>1. Cached(cache[k].id) = {k}
      BY <2>1 DEF Cached
    <3>2. Readers(cache[k].id) = {} => \A p \in Proc : ~(Reads(call[p]) /\ Caller(p) = cache[k].id)
      BY DEF Readers, At, Reads
    <3>3. QED
      BY <3>1, <3>2 DEF SafetyInv, Tracks
  <2>3. QED
    BY <2>1, <2>2 DEF CacheTracksReads
<1>2. QED
  BY <1>1, AccountsSafety, PTL

(* A vote that is left under an account without a row was cast when its     *)
(* deletion had swept the repository already (deleteUserHandler), or the    *)
(* account was a registration that has been rolled back (registerHandler).  *)
THEOREM DeletionLeavesOnlyLateVotes == Spec => []NothingLeftUnderDeletedId
<1>1. SafetyInv => NothingLeftUnderDeletedId
  BY DEF SafetyInv, Accounted, NothingLeftUnderDeletedId
<1>2. QED
  BY <1>1, AccountsSafety, PTL
=============================================================================
