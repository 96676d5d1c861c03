---------------------------- MODULE RoutesProofs ----------------------------
(* That the properties of the routes hold for every value of the constants: *)
(* any number of texts, users, devices, requests and faults, and deliveries *)
(* that overlap, which the runs of Routes keep apart.                       *)
EXTENDS Routes, FiniteSetTheorems, SequenceTheorems, WellFoundedInduction, TLAPS

-----------------------------------------------------------------------------
(* The inductive invariant.                                                *)

Who == User \cup {None}
Author == User \cup {Seed, None}
Server == Proc \cup {Worker}

Op == {"none", "index", "propose", "close", "indexFork", "prune", "schedule", "chain", "forget",
       "delete", "unindex", "purge", "unfollow", "row", "unregister"}
Stage == {"resolve", "recipients", "addresses", "dispatch", "done"}

TextRec ==
  [exists : BOOLEAN, previous : Nat, createdBy : User, next : Nat, slots : BOOLEAN,
   closeBy : Who, asked : Who, first : Nat]
EventRec ==
  [type : EventType, text : Nat, by : Who, author : Author, at : Stage, to : SUBSET User,
   tokens : SUBSET Device, saved : BOOLEAN, lost : BOOLEAN, version : Nat, doer : Who,
   owed : SUBSET User, left : SUBSET Who, kept : SUBSET Who]
RowRec == [event : Nat]

\* A request has its fields; the set it carries is of texts or of devices.
IsCall(c) == c \in [op : Op, by : Who, text : Nat, doer : Who, texts : {c.texts}]

\* A version that was replaced has no open round, and a round that is to be
\* closed keeps who asked for it.
TextsOK ==
  /\ texts \in Seq(TextRec)
  /\ \A t \in Ids :
       /\ texts[t].closeBy # None => texts[t].asked = texts[t].closeBy
       /\ texts[t].previous # 0 => texts[t].previous \in Ids /\ ~RoundOpen(texts[t].previous)

TablesOK ==
  /\ fragments \subseteq Ids \X Author /\ accounts \subseteq User
  /\ devices \in [Device -> Who] /\ signedIn \in [Device -> Who]
  /\ index \subseteq Ids /\ astray \subseteq Ids
  /\ \A d \in due : d.text \in Ids /\ d.by \in Who /\ d.doer = d.by

\* A request acts for who makes it, on a text that was created once; what is
\* to be taken from the index was deleted.
OnText == {"index", "propose", "close", "indexFork", "prune", "schedule", "delete", "unindex"}
CallOK(c) ==
  /\ IsCall(c) /\ c.doer = c.by
  /\ c.op \in OnText => c.text \in Ids
  /\ c.op = "unindex" => ~Exists(c.text)
  /\ c.op = "purge" => \A t \in c.texts : t \in Ids /\ ~Exists(t)
CallsOK == DOMAIN call = Server /\ \A p \in Server : CallOK(call[p])

\* An event is about the version it is news of, and is not for who brought it about.
EventsOK ==
  /\ events \in Seq(EventRec)
  /\ \A i \in DOMAIN events :
       LET e == events[i]
       IN  /\ e.text \in Ids /\ e.version = e.text /\ e.by = e.doer /\ e.doer \notin e.to \cup e.owed
           /\ e.lost => e.saved \/ e.at = "done"

\* As long as its version is the current one, who is owed an event is found
\* where its delivery looks next, and in the end in the inbox.
Hears(i, e) ==
  RoundOpen(e.version) /\ ~e.lost =>
    /\ e.at \in {"resolve", "recipients"} => e.owed \subseteq Followers(e.text)
    /\ e.at \in {"addresses", "dispatch"} /\ ~e.saved => e.owed \subseteq e.to
    /\ e.saved \/ e.at = "done" =>
         \A u \in e.owed \cap accounts : \E row \in inbox[u] : row.event = i
HearOK == \A i \in DOMAIN events : Hears(i, events[i])

\* The rows of an inbox are about events there were, none of them its owner's
\* doing.
RowsOK(rows, u) ==
  /\ rows \subseteq RowRec
  /\ \A r \in rows : r.event \in DOMAIN events /\ events[r.event].doer # u
InboxOK == DOMAIN inbox = User /\ \A u \in User : RowsOK(inbox[u], u)

\* A token that is not its user's any more is about to be forgotten, unless a
\* call failed.
SigningOff(c, d) == c.op = "unregister" /\ d \in c.texts
DevicesOK ==
  \A d \in Device \ unserved :
    IF signedIn[d] # None THEN devices[d] = signedIn[d]
    ELSE devices[d] = None \/ \E p \in Proc : SigningOff(call[p], d) /\ call[p].by = devices[d]

\* What the index lacks is about to be added, and what it has too much is
\* about to be removed.
Adding(c, t) == c.op \in {"index", "indexFork"} /\ c.text = t
Removing(c, t) == (c.op = "unindex" /\ c.text = t) \/ (c.op = "purge" /\ t \in c.texts)
SearchOK ==
  \A t \in Ids \ astray :
    /\ RoundOpen(t) => t \in index \/ \E p \in Server : Adding(call[p], t)
    /\ t \in index /\ ~IsSuperseded(t) => Exists(t) \/ \E p \in Server : Removing(call[p], t)

RoutesInv ==
  /\ TextsOK /\ TablesOK /\ CallsOK
  /\ EventsOK /\ HearOK /\ InboxOK
  /\ DevicesOK /\ SearchOK

-----------------------------------------------------------------------------
(* What is kept by a step that leaves the part of the state alone.         *)

\* Texts are never taken away nor brought back, and a round never opens again.
TextsGrow ==
  /\ Len(texts) <= Len(texts')
  /\ \A t \in Ids :
       /\ texts'[t].exists => texts[t].exists
       /\ texts'[t].exists /\ texts'[t].next = 0 => texts[t].next = 0

LEMMA IdsAre ==
  ASSUME TextsOK
  PROVE  /\ Len(texts) \in Nat /\ Ids = 1 .. Len(texts) /\ DOMAIN texts = Ids /\ Ids \subseteq Nat
         /\ \A t \in Ids : texts[t] \in TextRec
BY DEF TextsOK, Ids

LEMMA IdsGrow ==
  ASSUME TextsOK, TextsOK', TextsGrow
  PROVE  Ids \subseteq Ids' /\ \A t \in Ids : (RoundOpen(t)' => RoundOpen(t)) /\ (Exists(t)' => Exists(t))
<1>1. Len(texts) \in Nat /\ Len(texts') \in Nat
  BY DEF TextsOK
<1>2. Ids \subseteq Ids'
  BY <1>1 DEF TextsGrow, Ids
<1>3. QED
  BY <1>2 DEF TextsGrow, RoundOpen, Exists

LEMMA TextsStay ==
  ASSUME TextsOK, texts' = texts
  PROVE  TextsOK' /\ TextsGrow /\ Ids' = Ids
<1>1. Ids' = Ids /\ Len(texts) \in Nat
  BY DEF TextsOK, Ids
<1>2. \A t \in Ids : RoundOpen(t)' <=> RoundOpen(t)
  BY DEF RoundOpen, Exists
<1>3. TextsOK'
  BY <1>1, <1>2 DEF TextsOK
<1>4. QED
  BY <1>1, <1>3 DEF TextsGrow

\* A request as it should be after the step.
CallNow(c) ==
  /\ IsCall(c) /\ c.doer = c.by
  /\ c.op \in OnText => c.text \in Ids'
  /\ c.op = "unindex" => ~texts'[c.text].exists
  /\ c.op = "purge" => \A t \in c.texts : t \in Ids' /\ ~texts'[t].exists

LEMMA CallStays ==
  ASSUME TextsOK, TextsOK', TextsGrow, NEW c, CallOK(c)
  PROVE  CallNow(c)
<1>1. Ids \subseteq Ids' /\ \A t \in Ids : texts'[t].exists => texts[t].exists
  BY IdsGrow DEF TextsGrow
<1>2. QED
  BY <1>1 DEF CallOK, CallNow, Exists, OnText

LEMMA CallsNow ==
  ASSUME DOMAIN call' = Server, \A p \in Server : CallNow(call'[p])
  PROVE  CallsOK'
BY DEF CallsOK, CallOK, CallNow, Exists, IsCall

LEMMA CallsKept ==
  ASSUME TextsOK, TextsOK', TextsGrow, CallsOK, call' = call
  PROVE  CallsOK'
<1>1. \A p \in Server : CallNow(call[p])
  BY CallStays DEF CallsOK
<1>2. QED
  BY <1>1, CallsNow DEF CallsOK

LEMMA CallStep ==
  ASSUME TextsOK, TextsOK', TextsGrow, CallsOK, NEW p \in Server, NEW c, Becomes(p, c), CallNow(c)
  PROVE  /\ CallsOK'
         /\ call'[p] = c /\ \A q \in Server : q # p => call'[q] = call[q]
<1>1. DOMAIN call' = Server /\ call'[p] = c /\ \A q \in Server : q # p => call'[q] = call[q]
  BY DEF CallsOK, Becomes
<1>2. \A q \in Server : CallNow(call[q])
  BY CallStays DEF CallsOK
<1>3. QED
  BY <1>1, <1>2, CallsNow

LEMMA NoCallIs ==
  /\ IsCall(NoCall) /\ NoCall.op = "none" /\ NoCall.by = None /\ NoCall.doer = None
  /\ CallNow(NoCall)
<1>1. IsCall(NoCall)
  <2>1. NoCall.texts = {}
    BY DEF NoCall
  <2>2. None \in Who
    BY DEF Who
  <2>3. "none" \in Op
    BY DEF Op
  <2>4. QED
    BY <2>1, <2>2, <2>3 DEF NoCall, IsCall
<1>2. QED
  BY <1>1 DEF NoCall, CallNow, OnText

LEMMA RequestIs ==
  ASSUME NEW op \in Op, NEW u \in Who, NEW t \in Nat
  PROVE  LET c == Request(op, u, t)
         IN  IsCall(c) /\ c.op = op /\ c.by = u /\ c.doer = u /\ c.text = t /\ c.texts = {}
BY DEF Request, NoCall, IsCall, Who

LEMMA GoesIs ==
  ASSUME NEW c, IsCall(c), NEW op \in Op
  PROVE  LET d == [c EXCEPT !.op = op]
         IN  IsCall(d) /\ d.op = op /\ d.by = c.by /\ d.doer = c.doer /\ d.text = c.text /\ d.texts = c.texts
BY DEF IsCall

LEMMA EventsStay ==
  ASSUME TextsOK, TextsOK', TextsGrow, EventsOK, events' = events
  PROVE  EventsOK'
BY IdsGrow DEF EventsOK

\* A delivery as it should be after the step.
HearsNow(i, e) ==
  texts'[e.version].exists /\ texts'[e.version].next = 0 /\ ~e.lost =>
    /\ e.at \in {"resolve", "recipients"} => \A u \in e.owed : <<u, e.text>> \in follows'
    /\ e.at \in {"addresses", "dispatch"} /\ ~e.saved => e.owed \subseteq e.to
    /\ e.saved \/ e.at = "done" =>
         \A u \in e.owed \cap accounts' : \E row \in inbox'[u] : row.event = i

LEMMA HearNow ==
  ASSUME events' \in Seq(EventRec), \A i \in DOMAIN events' : HearsNow(i, events'[i])
  PROVE  HearOK'
<1>1. \A i \in DOMAIN events' : events'[i].owed \subseteq User
  <2>1. \A i \in DOMAIN events' : events'[i] \in EventRec
    OBVIOUS
  <2>2. QED
    BY <2>1 DEF EventRec
<1>2. QED
  BY <1>1 DEF HearOK, Hears, HearsNow, RoundOpen, Exists, Followers

LEMMA HearStays ==
  ASSUME TextsOK, TextsGrow, EventsOK, HearOK, NEW i \in DOMAIN events,
         \A u \in events[i].owed : <<u, events[i].text>> \in follows => <<u, events[i].text>> \in follows'
                                   \/ ~(texts'[events[i].text].exists /\ texts'[events[i].text].next = 0),
         accounts' \subseteq accounts,
         \A u \in events[i].owed \cap accounts' : \A row \in inbox[u] :
           row.event = i => \E r \in inbox'[u] : r.event = i
  PROVE  HearsNow(i, events[i])
<1> DEFINE e == events[i]
<1>1. e.version = e.text /\ e.text \in Ids
  BY DEF EventsOK
<1>2. Hears(i, e)
  BY DEF HearOK
<1> HIDE DEF e
<1>3. SUFFICES ASSUME texts'[e.version].exists, texts'[e.version].next = 0, ~e.lost
      PROVE  /\ e.at \in {"resolve", "recipients"} => \A u \in e.owed : <<u, e.text>> \in follows'
             /\ e.at \in {"addresses", "dispatch"} /\ ~e.saved => e.owed \subseteq e.to
             /\ e.saved \/ e.at = "done" =>
                  \A u \in e.owed \cap accounts' : \E row \in inbox'[u] : row.event = i
  BY DEF HearsNow, e
<1>4. RoundOpen(e.version)
  BY <1>1, <1>3 DEF TextsGrow, RoundOpen, Exists
<1>5. e.at \in {"resolve", "recipients"} => \A u \in e.owed : <<u, e.text>> \in follows'
  BY <1>1, <1>2, <1>3, <1>4 DEF Hears, Followers, e
<1>6. e.at \in {"addresses", "dispatch"} /\ ~e.saved => e.owed \subseteq e.to
  BY <1>2, <1>3, <1>4 DEF Hears
<1>7. e.saved \/ e.at = "done" => \A u \in e.owed \cap accounts' : \E row \in inbox'[u] : row.event = i
  BY <1>2, <1>3, <1>4 DEF Hears, e
<1>8. QED
  BY <1>5, <1>6, <1>7

\* Nothing that the deliveries depend on is taken away.
LEMMA HearKept ==
  ASSUME TextsOK, TextsGrow, EventsOK, HearOK, events' = events, follows \subseteq follows',
         accounts' = accounts, inbox' = inbox
  PROVE  HearOK'
<1>1. \A i \in DOMAIN events : HearsNow(i, events[i])
  BY HearStays
<1>2. QED
  BY <1>1, HearNow DEF EventsOK

LEMMA InboxStays ==
  ASSUME InboxOK, inbox' = inbox, DOMAIN events \subseteq DOMAIN events',
         \A i \in DOMAIN events : events'[i].doer = events[i].doer
  PROVE  InboxOK'
BY DEF InboxOK, RowsOK

LEMMA DevicesStay ==
  ASSUME DevicesOK, devices' = devices, signedIn' = signedIn, unserved' = unserved,
         \A q \in Proc : call[q].op = "unregister" => call'[q] = call[q]
  PROVE  DevicesOK'
BY DEF DevicesOK, SigningOff

LEMMA SearchStays ==
  ASSUME SearchOK, texts' = texts, index' = index, astray' = astray,
         \A q \in Server, t \in Ids : Adding(call[q], t) \/ Removing(call[q], t) => call'[q] = call[q]
  PROVE  SearchOK'
<1>1. /\ Ids' = Ids
      /\ \A t \in Ids : (RoundOpen(t)' <=> RoundOpen(t)) /\ (Exists(t)' <=> Exists(t))
                        /\ (IsSuperseded(t)' <=> IsSuperseded(t))
  BY DEF Ids, RoundOpen, Exists, IsSuperseded
<1>2. \A t \in Ids : (\E q \in Server : Adding(call[q], t)) => \E q \in Server : Adding(call'[q], t)
  BY Zenon
<1>3. \A t \in Ids : (\E q \in Server : Removing(call[q], t)) => \E q \in Server : Removing(call'[q], t)
  BY Zenon
<1>4. QED
  BY <1>1, <1>2, <1>3 DEF SearchOK, Adding, Removing

LEMMA TablesStay ==
  ASSUME TextsOK, TextsOK', TextsGrow, TablesOK, UNCHANGED <<fragments, accounts, owners, search, due>>
  PROVE  TablesOK'
BY IdsGrow DEF TablesOK, search, owners

-----------------------------------------------------------------------------
(* Steps of a request that only move it on.                                *)

\* A request of which neither the index nor a device is waiting.
Awaited(c) == c.op = "unregister" \/ \E t \in Ids : Adding(c, t) \/ Removing(c, t)

LEMMA CallOnly ==
  ASSUME RoutesInv, NEW p \in Server, ~Awaited(call[p]), NEW c, Becomes(p, c), CallNow(c),
         UNCHANGED <<store, tables, search, due, events>>
  PROVE  RoutesInv'
<1>1. /\ TextsOK /\ TablesOK /\ CallsOK /\ EventsOK /\ HearOK /\ InboxOK /\ DevicesOK /\ SearchOK
  BY DEF RoutesInv
<1>2. /\ texts' = texts /\ fragments' = fragments /\ follows' = follows /\ accounts' = accounts
      /\ inbox' = inbox /\ devices' = devices /\ signedIn' = signedIn /\ unserved' = unserved /\ index' = index
      /\ astray' = astray /\ due' = due /\ events' = events
  BY DEF store, tables, owners, search
<1>3. TextsOK' /\ TextsGrow
  BY <1>1, <1>2, TextsStay
<1>4. CallsOK' /\ \A q \in Server : q # p => call'[q] = call[q]
  BY <1>1, <1>3, CallStep
<1>5. TablesOK' /\ EventsOK' /\ HearOK' /\ InboxOK'
  BY <1>1, <1>2, <1>3, TablesStay, EventsStay, HearKept, InboxStays DEF search, owners
<1>6. DevicesOK'
  BY <1>1, <1>2, <1>4, DevicesStay DEF Awaited, Server
<1>7. SearchOK'
  BY <1>1, <1>2, <1>4, SearchStays DEF Awaited
<1>8. QED
  BY <1>3, <1>4, <1>5, <1>6, <1>7 DEF RoutesInv

LEMMA NoCallQuiet == ~Awaited(NoCall)
BY NoCallIs DEF Awaited, Adding, Removing

LEMMA GateInv ==
  ASSUME RoutesInv, NEW p \in Proc, NEW kind, NEW op \in {"propose", "close", "schedule", "delete"},
         NEW u \in User, NEW t \in Ids, NEW a, Gate(p, kind, op, u, t, a)
  PROVE  RoutesInv'
<1> DEFINE c == Request(op, u, t)
<1>1. /\ call[p] = NoCall /\ Becomes(p, c) /\ UNCHANGED <<store, tables, search, due, events>>
  BY DEF Gate, Arrives
<1>2. TextsOK /\ texts' = texts /\ Ids' = Ids /\ t \in Nat
  <2>1. TextsOK /\ texts' = texts
    BY <1>1 DEF RoutesInv, store
  <2>2. QED
    BY <2>1, TextsStay, IdsAre
<1>3. op \in Op /\ u \in Who
  BY DEF Op, Who
<1>4. IsCall(c) /\ c.op = op /\ c.doer = c.by /\ c.text = t
  BY <1>2, <1>3, RequestIs
<1> HIDE DEF c
<1>5. CallNow(c)
  BY <1>2, <1>4 DEF CallNow
<1>6. QED
  BY <1>1, <1>5, NoCallQuiet, CallOnly DEF Server

LEMMA ReadChainInv ==
  ASSUME RoutesInv, NEW p \in Server, ReadChain(p)
  PROVE  RoutesInv'
<1>1. PICK T : /\ Becomes(p, [call[p] EXCEPT !.op = "forget", !.texts = T])
               /\ call[p].op = "chain" /\ UNCHANGED <<store, tables, search, due, events>>
  BY DEF ReadChain, At
<1> DEFINE c == [call[p] EXCEPT !.op = "forget", !.texts = T]
<1>2. IsCall(call[p]) /\ call[p].doer = call[p].by
  BY DEF RoutesInv, CallsOK, CallOK
<1>3. IsCall(c) /\ c.op = "forget" /\ c.doer = c.by
  <2>1. "forget" \in Op
    BY DEF Op
  <2>2. QED
    BY <1>2, <2>1 DEF IsCall
<1> HIDE DEF c
<1>4. CallNow(c)
  BY <1>3 DEF CallNow, OnText
<1>5. ~Awaited(call[p])
  BY <1>1 DEF Awaited, Adding, Removing
<1>6. QED
  BY <1>1, <1>4, <1>5, CallOnly DEF c

LEMMA CallFailsInv ==
  ASSUME RoutesInv, NEW p \in Server, CallFails(p)
  PROVE  RoutesInv'
<1>1. Becomes(p, NoCall) /\ UNCHANGED <<store, tables, search, due, events>>
  BY DEF CallFails, Returns
<1>2. ~Awaited(call[p])
  BY DEF CallFails, At, Awaited, Adding, Removing
<1>3. QED
  BY <1>1, <1>2, NoCallIs, CallOnly

LEMMA CloseDueInv ==
  ASSUME RoutesInv, CloseDue
  PROVE  RoutesInv'
<1>1. PICK d \in due : /\ due' = due \ {d} /\ call[Worker] = NoCall
                       /\ Becomes(Worker, [Request("close", d.by, d.text) EXCEPT !.doer = d.doer])
                       /\ UNCHANGED <<store, tables, search, events>>
  BY DEF CloseDue
<1> DEFINE b == Request("close", d.by, d.text)
           c == [b EXCEPT !.doer = d.doer]
<1>2. d.text \in Ids /\ d.by \in Who /\ d.doer = d.by /\ TextsOK
  BY DEF RoutesInv, TablesOK
<1>3. /\ TextsOK /\ TablesOK /\ CallsOK /\ EventsOK /\ HearOK /\ InboxOK /\ DevicesOK /\ SearchOK
  BY DEF RoutesInv
<1>4. /\ texts' = texts /\ fragments' = fragments /\ follows' = follows /\ accounts' = accounts
      /\ inbox' = inbox /\ devices' = devices /\ signedIn' = signedIn /\ unserved' = unserved /\ index' = index
      /\ astray' = astray /\ events' = events
  BY <1>1 DEF store, tables, owners, search
<1>5. TextsOK' /\ TextsGrow /\ Ids' = Ids
  BY <1>3, <1>4, TextsStay
<1>6. "close" \in Op /\ d.text \in Nat
  BY <1>2, IdsAre DEF Op
<1>7. IsCall(b) /\ b.op = "close" /\ b.by = d.by /\ b.doer = d.by /\ b.text = d.text
  BY <1>2, <1>6, RequestIs
<1> HIDE DEF b
<1>8. IsCall(c) /\ c.op = "close" /\ c.doer = c.by /\ c.text = d.text
  BY <1>2, <1>7 DEF IsCall
<1> HIDE DEF c
<1>9. CallNow(c)
  BY <1>2, <1>5, <1>8 DEF CallNow
<1>10. CallsOK' /\ \A q \in Server : q # Worker => call'[q] = call[q]
  BY <1>1, <1>3, <1>5, <1>9, CallStep DEF b, c, Server
<1>11. TablesOK'
  BY <1>1, <1>3, <1>4, <1>5 DEF TablesOK
<1>12. EventsOK' /\ HearOK' /\ InboxOK'
  BY <1>3, <1>4, <1>5, EventsStay, HearKept, InboxStays
<1>13. ~Awaited(call[Worker])
  BY <1>1, NoCallQuiet
<1>14. DevicesOK'
  BY <1>3, <1>4, <1>10, <1>13, DevicesStay DEF Awaited, Server
<1>15. SearchOK'
  BY <1>3, <1>4, <1>10, <1>13, SearchStays DEF Awaited
<1>16. QED
  BY <1>5, <1>10, <1>11, <1>12, <1>14, <1>15 DEF RoutesInv

-----------------------------------------------------------------------------
(* Deliveries.                                                             *)

\* The events other than one that changes.
LEMMA DeliveryEvents ==
  ASSUME TextsOK, EventsOK, texts' = texts, NEW i \in DOMAIN events, NEW e \in EventRec, Delivery(i, e),
         e.text = events[i].text, e.version = events[i].version, e.by = events[i].by,
         e.doer = events[i].doer, e.doer \notin e.to \cup e.owed, e.lost => e.saved \/ e.at = "done"
  PROVE  /\ EventsOK' /\ events' \in Seq(EventRec) /\ DOMAIN events' = DOMAIN events /\ events'[i] = e
         /\ \A j \in DOMAIN events : events'[j].doer = events[j].doer
         /\ \A j \in DOMAIN events : j # i => events'[j] = events[j]
<1>1. events \in Seq(EventRec) /\ events' = [events EXCEPT ![i] = e]
  BY DEF EventsOK, Delivery
<1>2. events' \in Seq(EventRec)
  BY <1>1, ExceptSeq
<1>3. /\ DOMAIN events' = DOMAIN events /\ events'[i] = e
      /\ \A j \in DOMAIN events : j # i => events'[j] = events[j]
  BY <1>1
<1>4. Ids' = Ids
  BY DEF Ids
<1>5. EventsOK'
  BY <1>2, <1>3, <1>4 DEF EventsOK
<1>6. QED
  BY <1>2, <1>3, <1>5

\* A step of a delivery that writes to no inbox.
LEMMA DeliveryStep ==
  ASSUME RoutesInv, NEW i \in DOMAIN events, NEW e \in EventRec, Delivery(i, e),
         e.text = events[i].text, e.version = events[i].version, e.by = events[i].by,
         e.doer = events[i].doer, e.doer \notin e.to \cup e.owed, e.lost => e.saved \/ e.at = "done",
         Hears(i, e), UNCHANGED <<store, accounts, inbox, search, due, call>>,
         devices' \in [Device -> Who], signedIn' \in [Device -> Who], DevicesOK'
  PROVE  RoutesInv'
<1>1. /\ TextsOK /\ TablesOK /\ CallsOK /\ EventsOK /\ HearOK /\ InboxOK /\ DevicesOK /\ SearchOK
  BY DEF RoutesInv
<1>2. /\ texts' = texts /\ fragments' = fragments /\ follows' = follows /\ accounts' = accounts
      /\ inbox' = inbox /\ index' = index /\ astray' = astray /\ due' = due /\ call' = call
  BY DEF store, search
<1>3. TextsOK' /\ TextsGrow /\ Ids' = Ids
  BY <1>1, <1>2, TextsStay
<1>4. /\ EventsOK' /\ events' \in Seq(EventRec) /\ DOMAIN events' = DOMAIN events /\ events'[i] = e
      /\ \A j \in DOMAIN events : events'[j].doer = events[j].doer
      /\ \A j \in DOMAIN events : j # i => events'[j] = events[j]
  BY <1>1, <1>2, DeliveryEvents
<1>5. HearOK'
  <2>1. \A j \in DOMAIN events : HearsNow(j, events[j])
    BY <1>1, <1>2, <1>3, HearStays
  <2>2. HearsNow(i, e)
    BY <1>2 DEF Hears, HearsNow, RoundOpen, Exists, Followers
  <2>3. QED
    BY <1>4, <2>1, <2>2, HearNow
<1>6. CallsOK' /\ InboxOK' /\ SearchOK'
  BY <1>1, <1>2, <1>3, <1>4, CallsKept, InboxStays, SearchStays
<1>7. TablesOK'
  BY <1>1, <1>2, <1>3 DEF TablesOK
<1>8. QED
  BY <1>3, <1>4, <1>5, <1>6, <1>7 DEF RoutesInv

LEMMA EventIs ==
  ASSUME EventsOK, NEW i \in DOMAIN events
  PROVE  /\ events[i] \in EventRec /\ events[i].text \in Ids /\ events[i].version = events[i].text
         /\ events[i].by = events[i].doer /\ events[i].doer \notin events[i].to \cup events[i].owed
         /\ events[i].lost => events[i].saved \/ events[i].at = "done"
BY DEF EventsOK

LEMMA EndedIs ==
  ASSUME NEW x \in EventRec
  PROVE  LET y == Ended(x)
         IN  /\ y \in EventRec
             /\ y.text = x.text /\ y.version = x.version /\ y.by = x.by /\ y.doer = x.doer
             /\ y.to = x.to /\ y.owed = x.owed /\ y.saved = x.saved /\ y.lost = x.lost
             /\ y.at = x.at \/ (y.at = "done" /\ x.saved)
<1>1. "done" \in Stage
  BY DEF Stage
<1>2. QED
  BY <1>1 DEF Ended, EventRec

LEMMA GivenUpIs ==
  ASSUME NEW x \in EventRec
  PROVE  LET y == GivenUp(x)
         IN  /\ y \in EventRec
             /\ y.text = x.text /\ y.version = x.version /\ y.by = x.by /\ y.doer = x.doer
             /\ y.to = x.to /\ y.owed = x.owed /\ y.lost /\ y.at = "done"
<1>1. "done" \in Stage
  BY DEF Stage
<1>2. QED
  BY <1>1 DEF GivenUp, EventRec

LEMMA DevicesSame ==
  ASSUME RoutesInv, devices' = devices, signedIn' = signedIn, unserved' = unserved, call' = call
  PROVE  devices' \in [Device -> Who] /\ signedIn' \in [Device -> Who] /\ DevicesOK'
BY DevicesStay DEF RoutesInv, TablesOK

LEMMA ResolveVoteInv ==
  ASSUME RoutesInv, NEW i \in DOMAIN events, ResolveVote(i)
  PROVE  RoutesInv'
<1> DEFINE e == events[i]
           f == [e EXCEPT !.at = "recipients"]
<1>1. /\ e.at = "resolve" /\ UNCHANGED <<store, tables, search, due, call>>
      /\ Delivery(i, f) \/ Delivery(i, GivenUp(e))
  BY DEF ResolveVote, Goroutine
<1>2. EventsOK /\ Hears(i, e)
  BY DEF RoutesInv, HearOK
<1>3. /\ e \in EventRec /\ e.doer \notin e.to \cup e.owed
      /\ e.lost => e.saved \/ e.at = "done"
  BY <1>2, EventIs
<1>4. devices' \in [Device -> Who] /\ signedIn' \in [Device -> Who] /\ DevicesOK'
  BY <1>1, DevicesSame DEF tables, owners
<1>5. CASE Delivery(i, f)
  <2>0. "recipients" \in Stage
    BY DEF Stage
  <2> HIDE DEF e
  <2>1. /\ f \in EventRec /\ f.at = "recipients" /\ f.text = e.text /\ f.version = e.version
        /\ f.by = e.by /\ f.doer = e.doer /\ f.to = e.to /\ f.owed = e.owed /\ f.saved = e.saved
        /\ f.lost = e.lost
    BY <1>3, <2>0 DEF EventRec
  <2> HIDE DEF f
  <2>2. Hears(i, f)
    BY <1>1, <1>2, <2>1 DEF Hears
  <2>3. f.lost => f.saved \/ f.at = "done"
    BY <1>1, <1>3, <2>1
  <2>4. QED
    BY <1>1, <1>3, <1>4, <1>5, <2>1, <2>2, <2>3, DeliveryStep DEF tables, owners, e
<1>6. CASE Delivery(i, GivenUp(e))
  <2> DEFINE g == GivenUp(e)
  <2>1. /\ g \in EventRec /\ g.text = e.text /\ g.version = e.version /\ g.by = e.by /\ g.doer = e.doer
        /\ g.to = e.to /\ g.owed = e.owed /\ g.lost /\ g.at = "done"
    BY <1>3, GivenUpIs
  <2> HIDE DEF g
  <2>2. Hears(i, g)
    BY <2>1 DEF Hears
  <2>3. QED
    BY <1>1, <1>3, <1>4, <1>6, <2>1, <2>2, DeliveryStep DEF tables, owners, g
<1>7. QED
  BY <1>1, <1>5, <1>6

LEMMA RecipientsInv ==
  ASSUME RoutesInv, NEW i \in DOMAIN events, Recipients(i)
  PROVE  RoutesInv'
<1> DEFINE e == events[i]
           to == Followers(e.text) \ {e.by}
           at == IF to = {} THEN "done" ELSE "addresses"
           f == [e EXCEPT !.to = to, !.at = at]
<1>1. e.at = "recipients" /\ UNCHANGED <<store, tables, search, due, call>> /\ Delivery(i, f)
  BY DEF Recipients, Goroutine
<1>2. EventsOK /\ Hears(i, e)
  BY DEF RoutesInv, HearOK
<1>3. /\ e \in EventRec /\ e.doer \notin e.to \cup e.owed /\ e.by = e.doer
      /\ e.lost => e.saved \/ e.at = "done"
  BY <1>2, EventIs
<1>4. devices' \in [Device -> Who] /\ signedIn' \in [Device -> Who] /\ DevicesOK'
  BY <1>1, DevicesSame DEF tables, owners
<1>5. to \in SUBSET User /\ at \in Stage
  BY DEF Stage, Followers
<1>6. to = {} => at = "done"
  OBVIOUS
<1>7. to # {} => at = "addresses"
  OBVIOUS
<1>8. e.doer \notin to /\ (RoundOpen(e.version) /\ ~e.lost => e.owed \subseteq to)
  BY <1>1, <1>2, <1>3 DEF Hears
<1> HIDE DEF e, to, at
<1>9. /\ f \in EventRec /\ f.at = at /\ f.text = e.text /\ f.version = e.version
      /\ f.by = e.by /\ f.doer = e.doer /\ f.to = to /\ f.owed = e.owed /\ f.saved = e.saved
      /\ f.lost = e.lost
  BY <1>3, <1>5 DEF EventRec
<1> HIDE DEF f
<1>10. Hears(i, f)
  BY <1>1, <1>2, <1>6, <1>7, <1>8, <1>9 DEF Hears
<1>11. f.lost => f.saved \/ f.at = "done"
  BY <1>1, <1>3, <1>9
<1>12. f.doer \notin f.to \cup f.owed
  BY <1>3, <1>8, <1>9
<1>13. QED
  BY <1>1, <1>4, <1>9, <1>10, <1>11, <1>12, DeliveryStep DEF tables, owners, e

LEMMA AddressesInv ==
  ASSUME RoutesInv, NEW i \in DOMAIN events, Addresses(i)
  PROVE  RoutesInv'
<1> DEFINE e == events[i]
           tokens == {d \in Device : devices[d] \in e.to}
           f == [e EXCEPT !.at = "dispatch", !.tokens = tokens]
<1>1. e.at = "addresses" /\ UNCHANGED <<store, tables, search, due, call>> /\ Delivery(i, f)
  BY DEF Addresses, Goroutine
<1>2. EventsOK /\ Hears(i, e)
  BY DEF RoutesInv, HearOK
<1>3. /\ e \in EventRec /\ e.doer \notin e.to \cup e.owed
      /\ e.lost => e.saved \/ e.at = "done"
  BY <1>2, EventIs
<1>4. devices' \in [Device -> Who] /\ signedIn' \in [Device -> Who] /\ DevicesOK'
  BY <1>1, DevicesSame DEF tables, owners
<1>5. tokens \in SUBSET Device /\ "dispatch" \in Stage
  BY DEF Stage
<1> HIDE DEF e, tokens
<1>6. /\ f \in EventRec /\ f.at = "dispatch" /\ f.text = e.text /\ f.version = e.version
      /\ f.by = e.by /\ f.doer = e.doer /\ f.to = e.to /\ f.owed = e.owed /\ f.saved = e.saved
      /\ f.lost = e.lost
  BY <1>3, <1>5 DEF EventRec
<1> HIDE DEF f
<1>7. Hears(i, f)
  BY <1>1, <1>2, <1>6 DEF Hears
<1>8. f.lost => f.saved \/ f.at = "done"
  BY <1>1, <1>3, <1>6
<1>9. QED
  BY <1>1, <1>3, <1>4, <1>6, <1>7, <1>8, DeliveryStep DEF tables, owners, e

\* A push takes its token, whatever becomes of the device.
LEMMA PushedInv ==
  ASSUME RoutesInv, NEW i \in DOMAIN events, NEW d, events[i].at = "dispatch",
         Delivery(i, Ended([events[i] EXCEPT !.tokens = @ \ {d}])),
         UNCHANGED <<store, accounts, inbox, search, due, call>>,
         devices' \in [Device -> Who], signedIn' \in [Device -> Who], DevicesOK'
  PROVE  RoutesInv'
<1> DEFINE e == events[i]
           x == [e EXCEPT !.tokens = @ \ {d}]
           f == Ended(x)
<1>1. EventsOK /\ Hears(i, e)
  BY DEF RoutesInv, HearOK
<1>2. /\ e \in EventRec /\ e.doer \notin e.to \cup e.owed
      /\ e.lost => e.saved \/ e.at = "done"
  BY <1>1, EventIs
<1>3. e.at = "dispatch" /\ Delivery(i, f)
  OBVIOUS
<1> HIDE DEF e
<1>4. /\ x \in EventRec /\ x.text = e.text /\ x.version = e.version /\ x.by = e.by /\ x.doer = e.doer
      /\ x.to = e.to /\ x.owed = e.owed /\ x.saved = e.saved /\ x.lost = e.lost /\ x.at = e.at
  BY <1>2 DEF EventRec
<1> HIDE DEF x
<1>5. /\ f \in EventRec /\ f.text = e.text /\ f.version = e.version /\ f.by = e.by /\ f.doer = e.doer
      /\ f.to = e.to /\ f.owed = e.owed /\ f.saved = e.saved /\ f.lost = e.lost
      /\ f.at = e.at \/ (f.at = "done" /\ e.saved)
  BY <1>4, EndedIs
<1> HIDE DEF f
<1>6. Hears(i, f)
  BY <1>1, <1>3, <1>5 DEF Hears
<1>7. f.lost => f.saved \/ f.at = "done"
  BY <1>2, <1>3, <1>5
<1>8. QED
  BY <1>2, <1>3, <1>5, <1>6, <1>7, DeliveryStep DEF e

LEMMA PushInv ==
  ASSUME RoutesInv, NEW i \in DOMAIN events, NEW d, Push(i, d)
  PROVE  RoutesInv'
<1>1. /\ events[i].at = "dispatch" /\ Delivery(i, Ended([events[i] EXCEPT !.tokens = @ \ {d}]))
      /\ UNCHANGED <<store, tables, search, due, call>>
  BY DEF Push, Goroutine
<1>2. /\ devices' = devices /\ signedIn' = signedIn /\ unserved' = unserved /\ call' = call
      /\ UNCHANGED <<store, accounts, inbox, search, due, call>>
  BY <1>1 DEF tables, owners
<1>3. devices' \in [Device -> Who] /\ signedIn' \in [Device -> Who] /\ DevicesOK'
  BY <1>2, DevicesSame
<1>4. QED
  BY <1>1, <1>2, <1>3, PushedInv

LEMMA PushUnregisteredInv ==
  ASSUME RoutesInv, NEW i \in DOMAIN events, NEW d \in Device, PushUnregistered(i, d)
  PROVE  RoutesInv'
<1>1. /\ events[i].at = "dispatch" /\ Delivery(i, Ended([events[i] EXCEPT !.tokens = @ \ {d}]))
      /\ UNCHANGED <<store, accounts, inbox, search, due, call>>
      /\ devices' = [devices EXCEPT ![d] = None] /\ signedIn' = [signedIn EXCEPT ![d] = None]
      /\ unserved' = unserved /\ call' = call
  BY DEF PushUnregistered, Goroutine
<1>2. devices \in [Device -> Who] /\ signedIn \in [Device -> Who] /\ DevicesOK /\ None \in Who
  BY DEF RoutesInv, TablesOK, Who
<1>3. devices' \in [Device -> Who] /\ signedIn' \in [Device -> Who] /\ DevicesOK'
  BY <1>1, <1>2 DEF DevicesOK, SigningOff
<1>4. QED
  BY <1>1, <1>3, PushedInv

LEMMA DeliveryFailsInv ==
  ASSUME RoutesInv, NEW i \in DOMAIN events, DeliveryFails(i)
  PROVE  RoutesInv'
<1> DEFINE e == events[i]
           x == [e EXCEPT !.saved = TRUE, !.lost = TRUE]
           f == IF e.at = "dispatch" THEN Ended(x) ELSE GivenUp(e)
<1>1. UNCHANGED <<store, tables, search, due, call>> /\ Delivery(i, f)
  BY DEF DeliveryFails
<1>2. EventsOK
  BY DEF RoutesInv
<1>3. e \in EventRec /\ e.doer \notin e.to \cup e.owed
  BY <1>2, EventIs
<1>4. devices' \in [Device -> Who] /\ signedIn' \in [Device -> Who] /\ DevicesOK'
  BY <1>1, DevicesSame DEF tables, owners
<1> HIDE DEF e
<1>5. /\ x \in EventRec /\ x.text = e.text /\ x.version = e.version /\ x.by = e.by /\ x.doer = e.doer
      /\ x.to = e.to /\ x.owed = e.owed /\ x.saved /\ x.lost
  BY <1>3 DEF EventRec
<1> HIDE DEF x
<1>6. /\ f \in EventRec /\ f.text = e.text /\ f.version = e.version /\ f.by = e.by /\ f.doer = e.doer
      /\ f.to = e.to /\ f.owed = e.owed /\ f.lost /\ (f.saved \/ f.at = "done")
  BY <1>3, <1>5, EndedIs, GivenUpIs
<1> HIDE DEF f
<1>7. Hears(i, f)
  BY <1>6 DEF Hears
<1>8. QED
  BY <1>1, <1>3, <1>4, <1>6, <1>7, DeliveryStep DEF tables, owners, e

-----------------------------------------------------------------------------
(* The rows of an inbox.                                                   *)


LEMMA SaveNotificationsInv ==
  ASSUME RoutesInv, NEW i \in DOMAIN events, SaveNotifications(i)
  PROVE  RoutesInv'
<1> DEFINE e == events[i]
           whole == e.to \subseteq accounts
           x == [e EXCEPT !.saved = TRUE, !.lost = ~whole]
           f == Ended(x)
<1>1. /\ e.at = "dispatch" /\ ~e.saved /\ Delivery(i, f)
      /\ inbox' = [u \in User |-> IF whole /\ u \in e.to THEN inbox[u] \cup {Row(i)} ELSE inbox[u]]
      /\ UNCHANGED <<store, accounts, owners, search, due, call>>
  BY DEF SaveNotifications, Goroutine
<1>2. /\ TextsOK /\ TablesOK /\ CallsOK /\ EventsOK /\ HearOK /\ InboxOK /\ DevicesOK /\ SearchOK
  BY DEF RoutesInv
<1>3. /\ texts' = texts /\ fragments' = fragments /\ follows' = follows /\ accounts' = accounts
      /\ devices' = devices /\ signedIn' = signedIn /\ unserved' = unserved /\ index' = index
      /\ astray' = astray /\ due' = due /\ call' = call
  BY <1>1 DEF store, search, owners
<1>4. TextsOK' /\ TextsGrow /\ Ids' = Ids
  BY <1>2, <1>3, TextsStay
<1>5. Hears(i, e) /\ e \in EventRec /\ e.version = e.text /\ e.doer \notin e.to \cup e.owed /\ ~e.lost
  <2>1. Hears(i, e)
    BY <1>2 DEF HearOK
  <2>2. QED
    BY <1>1, <1>2, <2>1, EventIs
<1>6. whole \in BOOLEAN
  OBVIOUS
<1> HIDE DEF e, whole
<1>7. /\ x \in EventRec /\ x.text = e.text /\ x.version = e.version /\ x.by = e.by /\ x.doer = e.doer
      /\ x.to = e.to /\ x.owed = e.owed /\ x.saved /\ x.lost = ~whole /\ x.at = e.at
  BY <1>5, <1>6 DEF EventRec
<1> HIDE DEF x
<1>8. /\ f \in EventRec /\ f.text = e.text /\ f.version = e.version /\ f.by = e.by /\ f.doer = e.doer
      /\ f.to = e.to /\ f.owed = e.owed /\ f.saved /\ f.lost = ~whole
      /\ f.at \in {"dispatch", "done"}
  BY <1>1, <1>7, EndedIs
<1> HIDE DEF f
<1>9. /\ EventsOK' /\ events' \in Seq(EventRec) /\ DOMAIN events' = DOMAIN events /\ events'[i] = f
      /\ \A j \in DOMAIN events : events'[j].doer = events[j].doer
      /\ \A j \in DOMAIN events : j # i => events'[j] = events[j]
  BY <1>1, <1>2, <1>3, <1>5, <1>8, DeliveryEvents DEF e
<1>10. DOMAIN inbox' = User /\ \A u \in User : inbox[u] \subseteq inbox'[u]
  BY <1>1
<1>11. HearOK'
  <2>1. ASSUME NEW j \in DOMAIN events, j # i PROVE HearsNow(j, events'[j])
    <3>1. events'[j] = events[j] /\ accounts \subseteq User
      BY <1>2, <1>9, <2>1 DEF TablesOK
    <3>2. HearsNow(j, events[j])
      BY <1>2, <1>3, <1>4, <1>10, <3>1, HearStays
    <3>3. QED
      BY <3>1, <3>2
  <2>2. HearsNow(i, f)
    <3>1. SUFFICES ASSUME texts'[f.version].exists, texts'[f.version].next = 0, ~f.lost
          PROVE  \A u \in f.owed \cap accounts' : \E row \in inbox'[u] : row.event = i
      BY <1>8 DEF HearsNow
    <3>2. RoundOpen(e.version) /\ e.owed \subseteq e.to /\ whole
      BY <1>1, <1>3, <1>5, <1>8, <3>1 DEF Hears, RoundOpen, Exists
    <3>3. ASSUME NEW u \in f.owed \cap accounts' PROVE \E row \in inbox'[u] : row.event = i
      <4>1. u \in User /\ u \in e.to
        BY <1>2, <1>3, <1>8, <3>2, <3>3 DEF TablesOK
      <4>2. Row(i) \in inbox'[u] /\ Row(i).event = i
        BY <1>1, <3>2, <4>1 DEF Row
      <4>3. QED
        BY <4>2
    <3>4. QED
      BY <3>3
  <2>3. QED
    BY <1>9, <2>1, <2>2, HearNow
<1>12. InboxOK'
  <2>1. ASSUME NEW u \in User PROVE RowsOK(inbox[u], u)'
    <3>1. RowsOK(inbox[u], u)
      BY <1>2 DEF InboxOK
    <3>2. CASE inbox'[u] = inbox[u]
      BY <1>9, <3>1, <3>2 DEF RowsOK
    <3>3. CASE inbox'[u] = inbox[u] \cup {Row(i)} /\ u \in e.to
      <4> DEFINE r == Row(i)
      <4>1. r \in RowRec /\ r.event = i
        <5>1. i \in Nat
          BY <1>2 DEF EventsOK
        <5>2. QED
          BY <5>1 DEF Row, RowRec
      <4> HIDE DEF r
      <4>2. inbox'[u] = inbox[u] \cup {r}
        BY <3>3 DEF r
      <4>3. inbox'[u] \subseteq RowRec
        BY <3>1, <4>1, <4>2 DEF RowsOK
      <4>4. e.doer # u
        BY <1>5, <3>3
      <4>5. \A r1 \in inbox'[u] : r1.event \in DOMAIN events' /\ events'[r1.event].doer # u
        BY <1>9, <3>1, <4>1, <4>2, <4>4 DEF RowsOK, e
      <4>6. QED
        BY <4>3, <4>5 DEF RowsOK
    <3>4. QED
      BY <1>1, <3>2, <3>3
  <2>2. QED
    BY <1>10, <2>1 DEF InboxOK
<1>13. CallsOK' /\ SearchOK' /\ DevicesOK'
  BY <1>2, <1>3, <1>4, CallsKept, SearchStays, DevicesStay
<1>14. TablesOK'
  BY <1>2, <1>3, <1>4 DEF TablesOK
<1>15. QED
  BY <1>4, <1>9, <1>11, <1>12, <1>13, <1>14 DEF RoutesInv

-----------------------------------------------------------------------------
(* What a step owes to each part of the invariant.                         *)

\* A step that changes texts or adds some.
LEMMA TextsMove ==
  ASSUME TextsOK, texts' \in Seq(TextRec), Len(texts) <= Len(texts'),
         \A t \in Ids : /\ texts'[t].previous = texts[t].previous
                        /\ texts'[t].exists => texts[t].exists
                        /\ texts'[t].exists /\ texts'[t].next = 0 => texts[t].next = 0
                        /\ texts'[t].closeBy # None => texts'[t].asked = texts'[t].closeBy,
         \A t \in Ids' \ Ids : /\ texts'[t].closeBy = None
                               /\ texts'[t].previous # 0 =>
                                    /\ texts'[t].previous \in Ids
                                    /\ ~(texts'[texts'[t].previous].exists
                                         /\ texts'[texts'[t].previous].next = 0)
  PROVE  TextsOK' /\ TextsGrow /\ Ids \subseteq Ids'
<1>1. TextsGrow
  BY DEF TextsGrow
<1>2. Len(texts) \in Nat /\ Len(texts') \in Nat
  BY DEF TextsOK
<1>3. Ids \subseteq Ids'
  BY <1>2 DEF Ids
<1>4. ASSUME NEW t \in Ids', texts'[t].previous # 0
      PROVE  texts'[t].previous \in Ids' /\ ~RoundOpen(texts[t].previous)'
  <2>1. CASE t \in Ids
    <3> DEFINE v == texts[t].previous
    <3>1. v = texts'[t].previous /\ v \in Ids /\ ~RoundOpen(v)
      BY <1>4, <2>1 DEF TextsOK
    <3>2. ~(texts'[v].exists /\ texts'[v].next = 0)
      BY <3>1 DEF RoundOpen, Exists
    <3>3. QED
      BY <1>3, <3>1, <3>2 DEF RoundOpen, Exists
  <2>2. CASE t \notin Ids
    BY <1>3, <1>4, <2>2 DEF RoundOpen, Exists
  <2>3. QED
    BY <2>1, <2>2
<1>5. \A t \in Ids' : texts'[t].closeBy # None => texts'[t].asked = texts'[t].closeBy
  OBVIOUS
<1>6. TextsOK'
  BY <1>4, <1>5 DEF TextsOK
<1>7. QED
  BY <1>1, <1>3, <1>6

\* A step that changes one text.
LEMMA TextChanges ==
  ASSUME TextsOK, NEW t \in Ids, NEW r \in TextRec, texts' = [texts EXCEPT ![t] = r],
         r.previous = texts[t].previous, r.exists => texts[t].exists,
         r.exists /\ r.next = 0 => texts[t].next = 0, r.closeBy # None => r.asked = r.closeBy
  PROVE  /\ TextsOK' /\ TextsGrow /\ Ids' = Ids
         /\ texts'[t] = r /\ \A s \in Ids : s # t => texts'[s] = texts[s]
<1>1. texts \in Seq(TextRec) /\ DOMAIN texts = Ids /\ Len(texts) \in Nat
  BY IdsAre DEF TextsOK
<1>2. texts' \in Seq(TextRec) /\ Len(texts') = Len(texts)
  BY <1>1, ExceptSeq
<1>3. texts'[t] = r /\ \A s \in Ids : s # t => texts'[s] = texts[s]
  BY <1>1
<1>4. Ids' = Ids /\ Len(texts) <= Len(texts')
  BY <1>1, <1>2 DEF Ids
<1>5. \A s \in Ids : /\ texts'[s].previous = texts[s].previous
                     /\ texts'[s].exists => texts[s].exists
                     /\ texts'[s].exists /\ texts'[s].next = 0 => texts[s].next = 0
                     /\ texts'[s].closeBy # None => texts'[s].asked = texts'[s].closeBy
  BY <1>3 DEF TextsOK
<1>6. Ids' \ Ids = {}
  BY <1>4
<1>7. TextsOK' /\ TextsGrow
  BY <1>2, <1>4, <1>5, <1>6, TextsMove
<1>8. QED
  BY <1>3, <1>4, <1>7

\* A new event, owed to the followers of its text other than its doer.
LEMMA EventAdded ==
  ASSUME TextsOK, TextsOK', TextsGrow, EventsOK, HearOK, InboxOK, TablesOK,
         UNCHANGED <<follows, accounts, inbox>>,
         NEW type \in EventType, NEW t \in Ids, NEW by \in Who, NEW author \in Author,
         events' = Append(events, Event(type, t, t, by, by, author, Followers(t)))
  PROVE  EventsOK' /\ HearOK' /\ InboxOK'
<1> DEFINE n == Len(events) + 1
           e == Event(type, t, t, by, by, author, Followers(t))
<1>1. events \in Seq(EventRec) /\ t \in Nat /\ t \in Ids'
  BY IdsAre, IdsGrow DEF EventsOK
<1>2. Followers(t) \ {by} \in SUBSET User
  BY DEF Followers
<1>3. /\ e.text = t /\ e.version = t /\ e.by = by /\ e.doer = by /\ e.to = {} /\ e.owed = Followers(t) \ {by}
      /\ e.saved = FALSE /\ e.lost = FALSE /\ e.at \in {"resolve", "recipients"}
  BY DEF Event
<1>4. e \in EventRec
  <2>1. e.at \in Stage
    BY <1>3 DEF Stage
  <2> DEFINE at == IF type = "text.vote-cast" THEN "resolve" ELSE "recipients"
  <2>2. at \in Stage
    BY DEF Stage
  <2> HIDE DEF at
  <2>3. /\ e = [type |-> type, text |-> t, by |-> by, author |-> author, at |-> at, to |-> {}, tokens |-> {},
                saved |-> FALSE, lost |-> FALSE, version |-> t, doer |-> by,
                owed |-> Followers(t) \ {by}, left |-> {}, kept |-> {}]
    BY DEF Event, at
  <2> HIDE DEF e
  <2>4. QED
    BY <1>1, <1>2, <2>2, <2>3 DEF EventRec
<1> HIDE DEF e
<1>5. /\ events' \in Seq(EventRec) /\ DOMAIN events' = DOMAIN events \cup {n} /\ events'[n] = e
      /\ n \notin DOMAIN events /\ \A i \in DOMAIN events : events'[i] = events[i]
  BY <1>1, <1>4 DEF e
<1> HIDE DEF n
<1>6. EventsOK'
  <2>1. \A i \in DOMAIN events : events'[i].text \in Ids'
    BY <1>5, IdsGrow DEF EventsOK
  <2>2. QED
    BY <1>1, <1>3, <1>5, <2>1 DEF EventsOK
<1>7. HearOK'
  <2>1. \A i \in DOMAIN events : HearsNow(i, events[i])
    BY HearStays
  <2>2. HearsNow(n, e)
    BY <1>3 DEF HearsNow, Followers
  <2>3. QED
    BY <1>5, <2>1, <2>2, HearNow
<1>8. QED
  BY <1>5, <1>6, <1>7, InboxStays

\* A delivery of which some are owed the news no more.
LEMMA HearShrinks ==
  ASSUME TextsOK, TextsGrow, EventsOK, HearOK, NEW i \in DOMAIN events, NEW e,
         e.version = events[i].version, e.text = events[i].text, e.at = events[i].at,
         e.saved = events[i].saved, e.lost = events[i].lost, e.to = events[i].to,
         e.owed \subseteq events[i].owed,
         \A u \in e.owed : <<u, e.text>> \in follows => <<u, e.text>> \in follows',
         accounts' \subseteq accounts,
         \A u \in e.owed \cap accounts' : \A row \in inbox[u] :
           row.event = i => \E r \in inbox'[u] : r.event = i
  PROVE  HearsNow(i, e)
<1> DEFINE d == events[i]
<1>1. d.version = d.text /\ d.text \in Ids
  BY DEF EventsOK
<1>2. Hears(i, d)
  BY DEF HearOK
<1>3. SUFFICES ASSUME texts'[e.version].exists, texts'[e.version].next = 0, ~e.lost
      PROVE  /\ e.at \in {"resolve", "recipients"} => \A u \in e.owed : <<u, e.text>> \in follows'
             /\ e.at \in {"addresses", "dispatch"} /\ ~e.saved => e.owed \subseteq e.to
             /\ e.saved \/ e.at = "done" =>
                  \A u \in e.owed \cap accounts' : \E row \in inbox'[u] : row.event = i
  BY DEF HearsNow
<1>4. RoundOpen(d.version) /\ ~d.lost
  BY <1>1, <1>3 DEF TextsGrow, RoundOpen, Exists
<1>5. e.at \in {"resolve", "recipients"} => \A u \in e.owed : <<u, e.text>> \in follows'
  BY <1>1, <1>2, <1>4 DEF Hears, Followers
<1>6. e.at \in {"addresses", "dispatch"} /\ ~e.saved => e.owed \subseteq e.to
  BY <1>2, <1>4 DEF Hears
<1>7. e.saved \/ e.at = "done" => \A u \in e.owed \cap accounts' : \E row \in inbox'[u] : row.event = i
  BY <1>2, <1>4 DEF Hears
<1>8. QED
  BY <1>5, <1>6, <1>7

\* Events that change only in who is owed them and in their history.
Lessened(i, e) ==
  /\ e \in EventRec /\ e.owed \subseteq events[i].owed
  /\ e.version = events[i].version /\ e.text = events[i].text /\ e.at = events[i].at
  /\ e.saved = events[i].saved /\ e.lost = events[i].lost /\ e.to = events[i].to
  /\ e.by = events[i].by /\ e.doer = events[i].doer

LEMMA EventsLessened ==
  ASSUME TextsOK, TextsOK', TextsGrow, EventsOK, DOMAIN events' = DOMAIN events,
         events' = [i \in DOMAIN events |-> events'[i]],
         \A i \in DOMAIN events : Lessened(i, events'[i])
  PROVE  /\ EventsOK' /\ events' \in Seq(EventRec)
         /\ \A i \in DOMAIN events : events'[i].doer = events[i].doer
<1>1. Len(events) \in Nat /\ DOMAIN events = 1 .. Len(events)
  BY DEF EventsOK
<1>2. events' \in Seq(EventRec)
  <2>1. events' \in [1 .. Len(events) -> EventRec]
    BY <1>1 DEF Lessened
  <2>2. QED
    BY <1>1, <2>1
<1>3. \A i \in DOMAIN events : events'[i].text \in Ids'
  BY IdsGrow DEF EventsOK, Lessened
<1>4. EventsOK'
  BY <1>2, <1>3 DEF EventsOK, Lessened
<1>5. QED
  BY <1>2, <1>4 DEF Lessened

\* What the search finds of a text after the step.
SearchNow(t) ==
  /\ texts'[t].exists /\ texts'[t].next = 0 => t \in index' \/ \E q \in Server : Adding(call'[q], t)
  /\ t \in index' /\ texts'[t].next = 0 => texts'[t].exists \/ \E q \in Server : Removing(call'[q], t)

LEMMA SearchNowOK ==
  ASSUME \A t \in Ids' \ astray' : SearchNow(t)
  PROVE  SearchOK'
BY DEF SearchOK, SearchNow, RoundOpen, Exists, IsSuperseded, Adding, Removing

\* A step of p alone keeps the index right for a text.
LEMMA SearchKept ==
  ASSUME SearchOK, NEW p \in Server, \A q \in Server : q # p => call'[q] = call[q],
         NEW t \in Ids, t \notin astray,
         texts'[t].exists /\ texts'[t].next = 0 =>
           /\ texts[t].exists /\ texts[t].next = 0
           /\ t \in index \/ Adding(call[p], t) => t \in index' \/ Adding(call'[p], t),
         t \in index' /\ texts'[t].next = 0 /\ ~texts'[t].exists =>
           \/ Removing(call'[p], t)
           \/ t \in index /\ texts[t].next = 0 /\ ~texts[t].exists /\ ~Removing(call[p], t)
  PROVE  SearchNow(t)
<1>1. /\ RoundOpen(t) => t \in index \/ \E q \in Server : Adding(call[q], t)
      /\ t \in index /\ ~IsSuperseded(t) => Exists(t) \/ \E q \in Server : Removing(call[q], t)
  BY DEF SearchOK
<1>2. ASSUME texts'[t].exists, texts'[t].next = 0
      PROVE  t \in index' \/ \E q \in Server : Adding(call'[q], t)
  <2>1. t \in index \/ \E q \in Server : Adding(call[q], t)
    BY <1>1, <1>2 DEF RoundOpen, Exists
  <2>2. CASE t \in index \/ Adding(call[p], t)
    BY <1>2, <2>2
  <2>3. CASE \E q \in Server : q # p /\ Adding(call[q], t)
    BY <2>3, Zenon
  <2>4. QED
    BY <2>1, <2>2, <2>3
<1>3. ASSUME t \in index', texts'[t].next = 0, ~texts'[t].exists
      PROVE  \E q \in Server : Removing(call'[q], t)
  <2>1. CASE Removing(call'[p], t)
    BY <2>1
  <2>2. CASE t \in index /\ texts[t].next = 0 /\ ~texts[t].exists /\ ~Removing(call[p], t)
    <3>1. PICK q \in Server : Removing(call[q], t)
      BY <1>1, <2>2 DEF IsSuperseded, Exists
    <3>2. q # p
      BY <2>2, <3>1
    <3>3. call'[q] = call[q]
      BY <3>2
    <3>4. QED
      BY <3>1, <3>3
  <2>3. QED
    BY <1>3, <2>1, <2>2
<1>4. QED
  BY <1>2, <1>3 DEF SearchNow

-----------------------------------------------------------------------------
(* Texts, edits, votes and closes.                                         *)

LEMMA CreateTextInv ==
  ASSUME RoutesInv, NEW p \in Proc, NEW u \in User, CreateText(p, u)
  PROVE  RoutesInv'
<1> DEFINE t == Len(texts) + 1
           r == NewText(0, u, t)
           c == Request("index", u, t)
<1>1. /\ call[p] = NoCall /\ Becomes(p, c) /\ texts' = Append(texts, r)
      /\ follows' = follows \cup {<<u, t>>} /\ UNCHANGED <<fragments, tables, search, due, events>>
  BY DEF CreateText, Arrives
<1>2. /\ TextsOK /\ TablesOK /\ CallsOK /\ EventsOK /\ HearOK /\ InboxOK /\ DevicesOK /\ SearchOK
  BY DEF RoutesInv
<1>3. /\ fragments' = fragments /\ accounts' = accounts /\ inbox' = inbox /\ devices' = devices
      /\ signedIn' = signedIn /\ unserved' = unserved /\ index' = index /\ astray' = astray /\ due' = due /\ events' = events
  BY <1>1 DEF tables, owners, search
<1>4. texts \in Seq(TextRec) /\ Len(texts) \in Nat /\ t \in Nat /\ Ids = 1 .. Len(texts)
  BY <1>2, IdsAre DEF TextsOK
<1>5. r \in TextRec /\ r.exists = TRUE /\ r.next = 0 /\ r.previous = 0 /\ r.closeBy = None
  BY <1>4 DEF NewText, TextRec, Who
<1> HIDE DEF r
<1>6. /\ texts' \in Seq(TextRec) /\ Len(texts') = t /\ texts'[t] = r /\ Ids' = Ids \cup {t} /\ t \notin Ids
      /\ \A s \in Ids : texts'[s] = texts[s]
  BY <1>1, <1>4, <1>5 DEF Ids
<1>7. TextsOK' /\ TextsGrow /\ Ids \subseteq Ids'
  <2>1. \A s \in Ids : /\ texts'[s].previous = texts[s].previous
                       /\ texts'[s].exists => texts[s].exists
                       /\ texts'[s].exists /\ texts'[s].next = 0 => texts[s].next = 0
                       /\ texts'[s].closeBy # None => texts'[s].asked = texts'[s].closeBy
    BY <1>2, <1>6 DEF TextsOK
  <2>2. Ids' \ Ids = {t} /\ Len(texts) <= Len(texts')
    BY <1>4, <1>6
  <2> HIDE DEF t
  <2>3. QED
    BY <1>2, <1>5, <1>6, <2>1, <2>2, TextsMove
<1>8. IsCall(c) /\ c.op = "index" /\ c.doer = c.by /\ c.text = t
  <2>1. "index" \in Op /\ u \in Who
    BY DEF Op, Who
  <2>2. QED
    BY <1>4, <2>1, RequestIs
<1> HIDE DEF c, t
<1>9. CallNow(c)
  BY <1>6, <1>8 DEF CallNow, OnText
<1>10. /\ CallsOK' /\ call'[p] = c /\ p \in Server
       /\ \A q \in Server : q # p => call'[q] = call[q]
  BY <1>1, <1>2, <1>7, <1>9, CallStep DEF Server
<1>11. TablesOK' /\ EventsOK' /\ HearOK' /\ InboxOK'
  BY <1>1, <1>2, <1>3, <1>7, TablesStay, EventsStay, HearKept, InboxStays DEF search, owners
<1>12. ~Awaited(call[p])
  BY <1>1, NoCallQuiet
<1>13. DevicesOK'
  BY <1>2, <1>3, <1>10, <1>12, DevicesStay DEF Awaited, Server
<1>14. SearchOK'
  <2>1. SearchNow(t)
    <3>1. t \notin index /\ Adding(call'[p], t)
      BY <1>2, <1>6, <1>8, <1>10 DEF TablesOK, Adding
    <3>2. QED
      BY <1>3, <1>10, <3>1 DEF SearchNow
  <2>2. ASSUME NEW s \in Ids \ astray PROVE SearchNow(s)
    <3>1. texts'[s] = texts[s] /\ index' = index /\ ~Adding(call[p], s) /\ ~Removing(call[p], s)
      BY <1>3, <1>6, <1>12, <2>2 DEF Awaited
    <3>2. QED
      BY <1>2, <1>10, <2>2, <3>1, SearchKept
  <2>3. QED
    BY <1>3, <1>6, <2>1, <2>2, SearchNowOK
<1>15. QED
  BY <1>7, <1>10, <1>11, <1>13, <1>14 DEF RoutesInv

\* Once a point is added, or was refused, or given up, no request is needed for it.
LEMMA IndexTextInv ==
  ASSUME RoutesInv, NEW p \in Server, IndexText(p)
  PROVE  RoutesInv'
<1> DEFINE t == call[p].text
<1>1. /\ call[p].op = "index" /\ Becomes(p, NoCall)
      /\ Indexed(t) \/ NotIndexed(t)
      /\ UNCHANGED <<store, tables, due, events>>
  BY DEF IndexText, At, Returns
<1>2. /\ TextsOK /\ TablesOK /\ CallsOK /\ EventsOK /\ HearOK /\ InboxOK /\ DevicesOK /\ SearchOK
  BY DEF RoutesInv
<1>3. /\ texts' = texts /\ fragments' = fragments /\ follows' = follows /\ accounts' = accounts
      /\ inbox' = inbox /\ devices' = devices /\ signedIn' = signedIn /\ unserved' = unserved /\ due' = due /\ events' = events
  BY <1>1 DEF store, tables, owners
<1>4. TextsOK' /\ TextsGrow /\ Ids' = Ids
  BY <1>2, <1>3, TextsStay
<1>5. t \in Ids
  BY <1>1, <1>2 DEF CallsOK, CallOK, OnText
<1>6. /\ CallsOK' /\ \A q \in Server : q # p => call'[q] = call[q]
  BY <1>1, <1>2, <1>4, NoCallIs, CallStep
<1>7. EventsOK' /\ HearOK' /\ InboxOK'
  BY <1>2, <1>3, <1>4, EventsStay, HearKept, InboxStays
<1>8. DevicesOK'
  BY <1>1, <1>2, <1>3, <1>6, DevicesStay DEF Server
<1>9. /\ index \subseteq index' /\ index' \subseteq index \cup {t} /\ astray \subseteq astray'
      /\ astray' \subseteq astray \cup {t} /\ (t \in astray' \/ (t \in index' /\ Exists(t)))
  BY <1>1 DEF Indexed, NotIndexed
<1>10. TablesOK'
  <2>0. index \subseteq Ids /\ astray \subseteq Ids
    BY <1>2 DEF TablesOK
  <2>1. index' \subseteq Ids /\ astray' \subseteq Ids
    <3> HIDE DEF t
    <3>1. QED
      BY <1>5, <1>9, <2>0
  <2>2. QED
    BY <1>2, <1>3, <1>4, <2>1 DEF TablesOK
<1>11. SearchOK'
  <2>1. ASSUME NEW s \in Ids, s \notin astray' PROVE SearchNow(s)
    <3>1. CASE s = t
      BY <1>3, <1>9, <2>1, <3>1 DEF SearchNow, Exists
    <3>2. CASE s # t
      <4>1. ~Adding(call[p], s) /\ ~Removing(call[p], s) /\ (s \in index' <=> s \in index) /\ s \notin astray
        BY <1>1, <1>9, <2>1, <3>2 DEF Adding, Removing
      <4>2. QED
        BY <1>2, <1>3, <1>6, <2>1, <4>1, SearchKept
    <3>3. QED
      BY <3>1, <3>2
  <2>2. QED
    BY <1>4, <2>1, SearchNowOK
<1>12. QED
  BY <1>4, <1>6, <1>7, <1>8, <1>10, <1>11 DEF RoutesInv

LEMMA IndexForkInv ==
  ASSUME RoutesInv, NEW p \in Server, IndexFork(p)
  PROVE  RoutesInv'
<1> DEFINE t == call[p].text
           b == [call[p] EXCEPT !.op = "prune"]
<1>1. /\ call[p].op = "indexFork" /\ UNCHANGED <<store, tables, due>>
      /\ \/ Indexed(t) /\ Becomes(p, b) /\ events' = events
         \/ NotIndexed(t) /\ Becomes(p, NoCall) /\ Announces(p)
  BY DEF IndexFork, At, Returns, Goes
<1>2. /\ TextsOK /\ TablesOK /\ CallsOK /\ EventsOK /\ HearOK /\ InboxOK /\ DevicesOK /\ SearchOK
  BY DEF RoutesInv
<1>3. /\ texts' = texts /\ fragments' = fragments /\ follows' = follows /\ accounts' = accounts
      /\ inbox' = inbox /\ devices' = devices /\ signedIn' = signedIn /\ unserved' = unserved /\ due' = due
  BY <1>1 DEF store, tables, owners
<1>4. TextsOK' /\ TextsGrow /\ Ids' = Ids
  BY <1>2, <1>3, TextsStay
<1>5. t \in Ids /\ IsCall(call[p]) /\ call[p].doer = call[p].by /\ call[p].by \in Who
  <2>1. CallOK(call[p])
    BY <1>2 DEF CallsOK
  <2>2. QED
    BY <1>1, <2>1 DEF CallOK, OnText, IsCall
<1>6. CallNow(b)
  <2>1. "prune" \in Op
    BY DEF Op
  <2>2. IsCall(b) /\ b.op = "prune" /\ b.doer = b.by /\ b.text = t
    BY <1>5, <2>1, GoesIs
  <2> HIDE DEF b
  <2>3. QED
    BY <1>4, <1>5, <2>2 DEF CallNow
<1>7. CallsOK' /\ \A q \in Server : q # p => call'[q] = call[q]
  <2>1. CASE Becomes(p, b)
    BY <1>2, <1>4, <1>6, <2>1, CallStep
  <2>2. CASE Becomes(p, NoCall)
    BY <1>2, <1>4, <2>2, NoCallIs, CallStep
  <2>3. QED
    BY <1>1, <2>1, <2>2
<1>8. EventsOK' /\ HearOK' /\ InboxOK'
  <2>1. CASE events' = events
    BY <1>2, <1>3, <1>4, <2>1, EventsStay, HearKept, InboxStays
  <2>2. CASE Announces(p)
    <3>1. events' = Append(events, Event("text.round-closed", t, t, call[p].by, call[p].by, None, Followers(t)))
      BY <1>5, <2>2 DEF Announces, RoundClosed
    <3>2. "text.round-closed" \in EventType /\ None \in Author
      BY DEF EventType, Author
    <3> HIDE DEF t
    <3>3. QED
      BY <1>2, <1>3, <1>4, <1>5, <3>1, <3>2, EventAdded
  <2>3. QED
    BY <1>1, <2>1, <2>2
<1>9. DevicesOK'
  BY <1>1, <1>2, <1>3, <1>7, DevicesStay DEF Server
<1>10. /\ index \subseteq index' /\ index' \subseteq index \cup {t} /\ astray \subseteq astray'
       /\ astray' \subseteq astray \cup {t} /\ (t \in astray' \/ (t \in index' /\ Exists(t)))
  BY <1>1 DEF Indexed, NotIndexed
<1>11. TablesOK'
  <2>0. index \subseteq Ids /\ astray \subseteq Ids
    BY <1>2 DEF TablesOK
  <2>1. index' \subseteq Ids /\ astray' \subseteq Ids
    <3> HIDE DEF t
    <3>1. QED
      BY <1>5, <1>10, <2>0
  <2>2. QED
    BY <1>2, <1>3, <1>4, <2>1 DEF TablesOK
<1>12. SearchOK'
  <2>1. ASSUME NEW s \in Ids, s \notin astray' PROVE SearchNow(s)
    <3>1. CASE s = t
      BY <1>3, <1>10, <2>1, <3>1 DEF SearchNow, Exists
    <3>2. CASE s # t
      <4>1. ~Adding(call[p], s) /\ ~Removing(call[p], s) /\ (s \in index' <=> s \in index) /\ s \notin astray
        BY <1>1, <1>10, <2>1, <3>2 DEF Adding, Removing
      <4>2. QED
        BY <1>2, <1>3, <1>7, <2>1, <4>1, SearchKept
    <3>3. QED
      BY <3>1, <3>2
  <2>2. QED
    BY <1>4, <2>1, SearchNowOK
<1>13. QED
  BY <1>4, <1>7, <1>8, <1>9, <1>11, <1>12 DEF RoutesInv

\* Only the point of a replaced version is pruned.
LEMMA PruneSupersededInv ==
  ASSUME RoutesInv, NEW p \in Server, PruneSuperseded(p)
  PROVE  RoutesInv'
<1> DEFINE t == call[p].text
           old == texts[t].previous
<1>1. /\ call[p].op = "prune" /\ Becomes(p, NoCall) /\ Announces(p)
      /\ index' \subseteq index /\ index \subseteq index' \cup {old}
      /\ UNCHANGED <<store, tables, astray, due>>
  BY DEF PruneSuperseded, At, Returns
<1>2. /\ TextsOK /\ TablesOK /\ CallsOK /\ EventsOK /\ HearOK /\ InboxOK /\ DevicesOK /\ SearchOK
  BY DEF RoutesInv
<1>3. /\ texts' = texts /\ fragments' = fragments /\ follows' = follows /\ accounts' = accounts
      /\ inbox' = inbox /\ devices' = devices /\ signedIn' = signedIn /\ unserved' = unserved /\ due' = due /\ astray' = astray
  BY <1>1 DEF store, tables, owners
<1>4. TextsOK' /\ TextsGrow /\ Ids' = Ids
  BY <1>2, <1>3, TextsStay
<1>5. t \in Ids /\ call[p].doer = call[p].by /\ call[p].by \in Who
  <2>1. CallOK(call[p])
    BY <1>2 DEF CallsOK
  <2>2. QED
    BY <1>1, <2>1 DEF CallOK, OnText, IsCall
<1>6. \A s \in Ids : s = old => ~RoundOpen(s)
  <2>1. 0 \notin Ids
    BY <1>2, IdsAre
  <2>2. QED
    BY <1>2, <1>5, <2>1 DEF TextsOK
<1>7. CallsOK' /\ \A q \in Server : q # p => call'[q] = call[q]
  BY <1>1, <1>2, <1>4, NoCallIs, CallStep
<1>8. EventsOK' /\ HearOK' /\ InboxOK'
  <2>1. events' = Append(events, Event("text.round-closed", t, t, call[p].by, call[p].by, None, Followers(t)))
    BY <1>1, <1>5 DEF Announces, RoundClosed
  <2>2. "text.round-closed" \in EventType /\ None \in Author
    BY DEF EventType, Author
  <2> HIDE DEF t
  <2>3. QED
    BY <1>2, <1>3, <1>4, <1>5, <2>1, <2>2, EventAdded
<1>9. DevicesOK'
  BY <1>1, <1>2, <1>3, <1>7, DevicesStay DEF Server
<1>10. TablesOK'
  BY <1>1, <1>2, <1>3, <1>4 DEF TablesOK
<1>11. SearchOK'
  <2>1. ASSUME NEW s \in Ids, s \notin astray PROVE SearchNow(s)
    <3>1. ~Adding(call[p], s) /\ ~Removing(call[p], s)
      BY <1>1 DEF Adding, Removing
    <3>2. texts'[s] = texts[s] /\ (s \in index' => s \in index)
          /\ (texts[s].exists /\ texts[s].next = 0 /\ s \in index => s \in index')
      BY <1>1, <1>3, <1>6, <2>1 DEF RoundOpen, Exists
    <3> HIDE DEF old, t
    <3>3. QED
      BY <1>2, <1>7, <2>1, <3>1, <3>2, SearchKept
  <2>2. QED
    BY <1>3, <1>4, <2>1, SearchNowOK
<1>12. QED
  BY <1>4, <1>7, <1>8, <1>9, <1>10, <1>11 DEF RoutesInv

LEMMA ProposeEditInv ==
  ASSUME RoutesInv, NEW p \in Server, ProposeEdit(p)
  PROVE  RoutesInv'
<1> DEFINE t == call[p].text
           u == call[p].by
           r == [texts[t] EXCEPT !.slots = TRUE]
<1>1. /\ call[p].op = "propose" /\ Becomes(p, NoCall) /\ UNCHANGED <<follows, tables, search, due>>
      /\ \/ /\ texts' = [texts EXCEPT ![t] = r] /\ fragments' = fragments \cup {<<t, u>>, <<t, Seed>>}
            /\ events' = Append(events, EditProposed(t, u))
         \/ UNCHANGED <<texts, fragments, events>>
  BY DEF ProposeEdit, At, Returns
<1>2. /\ TextsOK /\ TablesOK /\ CallsOK /\ EventsOK /\ HearOK /\ InboxOK /\ DevicesOK /\ SearchOK
  BY DEF RoutesInv
<1>3. ~Awaited(call[p])
  BY <1>1 DEF Awaited, Adding, Removing
<1>4. CASE UNCHANGED <<texts, fragments, events>>
  BY <1>1, <1>3, <1>4, NoCallIs, CallOnly DEF store
<1>5. CASE /\ texts' = [texts EXCEPT ![t] = r] /\ fragments' = fragments \cup {<<t, u>>, <<t, Seed>>}
           /\ events' = Append(events, EditProposed(t, u))
  <2>1. t \in Ids /\ u \in Who
    <3>1. CallOK(call[p])
      BY <1>2 DEF CallsOK
    <3>2. QED
      BY <1>1, <3>1 DEF CallOK, OnText, IsCall
  <2>2. texts[t] \in TextRec
    BY <1>2, <2>1, IdsAre
  <2> HIDE DEF t, u
  <2>3. /\ r \in TextRec /\ r.previous = texts[t].previous /\ r.exists = texts[t].exists
        /\ r.next = texts[t].next /\ r.closeBy = texts[t].closeBy /\ r.asked = texts[t].asked
    BY <2>2 DEF TextRec
  <2> HIDE DEF r
  <2>4. r.closeBy # None => r.asked = r.closeBy
    BY <1>2, <2>1, <2>3 DEF TextsOK
  <2>5. /\ TextsOK' /\ TextsGrow /\ Ids' = Ids
        /\ texts'[t] = r /\ \A s \in Ids : s # t => texts'[s] = texts[s]
    BY <1>2, <1>5, <2>1, <2>3, <2>4, TextChanges
  <2>6. /\ follows' = follows /\ accounts' = accounts /\ inbox' = inbox /\ devices' = devices
        /\ signedIn' = signedIn /\ unserved' = unserved /\ index' = index /\ astray' = astray /\ due' = due
    BY <1>1 DEF tables, owners, search
  <2>7. CallsOK' /\ \A q \in Server : q # p => call'[q] = call[q]
    BY <1>1, <1>2, <2>5, NoCallIs, CallStep
  <2>8. EventsOK' /\ HearOK' /\ InboxOK'
    <3>1. events' = Append(events, Event("text.edit-proposed", t, t, u, u, None, Followers(t)))
      BY <1>5 DEF EditProposed
    <3>2. "text.edit-proposed" \in EventType /\ None \in Author
      BY DEF EventType, Author
    <3>3. QED
      BY <1>2, <2>1, <2>5, <2>6, <3>1, <3>2, EventAdded
  <2>9. TablesOK'
    <3>1. fragments' \subseteq Ids \X Author
      <4>1. <<t, u>> \in Ids \X Author /\ <<t, Seed>> \in Ids \X Author
        BY <2>1 DEF Author, Who
      <4>2. fragments \subseteq Ids \X Author
        BY <1>2 DEF TablesOK
      <4>3. QED
        BY <1>5, <4>1, <4>2
    <3>2. QED
      BY <1>2, <2>5, <2>6, <3>1 DEF TablesOK
  <2>10. DevicesOK'
    BY <1>2, <1>3, <2>6, <2>7, DevicesStay DEF Awaited, Server
  <2>11. SearchOK'
    <3>1. ASSUME NEW s \in Ids, s \notin astray PROVE SearchNow(s)
      <4>1. ~Adding(call[p], s) /\ ~Removing(call[p], s)
        BY <1>3 DEF Awaited
      <4>2. texts'[s].exists = texts[s].exists /\ texts'[s].next = texts[s].next
        BY <2>3, <2>5
      <4>3. QED
        BY <1>2, <2>6, <2>7, <3>1, <4>1, <4>2, SearchKept
    <3>2. QED
      BY <2>5, <2>6, <3>1, SearchNowOK
  <2>12. QED
    BY <2>5, <2>7, <2>8, <2>9, <2>10, <2>11 DEF RoutesInv
<1>6. QED
  BY <1>1, <1>4, <1>5

LEMMA ScheduleCloseInv ==
  ASSUME RoutesInv, NEW p \in Server, ScheduleClose(p)
  PROVE  RoutesInv'
<1> DEFINE t == call[p].text
           u == call[p].by
           r == [texts[t] EXCEPT !.closeBy = u, !.asked = u]
<1>1. /\ call[p].op = "schedule" /\ Becomes(p, NoCall)
      /\ UNCHANGED <<fragments, follows, tables, search, due, events>>
      /\ \/ RoundOpen(t) /\ texts' = [texts EXCEPT ![t].closeBy = u, ![t].asked = u]
         \/ texts' = texts
  BY DEF ScheduleClose, At, Returns
<1>2. /\ TextsOK /\ TablesOK /\ CallsOK /\ EventsOK /\ HearOK /\ InboxOK /\ DevicesOK /\ SearchOK
  BY DEF RoutesInv
<1>3. ~Awaited(call[p])
  BY <1>1 DEF Awaited, Adding, Removing
<1>4. CASE texts' = texts
  BY <1>1, <1>3, <1>4, NoCallIs, CallOnly DEF store
<1>5. CASE texts' = [texts EXCEPT ![t].closeBy = u, ![t].asked = u]
  <2>1. t \in Ids /\ u \in Who
    <3>1. CallOK(call[p])
      BY <1>2 DEF CallsOK
    <3>2. QED
      BY <1>1, <3>1 DEF CallOK, OnText, IsCall
  <2>2. texts[t] \in TextRec /\ DOMAIN texts = Ids
    BY <1>2, <2>1, IdsAre
  <2> HIDE DEF t, u
  <2>3. texts' = [texts EXCEPT ![t] = r]
    BY <1>5, <2>1, <2>2 DEF TextRec
  <2>4. /\ r \in TextRec /\ r.previous = texts[t].previous /\ r.exists = texts[t].exists
        /\ r.next = texts[t].next /\ r.closeBy = u /\ r.asked = u
    BY <2>1, <2>2 DEF TextRec
  <2> HIDE DEF r
  <2>5. /\ TextsOK' /\ TextsGrow /\ Ids' = Ids
        /\ texts'[t] = r /\ \A s \in Ids : s # t => texts'[s] = texts[s]
    BY <1>2, <2>1, <2>3, <2>4, TextChanges
  <2>6. /\ follows' = follows /\ accounts' = accounts /\ inbox' = inbox /\ devices' = devices
        /\ signedIn' = signedIn /\ unserved' = unserved /\ index' = index /\ astray' = astray /\ due' = due
        /\ fragments' = fragments /\ events' = events
    BY <1>1 DEF tables, owners, search
  <2>7. CallsOK' /\ \A q \in Server : q # p => call'[q] = call[q]
    BY <1>1, <1>2, <2>5, NoCallIs, CallStep
  <2>8. TablesOK' /\ EventsOK' /\ HearOK' /\ InboxOK'
    BY <1>2, <2>5, <2>6, TablesStay, EventsStay, HearKept, InboxStays DEF search, owners
  <2>9. DevicesOK'
    BY <1>2, <1>3, <2>6, <2>7, DevicesStay DEF Awaited, Server
  <2>10. SearchOK'
    <3>1. ASSUME NEW s \in Ids, s \notin astray PROVE SearchNow(s)
      <4>1. ~Adding(call[p], s) /\ ~Removing(call[p], s)
        BY <1>3 DEF Awaited
      <4>2. texts'[s].exists = texts[s].exists /\ texts'[s].next = texts[s].next
        BY <2>4, <2>5
      <4>3. QED
        BY <1>2, <2>6, <2>7, <3>1, <4>1, <4>2, SearchKept
    <3>2. QED
      BY <2>5, <2>6, <3>1, SearchNowOK
  <2>11. QED
    BY <2>5, <2>7, <2>8, <2>9, <2>10 DEF RoutesInv
<1>6. QED
  BY <1>1, <1>4, <1>5

LEMMA CastVoteInv ==
  ASSUME RoutesInv, NEW u \in User, NEW t, NEW a, CastVote(u, t, a)
  PROVE  RoutesInv'
<1>1. <<t, a>> \in fragments /\ events' = Append(events, VoteCast(t, a, u))
      /\ UNCHANGED <<store, tables, search, due, call>>
  BY DEF CastVote
<1>2. /\ TextsOK /\ TablesOK /\ CallsOK /\ EventsOK /\ HearOK /\ InboxOK /\ DevicesOK /\ SearchOK
  BY DEF RoutesInv
<1>3. /\ texts' = texts /\ fragments' = fragments /\ follows' = follows /\ accounts' = accounts
      /\ inbox' = inbox /\ devices' = devices /\ signedIn' = signedIn /\ unserved' = unserved /\ index' = index
      /\ astray' = astray /\ due' = due /\ call' = call
  BY <1>1 DEF store, tables, owners, search
<1>4. TextsOK' /\ TextsGrow
  BY <1>2, <1>3, TextsStay
<1>5. t \in Ids /\ a \in Author /\ u \in Who
  BY <1>1, <1>2 DEF TablesOK, Who
<1>6. EventsOK' /\ HearOK' /\ InboxOK'
  <2>1. events' = Append(events, Event("text.vote-cast", t, t, u, u, a, Followers(t)))
    BY <1>1 DEF VoteCast
  <2>2. "text.vote-cast" \in EventType
    BY DEF EventType
  <2>3. QED
    BY <1>2, <1>3, <1>4, <1>5, <2>1, <2>2, EventAdded
<1>7. TablesOK' /\ CallsOK' /\ DevicesOK' /\ SearchOK'
  BY <1>2, <1>3, <1>4, TablesStay, CallsKept, DevicesStay, SearchStays DEF search, owners
<1>8. QED
  BY <1>4, <1>6, <1>7 DEF RoutesInv

\* A subscription takes nothing away.
LEMMA SubscribeInv ==
  ASSUME RoutesInv, NEW u, NEW t, Subscribe(u, t)
  PROVE  RoutesInv'
<1>1. follows \subseteq follows' /\ UNCHANGED <<texts, fragments, tables, search, due, call, events>>
  BY DEF Subscribe
<1>2. /\ TextsOK /\ TablesOK /\ CallsOK /\ EventsOK /\ HearOK /\ InboxOK /\ DevicesOK /\ SearchOK
  BY DEF RoutesInv
<1>3. /\ texts' = texts /\ fragments' = fragments /\ accounts' = accounts
      /\ inbox' = inbox /\ devices' = devices /\ signedIn' = signedIn /\ unserved' = unserved /\ index' = index
      /\ astray' = astray /\ due' = due /\ call' = call /\ events' = events
  BY <1>1 DEF tables, owners, search
<1>4. TextsOK' /\ TextsGrow
  BY <1>2, <1>3, TextsStay
<1>5. EventsOK' /\ HearOK' /\ InboxOK'
  BY <1>1, <1>2, <1>3, <1>4, EventsStay, HearKept, InboxStays
<1>6. TablesOK' /\ CallsOK' /\ DevicesOK' /\ SearchOK'
  BY <1>2, <1>3, <1>4, TablesStay, CallsKept, DevicesStay, SearchStays DEF search, owners
<1>7. QED
  BY <1>4, <1>5, <1>6 DEF RoutesInv

LEMMA TickInv ==
  ASSUME RoutesInv, Tick
  PROVE  RoutesInv'
<1>1. PICK passed \in SUBSET Ids :
        due' = {[text |-> t, by |-> texts[t].closeBy, doer |-> texts[t].asked] : t \in passed}
        /\ \A t \in passed : texts[t].closeBy # None
  BY DEF Tick
<1>2. UNCHANGED <<store, tables, search, call, events>>
  BY DEF Tick
<1>3. /\ TextsOK /\ TablesOK /\ CallsOK /\ EventsOK /\ HearOK /\ InboxOK /\ DevicesOK /\ SearchOK
  BY DEF RoutesInv
<1>4. /\ texts' = texts /\ fragments' = fragments /\ follows' = follows /\ accounts' = accounts
      /\ inbox' = inbox /\ devices' = devices /\ signedIn' = signedIn /\ unserved' = unserved /\ index' = index
      /\ astray' = astray /\ call' = call /\ events' = events
  BY <1>2 DEF store, tables, owners, search
<1>5. TextsOK' /\ TextsGrow /\ Ids' = Ids
  BY <1>3, <1>4, TextsStay
<1>6. EventsOK' /\ HearOK' /\ InboxOK' /\ CallsOK' /\ DevicesOK' /\ SearchOK'
  BY <1>3, <1>4, <1>5, EventsStay, HearKept, InboxStays, CallsKept, DevicesStay, SearchStays
<1>7. \A d \in due' : d.text \in Ids /\ d.by \in Who /\ d.doer = d.by
  <2>1. ASSUME NEW d \in due' PROVE d.text \in Ids /\ d.by \in Who /\ d.doer = d.by
    <3>1. PICK t \in passed : d = [text |-> t, by |-> texts[t].closeBy, doer |-> texts[t].asked]
      BY <1>1, <2>1
    <3>2. t \in Ids /\ texts[t].closeBy # None
      BY <1>1, <3>1
    <3>3. texts[t].closeBy \in Who /\ texts[t].asked = texts[t].closeBy
      <4>1. texts[t] \in TextRec
        BY <1>3, <3>2, IdsAre
      <4>2. QED
        BY <1>3, <3>2, <4>1 DEF TextsOK, TextRec
    <3>4. QED
      BY <3>1, <3>2, <3>3
  <2>2. QED
    BY <2>1
<1>8. TablesOK'
  BY <1>3, <1>4, <1>5, <1>7 DEF TablesOK
<1>9. QED
  BY <1>5, <1>6, <1>8 DEF RoutesInv

\* A close takes the followers of the version it replaces to the fork; the
\* version is then no longer the current one.
LEMMA CloseRoundInv ==
  ASSUME RoutesInv, NEW p \in Server, CloseRound(p)
  PROVE  RoutesInv'
<1> DEFINE t == call[p].text
           fork == Len(texts) + 1
           r == [texts[t] EXCEPT !.next = fork]
           mid == [texts EXCEPT ![t] = r]
           new == NewText(t, texts[t].createdBy, texts[t].first)
           c == [call[p] EXCEPT !.op = "indexFork", !.text = fork]
<1>1. /\ call[p].op = "close" /\ UNCHANGED <<fragments, tables, search, due, events>>
      /\ \/ /\ texts' = Append(mid, new) /\ Becomes(p, c)
            /\ follows' = {IF s[2] = t THEN <<s[1], fork>> ELSE s : s \in follows}
         \/ UNCHANGED <<texts, follows>> /\ Becomes(p, NoCall)
  BY DEF CloseRound, At, Returns
<1>2. /\ TextsOK /\ TablesOK /\ CallsOK /\ EventsOK /\ HearOK /\ InboxOK /\ DevicesOK /\ SearchOK
  BY DEF RoutesInv
<1>3. ~Awaited(call[p])
  BY <1>1 DEF Awaited, Adding, Removing
<1>4. CASE UNCHANGED <<texts, follows>> /\ Becomes(p, NoCall)
  BY <1>1, <1>3, <1>4, NoCallIs, CallOnly DEF store
<1>5. CASE /\ texts' = Append(mid, new) /\ Becomes(p, c)
           /\ follows' = {IF s[2] = t THEN <<s[1], fork>> ELSE s : s \in follows}
  <2>1. t \in Ids /\ IsCall(call[p]) /\ call[p].doer = call[p].by
    <3>1. CallOK(call[p])
      BY <1>2 DEF CallsOK
    <3>2. QED
      BY <1>1, <3>1 DEF CallOK, OnText
  <2>2. /\ texts \in Seq(TextRec) /\ Len(texts) \in Nat /\ Ids = 1 .. Len(texts) /\ DOMAIN texts = Ids
        /\ texts[t] \in TextRec /\ fork \in Nat /\ fork # 0 /\ t \in Nat
    BY <1>2, <2>1, IdsAre DEF TextsOK
  <2>3. /\ IsCall(c) /\ c.op = "indexFork" /\ c.text = fork /\ c.doer = c.by
    <3>1. "indexFork" \in Op
      BY DEF Op
    <3>2. QED
      BY <2>1, <2>2, <3>1 DEF IsCall
  <2> HIDE DEF c, t
  <2>4. r \in TextRec /\ r.previous = texts[t].previous /\ r.exists = texts[t].exists /\ r.next = fork
        /\ r.closeBy = texts[t].closeBy /\ r.asked = texts[t].asked
    <3> HIDE DEF fork
    <3>1. QED
      BY <2>2 DEF TextRec
  <2>5. /\ new \in TextRec /\ new.exists = TRUE /\ new.next = 0 /\ new.previous = t /\ new.closeBy = None
    <3>1. texts[t].createdBy \in User /\ texts[t].first \in Nat /\ None \in Who
      BY <2>2 DEF TextRec, Who
    <3>2. QED
      BY <2>2, <3>1 DEF NewText, TextRec
  <2> HIDE DEF r, new
  <2>6. /\ mid \in Seq(TextRec) /\ Len(mid) = Len(texts) /\ mid[t] = r
        /\ \A s \in Ids : s # t => mid[s] = texts[s]
    BY <2>1, <2>2, <2>4, ExceptSeq
  <2> HIDE DEF mid
  <2>7. /\ texts' \in Seq(TextRec) /\ Len(texts') = fork /\ texts'[fork] = new
        /\ Ids' = Ids \cup {fork} /\ fork \notin Ids /\ \A s \in Ids : texts'[s] = mid[s]
    BY <1>5, <2>2, <2>5, <2>6 DEF Ids
  <2>8. Len(texts) <= Len(texts')
    BY <2>2, <2>7
  <2> HIDE DEF fork
  <2>9. texts'[t] = r /\ \A s \in Ids : s # t => texts'[s] = texts[s]
    BY <2>1, <2>6, <2>7
  <2>10. TextsOK' /\ TextsGrow
    <3>1. \A s \in Ids : /\ texts'[s].previous = texts[s].previous
                         /\ texts'[s].exists => texts[s].exists
                         /\ texts'[s].exists /\ texts'[s].next = 0 => texts[s].next = 0
                         /\ texts'[s].closeBy # None => texts'[s].asked = texts'[s].closeBy
      BY <1>2, <2>2, <2>4, <2>9 DEF TextsOK
    <3>2. Ids' \ Ids = {fork}
      BY <2>7
    <3>3. QED
      BY <1>2, <2>1, <2>2, <2>4, <2>5, <2>7, <2>8, <2>9, <3>1, <3>2, TextsMove
  <2>11. /\ accounts' = accounts /\ inbox' = inbox /\ devices' = devices /\ fragments' = fragments
         /\ signedIn' = signedIn /\ unserved' = unserved /\ index' = index /\ astray' = astray /\ due' = due /\ events' = events
    BY <1>1 DEF tables, owners, search
  <2>12. CallNow(c)
    BY <2>3, <2>7 DEF CallNow, OnText
  <2>13. CallsOK' /\ call'[p] = c /\ \A q \in Server : q # p => call'[q] = call[q]
    BY <1>2, <1>5, <2>10, <2>12, CallStep
  <2>14. TablesOK' /\ EventsOK' /\ InboxOK'
    BY <1>2, <2>10, <2>11, TablesStay, EventsStay, InboxStays DEF search, owners
  <2>15. HearOK'
    <3>1. ASSUME NEW i \in DOMAIN events PROVE HearsNow(i, events[i])
      <4>1. ASSUME NEW u, <<u, events[i].text>> \in follows
            PROVE  \/ <<u, events[i].text>> \in follows'
                   \/ ~(texts'[events[i].text].exists /\ texts'[events[i].text].next = 0)
        <5>1. CASE events[i].text = t
          BY <2>2, <2>4, <2>9, <5>1
        <5>2. CASE events[i].text # t
          <6> DEFINE s == <<u, events[i].text>>
          <6>1. s \in follows /\ s[2] # t
            BY <4>1, <5>2
          <6> HIDE DEF s
          <6>2. s \in follows'
            BY <1>5, <6>1
          <6>3. QED
            BY <6>2 DEF s
        <5>3. QED
          BY <5>1, <5>2
      <4>2. QED
        BY <1>2, <2>10, <2>11, <4>1, HearStays
    <3>2. QED
      BY <1>2, <2>11, <3>1, HearNow DEF EventsOK
  <2>16. DevicesOK'
    BY <1>2, <1>3, <2>11, <2>13, DevicesStay DEF Awaited, Server
  <2>17. SearchOK'
    <3>1. SearchNow(fork)
      <4>1. fork \notin index' /\ Adding(call'[p], fork)
        BY <1>2, <2>3, <2>7, <2>11, <2>13 DEF TablesOK, Adding
      <4>2. QED
        BY <4>1 DEF SearchNow
    <3>2. ASSUME NEW s \in Ids, s \notin astray PROVE SearchNow(s)
      <4>1. ~Adding(call[p], s) /\ ~Removing(call[p], s)
        BY <1>3, <3>2 DEF Awaited
      <4>2. /\ texts'[s].exists = texts[s].exists
            /\ texts'[s].next = 0 => texts[s].next = 0
        BY <2>2, <2>4, <2>9
      <4>3. QED
        BY <1>2, <2>11, <2>13, <3>2, <4>1, <4>2, SearchKept
    <3>3. QED
      BY <2>7, <2>11, <3>1, <3>2, SearchNowOK
  <2>18. QED
    BY <2>10, <2>13, <2>14, <2>15, <2>16, <2>17 DEF RoutesInv
<1>6. QED
  BY <1>1, <1>4, <1>5

-----------------------------------------------------------------------------
(* Deletions.                                                              *)

LEMMA GoneIs ==
  ASSUME NEW x \in TextRec
  PROVE  /\ Gone(x) \in TextRec /\ Gone(x).exists = FALSE /\ Gone(x).previous = x.previous
         /\ Gone(x).closeBy = None /\ Gone(x).first = x.first /\ Gone(x).next = x.next
<1>1. None \in Who
  BY DEF Who
<1>2. QED
  BY <1>1 DEF Gone, TextRec

LEMMA DeletedIs ==
  ASSUME NEW x \in TextRec
  PROVE  /\ Deleted(x) \in TextRec /\ Deleted(x).exists = FALSE /\ Deleted(x).previous = x.previous
         /\ Deleted(x).closeBy = None /\ Deleted(x).first = x.first /\ Deleted(x).next = 0
<1>1. PICK g : g = Gone(x)
  OBVIOUS
<1>2. /\ g \in TextRec /\ g.exists = FALSE /\ g.previous = x.previous /\ g.closeBy = None
      /\ g.first = x.first
  BY <1>1, GoneIs
<1>3. Deleted(x) = [g EXCEPT !.next = 0]
  BY <1>1 DEF Deleted
<1>4. QED
  BY <1>2, <1>3 DEF TextRec

LEMMA DeleteTextInv ==
  ASSUME RoutesInv, NEW p \in Server, DeleteText(p), Exists(call[p].text)
  PROVE  RoutesInv'
<1> DEFINE t == call[p].text
           r == Deleted(texts[t])
           c == [call[p] EXCEPT !.op = "unindex"]
<1>1. /\ call[p].op = "delete" /\ Becomes(p, c) /\ texts' = [texts EXCEPT ![t] = r]
      /\ fragments' \subseteq fragments
      /\ \A w \in follows : w[2] # t => w \in follows'
      /\ UNCHANGED <<tables, search, due, events>>
  <2>1. /\ call[p].op = "delete" /\ Becomes(p, c) /\ texts' = [texts EXCEPT ![t] = r]
        /\ fragments' = fragments \ FragmentsOf(t) /\ follows' = follows \ SubscriptionsTo(t)
        /\ UNCHANGED <<tables, search, due, events>>
    BY DEF DeleteText, At, Goes
  <2>2. QED
    BY <2>1 DEF SubscriptionsTo
<1>2. /\ TextsOK /\ TablesOK /\ CallsOK /\ EventsOK /\ HearOK /\ InboxOK /\ DevicesOK /\ SearchOK
  BY DEF RoutesInv
<1>3. ~Awaited(call[p])
  BY <1>1 DEF Awaited, Adding, Removing
<1>4. t \in Ids /\ IsCall(call[p]) /\ call[p].doer = call[p].by
  <2>1. CallOK(call[p])
    BY <1>2 DEF CallsOK
  <2>2. QED
    BY <1>1, <2>1 DEF CallOK, OnText
<1>5. IsCall(c) /\ c.op = "unindex" /\ c.text = t /\ c.doer = c.by
  <2>1. "unindex" \in Op
    BY DEF Op
  <2>2. QED
    BY <1>4, <2>1, GoesIs
<1> HIDE DEF c, t
<1>6. r \in TextRec /\ r.exists = FALSE /\ r.previous = texts[t].previous /\ r.closeBy = None
  BY <1>2, <1>4, IdsAre, DeletedIs
<1> HIDE DEF r
<1>7. /\ TextsOK' /\ TextsGrow /\ Ids' = Ids
      /\ texts'[t] = r /\ \A s \in Ids : s # t => texts'[s] = texts[s]
  BY <1>1, <1>2, <1>4, <1>6, TextChanges
<1>8. /\ accounts' = accounts /\ inbox' = inbox /\ devices' = devices /\ signedIn' = signedIn /\ unserved' = unserved
      /\ index' = index /\ astray' = astray /\ due' = due /\ events' = events
  BY <1>1 DEF tables, owners, search
<1>9. CallNow(c)
  BY <1>4, <1>5, <1>6, <1>7 DEF CallNow
<1>10. CallsOK' /\ call'[p] = c /\ \A q \in Server : q # p => call'[q] = call[q]
  BY <1>1, <1>2, <1>7, <1>9, CallStep
<1>11. TablesOK'
  <2>1. fragments' \subseteq Ids \X Author
    BY <1>1, <1>2 DEF TablesOK
  <2>2. QED
    BY <1>2, <1>7, <1>8, <2>1 DEF TablesOK
<1>12. EventsOK' /\ InboxOK'
  BY <1>2, <1>7, <1>8, EventsStay, InboxStays
<1>13. HearOK'
  <2>1. ASSUME NEW i \in DOMAIN events PROVE HearsNow(i, events[i])
    <3>1. ASSUME NEW u, <<u, events[i].text>> \in follows
          PROVE  \/ <<u, events[i].text>> \in follows'
                 \/ ~(texts'[events[i].text].exists /\ texts'[events[i].text].next = 0)
      BY <1>1, <1>6, <1>7, <3>1
    <3>2. QED
      BY <1>2, <1>7, <1>8, <3>1, HearStays
  <2>2. QED
    BY <1>2, <1>8, <2>1, HearNow DEF EventsOK
<1>14. DevicesOK'
  BY <1>2, <1>3, <1>8, <1>10, DevicesStay DEF Awaited, Server
<1>15. SearchOK'
  <2>1. ASSUME NEW s \in Ids, s \notin astray PROVE SearchNow(s)
    <3>1. ~Adding(call[p], s) /\ ~Removing(call[p], s)
      BY <1>3, <2>1 DEF Awaited
    <3>2. CASE s = t
      <4>1. Removing(call'[p], s)
        BY <1>5, <1>10, <3>2 DEF Removing
      <4>2. QED
        BY <1>6, <1>7, <3>2, <4>1 DEF SearchNow
    <3>3. CASE s # t
      BY <1>2, <1>7, <1>8, <1>10, <2>1, <3>1, <3>3, SearchKept
    <3>4. QED
      BY <3>2, <3>3
  <2>2. QED
    BY <1>7, <1>8, <2>1, SearchNowOK
<1>16. QED
  BY <1>7, <1>10, <1>11, <1>12, <1>13, <1>14, <1>15 DEF RoutesInv

\* Of a text that is gone nothing is left to delete but its point.
LEMMA DeleteNothingInv ==
  ASSUME RoutesInv, NEW p \in Server, DeleteText(p), ~Exists(call[p].text)
  PROVE  RoutesInv'
<1>1. PICK c : c = [call[p] EXCEPT !.op = "unindex"]
  OBVIOUS
<1>2. /\ call[p].op = "delete" /\ Becomes(p, c)
      /\ UNCHANGED <<store, tables, search, due, events>>
  BY <1>1 DEF DeleteText, At, Goes
<1>3. CallOK(call[p]) /\ TextsOK /\ texts' = texts
  BY <1>2 DEF RoutesInv, CallsOK, store
<1>4. /\ IsCall(c) /\ c.op = "unindex" /\ c.text = call[p].text /\ c.doer = c.by
      /\ c.text \in Ids
  <2>1. "unindex" \in Op
    BY DEF Op
  <2>2. IsCall(call[p]) /\ call[p].doer = call[p].by /\ call[p].text \in Ids
    BY <1>2, <1>3 DEF CallOK, OnText
  <2>3. QED
    BY <1>1, <2>1, <2>2, GoesIs
<1>5. CallNow(c)
  BY <1>3, <1>4, TextsStay DEF CallNow, Exists
<1>6. ~Awaited(call[p])
  BY <1>2 DEF Awaited, Adding, Removing
<1>7. QED
  BY <1>2, <1>5, <1>6, CallOnly

\* A point that goes, or that the index kept, is one of a text that is gone.
LEMMA RemovedInv ==
  ASSUME RoutesInv, NEW p \in Server, NEW t \in Ids, ~Exists(t), Removed(t) \/ NotRemoved(t),
         NEW c, Becomes(p, c), CallNow(c), call[p].op # "unregister",
         \A s \in Ids : s # t => ~Adding(call[p], s) /\ (Removing(call[p], s) => Removing(c, s)),
         UNCHANGED <<store, tables, due, events>>
  PROVE  RoutesInv'
<1>1. /\ TextsOK /\ TablesOK /\ CallsOK /\ EventsOK /\ HearOK /\ InboxOK /\ DevicesOK /\ SearchOK
  BY DEF RoutesInv
<1>2. /\ texts' = texts /\ fragments' = fragments /\ follows' = follows /\ accounts' = accounts
      /\ inbox' = inbox /\ devices' = devices /\ signedIn' = signedIn /\ unserved' = unserved /\ due' = due /\ events' = events
  BY DEF store, tables, owners
<1>3. TextsOK' /\ TextsGrow /\ Ids' = Ids
  BY <1>1, <1>2, TextsStay
<1>4. CallsOK' /\ call'[p] = c /\ \A q \in Server : q # p => call'[q] = call[q]
  BY <1>1, <1>3, CallStep
<1>5. EventsOK' /\ HearOK' /\ InboxOK'
  BY <1>1, <1>2, <1>3, EventsStay, HearKept, InboxStays
<1>6. DevicesOK'
  BY <1>1, <1>2, <1>4, DevicesStay DEF Server
<1>7. /\ index' \subseteq index /\ index \subseteq index' \cup {t}
      /\ astray \subseteq astray' \cup {t} /\ astray' \subseteq astray \cup {t}
      /\ (t \in astray' \/ t \notin index')
  BY DEF Removed, NotRemoved
<1>8. TablesOK'
  <2>1. index \subseteq Ids /\ astray \subseteq Ids
    BY <1>1 DEF TablesOK
  <2>2. index' \subseteq Ids /\ astray' \subseteq Ids
    BY <1>7, <2>1
  <2>3. QED
    BY <1>1, <1>2, <1>3, <2>2 DEF TablesOK
<1>9. SearchOK'
  <2>1. ASSUME NEW s \in Ids, s \notin astray' PROVE SearchNow(s)
    <3>1. CASE s = t
      BY <1>2, <1>7, <2>1, <3>1 DEF SearchNow, Exists
    <3>2. CASE s # t
      <4>1. s \notin astray /\ (s \in index' <=> s \in index)
        BY <1>7, <2>1, <3>2
      <4>2. ~Adding(call[p], s) /\ (Removing(call[p], s) => Removing(call'[p], s))
        BY <1>4, <2>1, <3>2
      <4>3. QED
        BY <1>1, <1>2, <1>4, <2>1, <4>1, <4>2, SearchKept
    <3>3. QED
      BY <3>1, <3>2
  <2>2. QED
    BY <1>3, <2>1, SearchNowOK
<1>10. QED
  BY <1>3, <1>4, <1>5, <1>6, <1>8, <1>9 DEF RoutesInv

LEMMA RemoveTextInv ==
  ASSUME RoutesInv, NEW p \in Server, RemoveText(p)
  PROVE  RoutesInv'
<1> DEFINE t == call[p].text
<1>1. /\ call[p].op = "unindex" /\ Becomes(p, NoCall) /\ (Removed(t) \/ NotRemoved(t))
      /\ UNCHANGED <<store, tables, due, events>>
  BY DEF RemoveText, At, Returns
<1>2. t \in Ids /\ ~Exists(t)
  <2>1. CallOK(call[p])
    BY DEF RoutesInv, CallsOK
  <2>2. QED
    BY <1>1, <2>1 DEF CallOK, OnText
<1>3. \A s \in Ids : s # t => ~Adding(call[p], s) /\ ~Removing(call[p], s)
  BY <1>1 DEF Adding, Removing
<1> HIDE DEF t
<1>4. QED
  BY <1>1, <1>2, <1>3, NoCallIs, RemovedInv

LEMMA PurgeTextInv ==
  ASSUME RoutesInv, NEW p \in Server, PurgeText(p)
  PROVE  RoutesInv'
<1>1. PICK t \in call[p].texts :
        /\ Becomes(p, [call[p] EXCEPT !.texts = @ \ {t}]) /\ (Removed(t) \/ NotRemoved(t))
        /\ call[p].op = "purge" /\ UNCHANGED <<store, tables, due, events>>
  BY DEF PurgeText, At
<1> DEFINE c == [call[p] EXCEPT !.texts = @ \ {t}]
<1>2. /\ IsCall(call[p]) /\ call[p].doer = call[p].by
      /\ \A s \in call[p].texts : s \in Ids /\ ~Exists(s)
  <2>1. CallOK(call[p])
    BY DEF RoutesInv, CallsOK
  <2>2. QED
    BY <1>1, <2>1 DEF CallOK
<1>3. IsCall(c) /\ c.op = "purge" /\ c.doer = c.by /\ c.texts = call[p].texts \ {t}
  BY <1>1, <1>2 DEF IsCall
<1> HIDE DEF c
<1>4. texts' = texts /\ Ids' = Ids
  <2>1. TextsOK /\ texts' = texts
    BY <1>1 DEF RoutesInv, store
  <2>2. QED
    BY <2>1, TextsStay
<1>5. CallNow(c)
  BY <1>2, <1>3, <1>4 DEF CallNow, OnText, Exists
<1>6. \A s \in Ids : s # t => ~Adding(call[p], s) /\ (Removing(call[p], s) => Removing(c, s))
  BY <1>1, <1>3 DEF Adding, Removing
<1>7. Becomes(p, c) /\ t \in Ids /\ ~Exists(t) /\ call[p].op # "unregister"
  BY <1>1, <1>2 DEF c
<1>8. QED
  BY <1>1, <1>5, <1>6, <1>7, RemovedInv

LEMMA DeleteUserInv ==
  ASSUME RoutesInv, NEW p \in Proc, NEW u \in User, DeleteUser(p, u)
  PROVE  RoutesInv'
<1> DEFINE gone == CreatedBy(u)
           b == Request("purge", u, 0)
           c == [b EXCEPT !.texts = gone]
<1>1. /\ call[p] = NoCall /\ Becomes(p, c)
      /\ texts' = [t \in Ids |-> IF t \in gone THEN Deleted(texts[t]) ELSE texts[t]]
      /\ fragments' = {f \in fragments : f[1] \notin gone}
      /\ UNCHANGED <<follows, tables, search, due, events>>
  BY DEF DeleteUser, Arrives
<1>2. /\ TextsOK /\ TablesOK /\ CallsOK /\ EventsOK /\ HearOK /\ InboxOK /\ DevicesOK /\ SearchOK
  BY DEF RoutesInv
<1>3. gone \subseteq Ids
  BY DEF CreatedBy
<1>4. Len(texts) \in Nat /\ Ids = 1 .. Len(texts) /\ \A t \in Ids : texts[t] \in TextRec
  BY <1>2, IdsAre
<1>5. IsCall(c) /\ c.op = "purge" /\ c.doer = c.by /\ c.texts = gone
  <2>1. "purge" \in Op /\ u \in Who /\ 0 \in Nat
    BY DEF Op, Who
  <2>2. IsCall(b) /\ b.op = "purge" /\ b.doer = b.by
    BY <2>1, RequestIs
  <2> HIDE DEF b, gone
  <2>3. QED
    BY <2>2 DEF IsCall
<1> HIDE DEF c, gone
<1>6. /\ \A t \in gone : texts'[t] = Deleted(texts[t])
      /\ \A t \in Ids : t \notin gone => texts'[t] = texts[t]
  BY <1>1, <1>3
<1>7. \A t \in gone : /\ Deleted(texts[t]) \in TextRec /\ Deleted(texts[t]).exists = FALSE
                      /\ Deleted(texts[t]).previous = texts[t].previous /\ Deleted(texts[t]).closeBy = None
  BY <1>3, <1>4, DeletedIs
<1>8. texts' \in Seq(TextRec) /\ Len(texts') = Len(texts)
  <2>1. texts' \in [1 .. Len(texts) -> TextRec]
    BY <1>1, <1>4, <1>7
  <2>2. QED
    BY <1>4, <2>1
<1>9. Ids' = Ids /\ Len(texts) <= Len(texts')
  BY <1>4, <1>8 DEF Ids
<1>10. TextsOK' /\ TextsGrow
  <2>1. \A s \in Ids : /\ texts'[s].previous = texts[s].previous
                       /\ texts'[s].exists => texts[s].exists
                       /\ texts'[s].exists /\ texts'[s].next = 0 => texts[s].next = 0
                       /\ texts'[s].closeBy # None => texts'[s].asked = texts'[s].closeBy
    BY <1>2, <1>6, <1>7 DEF TextsOK
  <2>2. Ids' \ Ids = {}
    BY <1>9
  <2>3. QED
    BY <1>2, <1>8, <1>9, <2>1, <2>2, TextsMove
<1>11. /\ follows' = follows /\ accounts' = accounts /\ inbox' = inbox /\ devices' = devices
       /\ signedIn' = signedIn /\ unserved' = unserved /\ index' = index /\ astray' = astray /\ due' = due /\ events' = events
  BY <1>1 DEF tables, owners, search
<1>12. CallNow(c)
  BY <1>3, <1>5, <1>6, <1>7, <1>9 DEF CallNow, OnText
<1>13. CallsOK' /\ call'[p] = c /\ p \in Server /\ \A q \in Server : q # p => call'[q] = call[q]
  BY <1>1, <1>2, <1>10, <1>12, CallStep DEF Server
<1>14. TablesOK'
  <2>1. fragments' \subseteq Ids \X Author
    BY <1>1, <1>2 DEF TablesOK
  <2>2. QED
    BY <1>2, <1>9, <1>11, <2>1 DEF TablesOK
<1>15. EventsOK' /\ HearOK' /\ InboxOK'
  BY <1>2, <1>10, <1>11, EventsStay, HearKept, InboxStays
<1>16. ~Awaited(call[p])
  BY <1>1, NoCallQuiet
<1>17. DevicesOK'
  BY <1>2, <1>11, <1>13, <1>16, DevicesStay DEF Awaited, Server
<1>18. SearchOK'
  <2>1. ASSUME NEW s \in Ids, s \notin astray PROVE SearchNow(s)
    <3>1. ~Adding(call[p], s) /\ ~Removing(call[p], s)
      BY <1>16, <2>1 DEF Awaited
    <3>2. CASE s \in gone
      <4>1. Removing(call'[p], s)
        BY <1>5, <1>13, <3>2 DEF Removing
      <4>2. QED
        BY <1>6, <1>7, <1>13, <3>2, <4>1 DEF SearchNow
    <3>3. CASE s \notin gone
      BY <1>2, <1>6, <1>11, <1>13, <2>1, <3>1, <3>3, SearchKept
    <3>4. QED
      BY <3>2, <3>3
  <2>2. QED
    BY <1>9, <1>11, <2>1, SearchNowOK
<1>19. QED
  BY <1>10, <1>13, <1>14, <1>15, <1>17, <1>18 DEF RoutesInv

\* A deletion that stops half-way has taken texts; the index keeps them.
LEMMA GoneHalfway ==
  ASSUME RoutesInv, NEW gone \in SUBSET Ids, texts' \in Seq(TextRec), Len(texts') = Len(texts),
         \A t \in Ids : t \notin gone => texts'[t] = texts[t],
         \A t \in gone : /\ texts'[t].exists = FALSE /\ texts'[t].previous = texts[t].previous
                         /\ texts'[t].closeBy = None,
         fragments' \subseteq fragments, \A w \in follows : w \in follows' \/ w[2] \in gone,
         astray' = astray \cup gone, UNCHANGED <<tables, index, due, events>>,
         DOMAIN call' = Server,
         \A q \in Server : call'[q] = call[q] \/ (call'[q] = NoCall /\ ~Awaited(call[q]))
  PROVE  RoutesInv'
<1>1. /\ TextsOK /\ TablesOK /\ CallsOK /\ EventsOK /\ HearOK /\ InboxOK /\ DevicesOK /\ SearchOK
  BY DEF RoutesInv
<1>2. Len(texts) \in Nat /\ Ids = 1 .. Len(texts)
  BY <1>1, IdsAre
<1>3. Ids' = Ids /\ Len(texts) <= Len(texts')
  BY <1>2 DEF Ids
<1>4. TextsOK' /\ TextsGrow
  <2>1. \A s \in Ids : /\ texts'[s].previous = texts[s].previous
                       /\ texts'[s].exists => texts[s].exists
                       /\ texts'[s].exists /\ texts'[s].next = 0 => texts[s].next = 0
                       /\ texts'[s].closeBy # None => texts'[s].asked = texts'[s].closeBy
    BY <1>1 DEF TextsOK
  <2>2. Ids' \ Ids = {}
    BY <1>3
  <2>3. QED
    BY <1>1, <1>3, <2>1, <2>2, TextsMove
<1>5. /\ accounts' = accounts /\ inbox' = inbox /\ devices' = devices /\ signedIn' = signedIn
      /\ unserved' = unserved /\ index' = index /\ due' = due /\ events' = events
  BY DEF tables, owners
<1>6. CallsOK'
  <2>1. \A q \in Server : CallNow(call'[q])
    BY <1>1, <1>4, CallStays, NoCallIs DEF CallsOK
  <2>2. QED
    BY <2>1, CallsNow
<1>7. TablesOK'
  <2>1. fragments' \subseteq Ids \X Author /\ astray' \subseteq Ids
    BY <1>1 DEF TablesOK
  <2>2. QED
    BY <1>1, <1>3, <1>5, <2>1 DEF TablesOK
<1>8. EventsOK' /\ InboxOK'
  BY <1>1, <1>4, <1>5, EventsStay, InboxStays
<1>9. HearOK'
  <2>1. ASSUME NEW i \in DOMAIN events PROVE HearsNow(i, events[i])
    <3>1. ASSUME NEW u, <<u, events[i].text>> \in follows
          PROVE  \/ <<u, events[i].text>> \in follows'
                 \/ ~(texts'[events[i].text].exists /\ texts'[events[i].text].next = 0)
      BY <3>1
    <3>2. QED
      BY <1>1, <1>4, <1>5, <3>1, HearStays
  <2>2. QED
    BY <1>1, <1>5, <2>1, HearNow DEF EventsOK
<1>10. DevicesOK'
  BY <1>1, <1>5, DevicesStay DEF Awaited, Server
<1>11. SearchOK'
  <2>1. ASSUME NEW s \in Ids, s \notin astray' PROVE SearchNow(s)
    <3>1. s \notin astray /\ texts'[s] = texts[s]
      BY <2>1
    <3>2. (\E q \in Server : Adding(call[q], s)) => \E q \in Server : Adding(call'[q], s)
      BY <2>1 DEF Awaited
    <3>3. (\E q \in Server : Removing(call[q], s)) => \E q \in Server : Removing(call'[q], s)
      BY <2>1 DEF Awaited
    <3>4. QED
      BY <1>1, <1>5, <2>1, <3>1, <3>2, <3>3 DEF SearchOK, SearchNow, RoundOpen, Exists, IsSuperseded
  <2>2. QED
    BY <1>3, <2>1, SearchNowOK
<1>12. QED
  BY <1>4, <1>6, <1>7, <1>8, <1>9, <1>10, <1>11 DEF RoutesInv

\* What the deletion of one text that stops half-way leaves.
LEMMA HalfwayIs ==
  ASSUME NEW p, DeleteTextHalfway(p)
  PROVE  /\ call[p].op = "delete" /\ Exists(call[p].text) /\ Becomes(p, NoCall)
         /\ \/ texts' = [texts EXCEPT ![call[p].text] = Gone(texts[call[p].text])]
            \/ texts' = [texts EXCEPT ![call[p].text] = Deleted(texts[call[p].text])]
         /\ fragments' \subseteq fragments /\ follows' \subseteq follows
         /\ \A w \in follows : w \in follows' \/ w[2] = call[p].text
         /\ astray' = astray \cup {call[p].text} /\ UNCHANGED <<tables, index, due, events>>
<1> DEFINE t == call[p].text
<1>1. /\ call[p].op = "delete" /\ Exists(t) /\ Becomes(p, NoCall)
      /\ astray' = astray \cup {t} /\ UNCHANGED <<tables, index, due, events>>
      /\ \/ texts' = [texts EXCEPT ![t] = Gone(@)] /\ UNCHANGED <<fragments, follows>>
         \/ /\ texts' = [texts EXCEPT ![t] = Deleted(@)]
            /\ \/ \E fs \in SUBSET FragmentsOf(t) : fragments' = fragments \ fs /\ UNCHANGED follows
               \/ \E ss \in SUBSET SubscriptionsTo(t) :
                    fragments' = fragments \ FragmentsOf(t) /\ follows' = follows \ ss
  BY DEF DeleteTextHalfway, At, Returns
<1>2. /\ fragments' \subseteq fragments /\ follows' \subseteq follows
      /\ \A w \in follows : w \in follows' \/ w[2] = t
  <2>1. CASE UNCHANGED <<fragments, follows>>
    BY <2>1
  <2>2. CASE \E fs \in SUBSET FragmentsOf(t) : fragments' = fragments \ fs /\ UNCHANGED follows
    BY <2>2
  <2>3. CASE \E ss \in SUBSET SubscriptionsTo(t) :
               fragments' = fragments \ FragmentsOf(t) /\ follows' = follows \ ss
    BY <2>3 DEF SubscriptionsTo
  <2>4. QED
    BY <1>1, <2>1, <2>2, <2>3
<1>3. QED
  BY <1>1, <1>2

LEMMA DeleteTextHalfwayInv ==
  ASSUME RoutesInv, NEW p \in Server, DeleteTextHalfway(p)
  PROVE  RoutesInv'
<1>1. PICK t : t = call[p].text
  OBVIOUS
<1>2. PICK r : /\ r = Gone(texts[t]) \/ r = Deleted(texts[t])
               /\ texts' = [texts EXCEPT ![t] = r]
  BY <1>1, HalfwayIs
<1>3. /\ call[p].op = "delete" /\ Becomes(p, NoCall) /\ fragments' \subseteq fragments
      /\ \A w \in follows : w \in follows' \/ w[2] = t
      /\ astray' = astray \cup {t} /\ UNCHANGED <<tables, index, due, events>>
  BY <1>1, HalfwayIs
<1>4. TextsOK /\ CallsOK
  BY DEF RoutesInv
<1>5. t \in Ids
  <2>1. CallOK(call[p])
    BY <1>4 DEF CallsOK
  <2>2. QED
    BY <1>1, <1>3, <2>1 DEF CallOK, OnText
<1>6. r \in TextRec /\ r.exists = FALSE /\ r.previous = texts[t].previous /\ r.closeBy = None
  <2>1. PICK x \in TextRec : x = texts[t]
    BY <1>4, <1>5, IdsAre
  <2>2. r = Gone(x) \/ r = Deleted(x)
    BY <1>2, <2>1
  <2>3. CASE r = Gone(x)
    BY <2>1, <2>3, GoneIs
  <2>4. CASE r = Deleted(x)
    BY <2>1, <2>4, DeletedIs
  <2>5. QED
    BY <2>2, <2>3, <2>4
<1>7. texts \in Seq(TextRec) /\ DOMAIN texts = Ids
  BY <1>4, IdsAre DEF TextsOK
<1>8. /\ texts' \in Seq(TextRec) /\ Len(texts') = Len(texts)
      /\ texts'[t] = r /\ \A s \in Ids : s # t => texts'[s] = texts[s]
  BY <1>2, <1>5, <1>6, <1>7, ExceptSeq
<1>9. ~Awaited(call[p])
  BY <1>3 DEF Awaited, Adding, Removing
<1>10. /\ DOMAIN call' = Server
       /\ \A q \in Server : call'[q] = call[q] \/ (call'[q] = NoCall /\ ~Awaited(call[q]))
  BY <1>3, <1>4, <1>9 DEF CallsOK, Becomes
<1> DEFINE gone == {t}
<1>11. /\ gone \in SUBSET Ids /\ astray' = astray \cup gone
       /\ \A s \in Ids : s \notin gone => texts'[s] = texts[s]
       /\ \A s \in gone : /\ texts'[s].exists = FALSE /\ texts'[s].previous = texts[s].previous
                         /\ texts'[s].closeBy = None
       /\ \A w \in follows : w \in follows' \/ w[2] \in gone
  BY <1>3, <1>5, <1>6, <1>8
<1> HIDE DEF gone
<1>12. QED
  BY <1>3, <1>8, <1>10, <1>11, GoneHalfway

\* What the deletion of an account's texts that stops half-way leaves.
LEMMA UserHalfwayIs ==
  ASSUME TextsOK, NEW u, DeleteUserHalfway(u)
  PROVE  \E gone \in SUBSET CreatedBy(u) :
           /\ texts' \in Seq(TextRec) /\ Len(texts') = Len(texts)
           /\ \A t \in Ids : t \notin gone => texts'[t] = texts[t]
           /\ \A t \in gone : texts'[t] = Gone(texts[t]) \/ texts'[t] = Deleted(texts[t])
           /\ fragments' \subseteq fragments /\ astray' = astray \cup gone
           /\ UNCHANGED <<follows, tables, index, due, call, events>>
<1>1. PICK ts \in SUBSET CreatedBy(u) :
        /\ \/ \E last \in ts \cup {0} :
                /\ texts' = [t \in Ids |-> IF t = last THEN Gone(texts[t])
                                           ELSE IF t \in ts THEN Deleted(texts[t]) ELSE texts[t]]
                /\ UNCHANGED fragments
           \/ /\ texts' = [t \in Ids |-> IF t \in ts THEN Deleted(texts[t]) ELSE texts[t]]
              /\ \E fs \in SUBSET {f \in fragments : f[1] \in ts} : fragments' = fragments \ fs
        /\ astray' = astray \cup ts
        /\ UNCHANGED <<follows, tables, index, due, call, events>>
  BY DEF DeleteUserHalfway
<1>2. /\ Len(texts) \in Nat /\ Ids = 1 .. Len(texts) /\ ts \subseteq Ids
      /\ \A t \in Ids : /\ texts[t] \in TextRec /\ Gone(texts[t]) \in TextRec
                        /\ Deleted(texts[t]) \in TextRec
  BY IdsAre, GoneIs, DeletedIs DEF CreatedBy
<1>3. /\ texts' \in [Ids -> TextRec] /\ fragments' \subseteq fragments
      /\ \A t \in Ids : t \notin ts => texts'[t] = texts[t]
      /\ \A t \in ts : texts'[t] = Gone(texts[t]) \/ texts'[t] = Deleted(texts[t])
  <2>1. CASE \E last \in ts \cup {0} :
               /\ texts' = [t \in Ids |-> IF t = last THEN Gone(texts[t])
                                          ELSE IF t \in ts THEN Deleted(texts[t]) ELSE texts[t]]
               /\ UNCHANGED fragments
    <3>1. PICK last \in ts \cup {0} :
               /\ texts' = [t \in Ids |-> IF t = last THEN Gone(texts[t])
                                          ELSE IF t \in ts THEN Deleted(texts[t]) ELSE texts[t]]
               /\ UNCHANGED fragments
      BY <2>1
    <3>2. 0 \notin Ids
      BY <1>2
    <3>3. QED
      BY <1>2, <3>1, <3>2
  <2>2. CASE /\ texts' = [t \in Ids |-> IF t \in ts THEN Deleted(texts[t]) ELSE texts[t]]
             /\ \E fs \in SUBSET {f \in fragments : f[1] \in ts} : fragments' = fragments \ fs
    <3>1. fragments' \subseteq fragments
      BY <2>2
    <3>2. QED
      BY <1>2, <2>2, <3>1
  <2>3. QED
    BY <1>1, <2>1, <2>2
<1>4. texts' \in Seq(TextRec) /\ Len(texts') = Len(texts)
  BY <1>2, <1>3
<1>5. QED
  BY <1>1, <1>3, <1>4

LEMMA DeleteUserHalfwayInv ==
  ASSUME RoutesInv, NEW u \in User, DeleteUserHalfway(u)
  PROVE  RoutesInv'
<1>1. TextsOK /\ CallsOK
  BY DEF RoutesInv
<1>2. PICK gone \in SUBSET CreatedBy(u) :
        /\ texts' \in Seq(TextRec) /\ Len(texts') = Len(texts)
        /\ \A t \in Ids : t \notin gone => texts'[t] = texts[t]
        /\ \A t \in gone : texts'[t] = Gone(texts[t]) \/ texts'[t] = Deleted(texts[t])
        /\ fragments' \subseteq fragments /\ astray' = astray \cup gone
        /\ UNCHANGED <<follows, tables, index, due, call, events>>
  BY <1>1, UserHalfwayIs
<1>3. gone \in SUBSET Ids
  BY DEF CreatedBy
<1>4. \A t \in gone : /\ texts'[t].exists = FALSE /\ texts'[t].previous = texts[t].previous
                      /\ texts'[t].closeBy = None
  <2> SUFFICES ASSUME NEW t \in gone
               PROVE  /\ texts'[t].exists = FALSE /\ texts'[t].previous = texts[t].previous
                      /\ texts'[t].closeBy = None
    OBVIOUS
  <2>1. PICK x \in TextRec : x = texts[t]
    BY <1>1, <1>3, IdsAre
  <2>2. PICK r : r = texts'[t]
    OBVIOUS
  <2>3. r = Gone(x) \/ r = Deleted(x)
    BY <1>2, <2>1, <2>2
  <2>4. r.exists = FALSE /\ r.previous = x.previous /\ r.closeBy = None
    <3>1. CASE r = Gone(x)
      BY <3>1, GoneIs
    <3>2. CASE r = Deleted(x)
      BY <3>2, DeletedIs
    <3>3. QED
      BY <2>3, <3>1, <3>2
  <2>5. QED
    BY <2>1, <2>2, <2>4
<1>5. /\ DOMAIN call' = Server /\ follows' = follows
      /\ \A q \in Server : call'[q] = call[q] \/ (call'[q] = NoCall /\ ~Awaited(call[q]))
  BY <1>1, <1>2 DEF CallsOK
<1>6. QED
  BY <1>2, <1>3, <1>4, <1>5, GoneHalfway

LEMMA DeleteUserFragmentsInv ==
  ASSUME RoutesInv, NEW p \in Server, DeleteUserFragments(p)
  PROVE  RoutesInv'
<1>1. PICK c : /\ c = [call[p] EXCEPT !.op = "unfollow"] \/ c = NoCall
               /\ call[p].op = "purge" /\ call[p].texts = {} /\ Becomes(p, c)
               /\ fragments' \subseteq fragments /\ UNCHANGED <<texts, follows, tables, search, due, events>>
  BY DEF DeleteUserFragments, At, Goes, Returns
<1>2. /\ TextsOK /\ TablesOK /\ CallsOK /\ EventsOK /\ HearOK /\ InboxOK /\ DevicesOK /\ SearchOK
  BY DEF RoutesInv
<1>3. /\ texts' = texts /\ follows' = follows /\ accounts' = accounts
      /\ inbox' = inbox /\ devices' = devices /\ signedIn' = signedIn /\ unserved' = unserved /\ index' = index
      /\ astray' = astray /\ due' = due /\ events' = events
  BY <1>1 DEF tables, owners, search
<1>4. TextsOK' /\ TextsGrow /\ Ids' = Ids
  BY <1>2, <1>3, TextsStay
<1>5. CallNow(c)
  <2>1. CASE c = [call[p] EXCEPT !.op = "unfollow"]
    <3>1. "unfollow" \in Op /\ IsCall(call[p]) /\ call[p].doer = call[p].by
      BY <1>2 DEF CallsOK, CallOK, Op
    <3>2. IsCall(c) /\ c.op = "unfollow" /\ c.doer = c.by
      BY <2>1, <3>1, GoesIs
    <3>3. QED
      BY <3>2 DEF CallNow, OnText
  <2>2. QED
    BY <1>1, <2>1, NoCallIs
<1>6. CallsOK' /\ \A q \in Server : q # p => call'[q] = call[q]
  BY <1>1, <1>2, <1>4, <1>5, CallStep
<1>7. EventsOK' /\ HearOK' /\ InboxOK'
  BY <1>2, <1>3, <1>4, EventsStay, HearKept, InboxStays
<1>8. ~Awaited(call[p])
  BY <1>1 DEF Awaited, Adding, Removing
<1>9. DevicesOK'
  BY <1>2, <1>3, <1>6, <1>8, DevicesStay DEF Awaited, Server
<1>10. SearchOK'
  BY <1>2, <1>3, <1>6, <1>8, SearchStays DEF Awaited
<1>11. TablesOK'
  BY <1>1, <1>2, <1>3, <1>4 DEF TablesOK
<1>12. QED
  BY <1>4, <1>6, <1>7, <1>9, <1>10, <1>11 DEF RoutesInv

-----------------------------------------------------------------------------
(* Leaving, the inbox and the devices.                                     *)

\* Whoever is owed an event less, the events are still as they should be.
LEMMA LessenedIs ==
  ASSUME EventsOK, NEW i \in DOMAIN events, NEW u \in Who
  PROVE  /\ Lessened(i, events[i])
         /\ LET e == [events[i] EXCEPT !.owed = @ \ {u}]
            IN  Lessened(i, e) /\ u \notin e.owed
         /\ Lessened(i, [events[i] EXCEPT !.owed = @ \ {u}, !.left = @ \cup {u}])
         /\ [events[i] EXCEPT !.owed = @ \ {u}, !.left = @ \cup {u}].owed = events[i].owed \ {u}
         /\ [events[i] EXCEPT !.owed = @ \ {u}, !.left = @].owed = events[i].owed \ {u}
         /\ Lessened(i, [events[i] EXCEPT !.owed = @ \ {u}, !.left = @])
         /\ Lessened(i, [events[i] EXCEPT !.kept = @ \cup {u}])
         /\ Lessened(i, [events[i] EXCEPT !.owed = @ \ {u}, !.kept = @ \cup {u}])
         /\ [events[i] EXCEPT !.owed = @ \ {u}, !.kept = @ \cup {u}].owed = events[i].owed \ {u}
<1> DEFINE d == events[i]
<1>1. d \in EventRec
  BY EventIs
<1> HIDE DEF d
<1>2. /\ d.owed \ {u} \in SUBSET User /\ d.left \cup {u} \in SUBSET Who /\ d.kept \cup {u} \in SUBSET Who
  BY <1>1 DEF EventRec
<1>3. Lessened(i, d)
  BY <1>1 DEF Lessened, d
<1>4. LET e == [d EXCEPT !.owed = @ \ {u}] IN Lessened(i, e) /\ u \notin e.owed
  <2> DEFINE e == [d EXCEPT !.owed = @ \ {u}]
  <2>1. e \in EventRec
    BY <1>1, <1>2 DEF EventRec
  <2>2. QED
    BY <1>1, <2>1 DEF Lessened, d, EventRec
<1>5. /\ Lessened(i, [d EXCEPT !.owed = @ \ {u}, !.left = @ \cup {u}])
      /\ [d EXCEPT !.owed = @ \ {u}, !.left = @ \cup {u}].owed = d.owed \ {u}
  <2> DEFINE e == [d EXCEPT !.owed = @ \ {u}, !.left = @ \cup {u}]
  <2>1. e \in EventRec
    BY <1>1, <1>2 DEF EventRec
  <2>2. QED
    BY <1>1, <2>1 DEF Lessened, d, EventRec
<1>6. /\ Lessened(i, [d EXCEPT !.owed = @ \ {u}, !.left = @])
      /\ [d EXCEPT !.owed = @ \ {u}, !.left = @].owed = d.owed \ {u}
  <2> DEFINE e == [d EXCEPT !.owed = @ \ {u}, !.left = @]
  <2>1. e \in EventRec
    BY <1>1, <1>2 DEF EventRec
  <2>2. QED
    BY <1>1, <2>1 DEF Lessened, d, EventRec
<1>7. Lessened(i, [d EXCEPT !.kept = @ \cup {u}])
  <2> DEFINE e == [d EXCEPT !.kept = @ \cup {u}]
  <2>1. e \in EventRec
    BY <1>1, <1>2 DEF EventRec
  <2>2. QED
    BY <1>1, <2>1 DEF Lessened, d, EventRec
<1>8. /\ Lessened(i, [d EXCEPT !.owed = @ \ {u}, !.kept = @ \cup {u}])
      /\ [d EXCEPT !.owed = @ \ {u}, !.kept = @ \cup {u}].owed = d.owed \ {u}
  <2> DEFINE e == [d EXCEPT !.owed = @ \ {u}, !.kept = @ \cup {u}]
  <2>1. e \in EventRec
    BY <1>1, <1>2 DEF EventRec
  <2>2. QED
    BY <1>1, <2>1 DEF Lessened, d, EventRec
<1>9. QED
  BY <1>3, <1>4, <1>5, <1>6, <1>7, <1>8 DEF d

\* Who leaves a text is no longer owed what there was about it.
LEMMA UnsubscribeInv ==
  ASSUME RoutesInv, NEW p \in Proc, NEW u \in User, NEW t \in Ids, Unsubscribe(p, u, t)
  PROVE  RoutesInv'
<1> DEFINE c == Request("chain", u, t)
<1>1. /\ call[p] = NoCall /\ Becomes(p, c) /\ follows' = follows \ {<<u, t>>}
      /\ events' = [i \in DOMAIN events |-> LeavesEvent(events[i], u, t)]
      /\ UNCHANGED <<texts, fragments, tables, search, due>>
  BY DEF Unsubscribe, Arrives
<1>2. /\ TextsOK /\ TablesOK /\ CallsOK /\ EventsOK /\ HearOK /\ InboxOK /\ DevicesOK /\ SearchOK
  BY DEF RoutesInv
<1>3. /\ texts' = texts /\ fragments' = fragments /\ accounts' = accounts
      /\ inbox' = inbox /\ devices' = devices /\ signedIn' = signedIn /\ unserved' = unserved /\ index' = index
      /\ astray' = astray /\ due' = due
  BY <1>1 DEF tables, owners, search
<1>4. TextsOK' /\ TextsGrow /\ Ids' = Ids /\ t \in Nat
  BY <1>2, <1>3, TextsStay, IdsAre
<1>5. CallNow(c)
  <2>1. "chain" \in Op /\ u \in Who
    BY DEF Op, Who
  <2>2. IsCall(c) /\ c.op = "chain" /\ c.doer = c.by
    BY <1>4, <2>1, RequestIs
  <2> HIDE DEF c
  <2>3. QED
    BY <2>2 DEF CallNow, OnText
<1> HIDE DEF c
<1>6. CallsOK' /\ \A q \in Server : q # p => call'[q] = call[q]
  BY <1>1, <1>2, <1>4, <1>5, CallStep DEF Server
<1>7. /\ DOMAIN events' = DOMAIN events /\ events' = [i \in DOMAIN events |-> events'[i]]
      /\ \A i \in DOMAIN events : events'[i] = LeavesEvent(events[i], u, t)
  BY <1>1
<1>8. ASSUME NEW i \in DOMAIN events
      PROVE  /\ Lessened(i, events'[i])
             /\ \A x \in events'[i].owed : x # u \/ events[i].text # t
  <2>1. u \in Who
    BY DEF Who
  <2>2. CASE events[i].version \in Lineage(t)
    <3>1. \/ events'[i] = [events[i] EXCEPT !.owed = @ \ {u}, !.left = @ \cup {u}]
          \/ events'[i] = [events[i] EXCEPT !.owed = @ \ {u}, !.left = @]
      BY <1>7, <2>2 DEF LeavesEvent
    <3> DEFINE a == [events[i] EXCEPT !.owed = @ \ {u}, !.left = @ \cup {u}]
               b == [events[i] EXCEPT !.owed = @ \ {u}, !.left = @]
    <3>2. /\ Lessened(i, a) /\ a.owed = events[i].owed \ {u}
          /\ Lessened(i, b) /\ b.owed = events[i].owed \ {u}
      BY <1>2, <2>1, LessenedIs
    <3>3. events'[i] = a \/ events'[i] = b
      BY <3>1
    <3> HIDE DEF a, b
    <3>4. Lessened(i, events'[i]) /\ events'[i].owed = events[i].owed \ {u}
      BY <3>2, <3>3
    <3>5. QED
      BY <3>4
  <2>3. CASE events[i].version \notin Lineage(t)
    <3>1. events'[i] = events[i]
      BY <1>7, <2>3 DEF LeavesEvent
    <3>2. events[i].text # t
      BY <1>2, <2>3 DEF EventsOK, Lineage
    <3>3. QED
      BY <1>2, <2>1, <3>1, <3>2, LessenedIs
  <2>4. QED
    BY <2>2, <2>3
<1>9. EventsOK' /\ events' \in Seq(EventRec) /\ \A i \in DOMAIN events : events'[i].doer = events[i].doer
  BY <1>2, <1>4, <1>7, <1>8, EventsLessened
<1>10. HearOK'
  <2>1. ASSUME NEW i \in DOMAIN events PROVE HearsNow(i, events'[i])
    <3>1. \A x \in events'[i].owed : <<x, events'[i].text>> \in follows => <<x, events'[i].text>> \in follows'
      BY <1>1, <1>8 DEF Lessened
    <3>2. QED
      BY <1>2, <1>3, <1>4, <1>8, <3>1, HearShrinks DEF Lessened
  <2>2. QED
    BY <1>7, <1>9, <2>1, HearNow
<1>11. TablesOK' /\ InboxOK'
  BY <1>2, <1>3, <1>4, <1>7, <1>9, TablesStay, InboxStays DEF search, owners
<1>12. ~Awaited(call[p])
  BY <1>1, NoCallQuiet
<1>13. DevicesOK' /\ SearchOK'
  <2>1. DevicesOK'
    BY <1>2, <1>3, <1>6, <1>12, DevicesStay DEF Awaited, Server
  <2>2. SearchOK'
    BY <1>2, <1>3, <1>6, <1>12, SearchStays DEF Awaited
  <2>3. QED
    BY <2>1, <2>2
<1>14. QED
  BY <1>4, <1>6, <1>9, <1>10, <1>11, <1>13 DEF RoutesInv

\* What the deletion of an account's subscriptions leaves, done or half-way.
LEMMA UnfollowIs ==
  ASSUME NEW p, DeleteUserSubscriptions(p)
  PROVE  /\ call[p].op = "unfollow"
         /\ Becomes(p, [call[p] EXCEPT !.op = "row"]) \/ Becomes(p, NoCall)
         /\ follows' \subseteq follows /\ \A w \in follows : w[1] # call[p].by => w \in follows'
         /\ events' = [i \in DOMAIN events |->
              [events[i] EXCEPT !.owed = @ \ {call[p].by}, !.kept = @ \cup {call[p].by}]]
         /\ UNCHANGED <<texts, fragments, tables, search, due>>
<1>1. /\ call[p].op = "unfollow"
      /\ events' = [i \in DOMAIN events |->
           [events[i] EXCEPT !.owed = @ \ {call[p].by}, !.kept = @ \cup {call[p].by}]]
      /\ UNCHANGED <<texts, fragments, tables, search, due>>
      /\ \/ /\ follows' = follows \ {s \in follows : s[1] = call[p].by}
            /\ Becomes(p, [call[p] EXCEPT !.op = "row"])
         \/ /\ \E ss \in SUBSET {s \in follows : s[1] = call[p].by} : follows' = follows \ ss
            /\ Becomes(p, NoCall)
  BY DEF DeleteUserSubscriptions, At, Goes, Returns
<1>2. follows' \subseteq follows /\ \A w \in follows : w[1] # call[p].by => w \in follows'
  BY <1>1
<1>3. QED
  BY <1>1, <1>2

LEMMA DeleteUserSubscriptionsInv ==
  ASSUME RoutesInv, NEW p \in Server, DeleteUserSubscriptions(p)
  PROVE  RoutesInv'
<1> DEFINE u == call[p].by
<1>1. PICK c : /\ c = [call[p] EXCEPT !.op = "row"] \/ c = NoCall
               /\ call[p].op = "unfollow" /\ Becomes(p, c)
               /\ \A w \in follows : w[1] # u => w \in follows'
               /\ events' = [i \in DOMAIN events |-> [events[i] EXCEPT !.owed = @ \ {u}, !.kept = @ \cup {u}]]
               /\ UNCHANGED <<texts, fragments, tables, search, due>>
  BY UnfollowIs
<1>2. /\ TextsOK /\ TablesOK /\ CallsOK /\ EventsOK /\ HearOK /\ InboxOK /\ DevicesOK /\ SearchOK
  BY DEF RoutesInv
<1>3. /\ texts' = texts /\ fragments' = fragments /\ accounts' = accounts
      /\ inbox' = inbox /\ devices' = devices /\ signedIn' = signedIn /\ unserved' = unserved /\ index' = index
      /\ astray' = astray /\ due' = due
  BY <1>1 DEF tables, owners, search
<1>4. TextsOK' /\ TextsGrow /\ Ids' = Ids
  BY <1>2, <1>3, TextsStay
<1>5. CallNow(c) /\ u \in Who
  <2>1. "row" \in Op /\ IsCall(call[p]) /\ call[p].doer = call[p].by
    BY <1>2 DEF CallsOK, CallOK, Op
  <2>2. u \in Who
    BY <2>1 DEF IsCall
  <2>3. CASE c = [call[p] EXCEPT !.op = "row"]
    <3>1. IsCall(c) /\ c.op = "row" /\ c.doer = c.by
      BY <2>1, <2>3, GoesIs
    <3>2. QED
      BY <2>2, <3>1 DEF CallNow, OnText
  <2>4. QED
    BY <1>1, <2>2, <2>3, NoCallIs
<1>6. ~Awaited(call[p])
  BY <1>1 DEF Awaited, Adding, Removing
<1> HIDE DEF u
<1>7. CallsOK' /\ \A q \in Server : q # p => call'[q] = call[q]
  BY <1>1, <1>2, <1>4, <1>5, CallStep
<1>8. /\ DOMAIN events' = DOMAIN events /\ events' = [i \in DOMAIN events |-> events'[i]]
      /\ \A i \in DOMAIN events :
           events'[i] = [events[i] EXCEPT !.owed = @ \ {u}, !.kept = @ \cup {u}]
  BY <1>1
<1>9. \A i \in DOMAIN events : Lessened(i, events'[i]) /\ u \notin events'[i].owed
  <2>1. ASSUME NEW i \in DOMAIN events PROVE Lessened(i, events'[i]) /\ u \notin events'[i].owed
    <3> DEFINE e == [events[i] EXCEPT !.owed = @ \ {u}, !.kept = @ \cup {u}]
    <3>1. Lessened(i, e) /\ e.owed = events[i].owed \ {u}
      BY <1>2, <1>5, LessenedIs
    <3>2. events'[i] = e
      BY <1>8
    <3> HIDE DEF e
    <3>3. QED
      BY <3>1, <3>2
  <2>2. QED
    BY <2>1
<1>10. EventsOK' /\ events' \in Seq(EventRec) /\ \A i \in DOMAIN events : events'[i].doer = events[i].doer
  BY <1>2, <1>4, <1>8, <1>9, EventsLessened
<1>11. HearOK'
  <2>1. ASSUME NEW i \in DOMAIN events PROVE HearsNow(i, events'[i])
    <3>1. ASSUME NEW x \in events'[i].owed, <<x, events'[i].text>> \in follows
          PROVE  <<x, events'[i].text>> \in follows'
      <4> DEFINE s == <<x, events'[i].text>>
      <4>1. s \in follows /\ s[1] # u
        BY <1>9, <3>1
      <4> HIDE DEF s
      <4>2. s \in follows'
        BY <1>1, <4>1
      <4>3. QED
        BY <4>2 DEF s
    <3>2. QED
      BY <1>2, <1>3, <1>4, <1>9, <3>1, HearShrinks DEF Lessened
  <2>2. QED
    BY <1>8, <1>10, <2>1, HearNow
<1>12. TablesOK' /\ InboxOK'
  BY <1>2, <1>3, <1>4, <1>8, <1>10, TablesStay, InboxStays DEF search, owners
<1>13. DevicesOK'
  BY <1>2, <1>3, <1>6, <1>7, DevicesStay DEF Awaited, Server
<1>14. SearchOK'
  BY <1>2, <1>3, <1>6, <1>7, SearchStays DEF Awaited
<1>15. QED
  BY <1>4, <1>7, <1>10, <1>11, <1>12, <1>13, <1>14 DEF RoutesInv

\* Rows that go are of events that their owner is no longer owed.
LEMMA ForgetNotificationsInv ==
  ASSUME RoutesInv, NEW p \in Server, ForgetNotifications(p)
  PROVE  RoutesInv'
<1> DEFINE u == call[p].by
           about == {i \in DOMAIN events : events[i].text \in call[p].texts}
           Took == /\ inbox' = [inbox EXCEPT ![u] = {row \in @ : row.event \notin about}]
                   /\ events' = [i \in DOMAIN events |->
                        IF i \in about THEN [events[i] EXCEPT !.owed = @ \ {u}] ELSE events[i]]
           Failed == /\ inbox' = inbox
                     /\ events' = [i \in DOMAIN events |->
                          IF i \in about THEN [events[i] EXCEPT !.kept = @ \cup {u}] ELSE events[i]]
<1>1. /\ call[p].op = "forget" /\ Becomes(p, NoCall) /\ (Took \/ Failed)
      /\ UNCHANGED <<store, accounts, owners, search, due>>
  BY DEF ForgetNotifications, At, Returns
<1>2. /\ TextsOK /\ TablesOK /\ CallsOK /\ EventsOK /\ HearOK /\ InboxOK /\ DevicesOK /\ SearchOK
  BY DEF RoutesInv
<1>3. /\ texts' = texts /\ fragments' = fragments /\ follows' = follows /\ accounts' = accounts
      /\ devices' = devices /\ signedIn' = signedIn /\ unserved' = unserved /\ index' = index
      /\ astray' = astray /\ due' = due
  BY <1>1 DEF store, search, owners
<1>4. TextsOK' /\ TextsGrow /\ Ids' = Ids
  BY <1>2, <1>3, TextsStay
<1>5. CallsOK' /\ \A q \in Server : q # p => call'[q] = call[q]
  BY <1>1, <1>2, <1>4, NoCallIs, CallStep
<1>6. ~Awaited(call[p])
  BY <1>1 DEF Awaited, Adding, Removing
<1>7. u \in Who
  BY <1>2 DEF CallsOK, CallOK, IsCall
<1> HIDE DEF u, about
<1>8. /\ DOMAIN events' = DOMAIN events /\ events' = [i \in DOMAIN events |-> events'[i]]
  BY <1>1
<1>9. \A i \in DOMAIN events : Lessened(i, events'[i]) /\ (Took /\ i \in about => u \notin events'[i].owed)
  <2>1. ASSUME NEW i \in DOMAIN events, Took
        PROVE Lessened(i, events'[i]) /\ (i \in about => u \notin events'[i].owed)
    BY <1>2, <1>7, <2>1, LessenedIs
  <2>2. ASSUME NEW i \in DOMAIN events, Failed PROVE Lessened(i, events'[i])
    BY <1>2, <1>7, <2>2, LessenedIs
  <2> HIDE DEF Took, Failed
  <2>3. QED
    BY <1>1, <2>1, <2>2
<1>10. EventsOK' /\ events' \in Seq(EventRec) /\ \A i \in DOMAIN events : events'[i].doer = events[i].doer
  BY <1>2, <1>4, <1>8, <1>9, EventsLessened
<1>11. /\ DOMAIN inbox' = User /\ \A x \in User : inbox'[x] \subseteq inbox[x]
       /\ Failed => inbox' = inbox
       /\ Took => \A x \in User : \A row \in inbox[x] : x # u \/ row.event \notin about => row \in inbox'[x]
  BY <1>1, <1>2 DEF InboxOK
<1>12. HearOK'
  <2>1. ASSUME NEW i \in DOMAIN events PROVE HearsNow(i, events'[i])
    <3>1. \A x \in events'[i].owed \cap accounts' : \A row \in inbox[x] :
            row.event = i => row \in inbox'[x]
      <4>1. accounts' \subseteq User
        BY <1>2, <1>3 DEF TablesOK
      <4> HIDE DEF Took, Failed
      <4>2. QED
        BY <1>1, <1>9, <1>11, <2>1, <4>1
    <3>2. QED
      BY <1>2, <1>3, <1>4, <1>9, <3>1, HearShrinks DEF Lessened
  <2>2. QED
    BY <1>8, <1>10, <2>1, HearNow
<1> HIDE DEF Took, Failed
<1>13. InboxOK'
  <2>1. ASSUME NEW x \in User PROVE RowsOK(inbox[x], x)'
    <3>1. RowsOK(inbox[x], x) /\ inbox'[x] \subseteq inbox[x]
      BY <1>2, <1>11 DEF InboxOK
    <3>2. QED
      BY <1>8, <1>10, <3>1 DEF RowsOK
  <2>2. QED
    BY <1>11, <2>1 DEF InboxOK
<1>14. TablesOK'
  BY <1>2, <1>3, <1>4, TablesStay DEF search, owners
<1>15. DevicesOK'
  BY <1>2, <1>3, <1>5, <1>6, DevicesStay DEF Awaited, Server
<1>16. SearchOK'
  BY <1>2, <1>3, <1>5, <1>6, SearchStays DEF Awaited
<1>17. QED
  BY <1>4, <1>5, <1>10, <1>12, <1>13, <1>14, <1>15, <1>16 DEF RoutesInv

\* The rows of an account go with it, and so do its devices.
LEMMA DeleteRowInv ==
  ASSUME RoutesInv, NEW p \in Server, DeleteRow(p)
  PROVE  RoutesInv'
<1> DEFINE u == call[p].by
<1>1. /\ call[p].op = "row" /\ Becomes(p, NoCall) /\ accounts' = accounts \ {u}
      /\ inbox' = [inbox EXCEPT ![u] = {}]
      /\ devices' = [d \in Device |-> IF devices[d] = u THEN None ELSE devices[d]]
      /\ signedIn' = [d \in Device |-> IF signedIn[d] = u THEN None ELSE signedIn[d]]
      /\ UNCHANGED <<store, unserved, search, due, events>>
  BY DEF DeleteRow, At, Returns, GivesUp
<1>2. /\ TextsOK /\ TablesOK /\ CallsOK /\ EventsOK /\ HearOK /\ InboxOK /\ DevicesOK /\ SearchOK
  BY DEF RoutesInv
<1>3. /\ texts' = texts /\ fragments' = fragments /\ follows' = follows /\ index' = index
      /\ astray' = astray /\ due' = due /\ events' = events
  BY <1>1 DEF store, search
<1>4. TextsOK' /\ TextsGrow /\ Ids' = Ids
  BY <1>2, <1>3, TextsStay
<1>5. CallsOK' /\ \A q \in Server : q # p => call'[q] = call[q]
  BY <1>1, <1>2, <1>4, NoCallIs, CallStep
<1>6. ~Awaited(call[p])
  BY <1>1 DEF Awaited, Adding, Removing
<1> HIDE DEF u
<1>7. TablesOK'
  <2>1. /\ devices' \in [Device -> Who] /\ signedIn' \in [Device -> Who] /\ accounts' \subseteq User
    BY <1>1, <1>2 DEF TablesOK, Who
  <2>2. QED
    BY <1>2, <1>3, <1>4, <2>1 DEF TablesOK
<1>8. /\ DOMAIN inbox' = User /\ \A x \in User : inbox'[x] = IF x = u THEN {} ELSE inbox[x]
  BY <1>1, <1>2 DEF InboxOK
<1>9. HearOK'
  <2>1. accounts' \subseteq accounts /\ accounts \subseteq User /\ u \notin accounts'
    BY <1>1, <1>2 DEF TablesOK
  <2>2. ASSUME NEW i \in DOMAIN events PROVE HearsNow(i, events[i])
    BY <1>2, <1>3, <1>4, <1>8, <2>1, HearStays
  <2>3. QED
    BY <1>2, <1>3, <2>2, HearNow DEF EventsOK
<1>10. EventsOK'
  BY <1>2, <1>3, <1>4, EventsStay
<1>11. InboxOK'
  <2>1. ASSUME NEW x \in User PROVE RowsOK(inbox[x], x)'
    <3>1. RowsOK(inbox[x], x) /\ RowsOK({}, x)
      BY <1>2 DEF InboxOK, RowsOK
    <3>2. QED
      BY <1>3, <1>8, <3>1 DEF RowsOK
  <2>2. QED
    BY <1>8, <2>1 DEF InboxOK
<1>12. DevicesOK'
  <2>1. \A q \in Proc : call[q].op = "unregister" => call'[q] = call[q]
    BY <1>1, <1>5 DEF Server
  <2>2. QED
    BY <1>1, <1>2, <2>1 DEF DevicesOK, SigningOff
<1>13. SearchOK'
  BY <1>2, <1>3, <1>5, <1>6, SearchStays DEF Awaited
<1>14. QED
  BY <1>4, <1>5, <1>7, <1>9, <1>10, <1>11, <1>12, <1>13 DEF RoutesInv

\* A step that concerns the devices alone.
LEMMA DevicesStep ==
  ASSUME RoutesInv, UNCHANGED <<store, accounts, inbox, search, due, events>>, CallsOK',
         devices' \in [Device -> Who], signedIn' \in [Device -> Who], DevicesOK',
         \A q \in Server, t \in Ids : Adding(call[q], t) \/ Removing(call[q], t) => call'[q] = call[q]
  PROVE  RoutesInv'
<1>1. /\ TextsOK /\ TablesOK /\ EventsOK /\ HearOK /\ InboxOK /\ SearchOK
  BY DEF RoutesInv
<1>2. /\ texts' = texts /\ fragments' = fragments /\ follows' = follows /\ accounts' = accounts
      /\ inbox' = inbox /\ index' = index /\ astray' = astray /\ due' = due /\ events' = events
  BY DEF store, search
<1>3. TextsOK' /\ TextsGrow /\ Ids' = Ids
  BY <1>1, <1>2, TextsStay
<1>4. EventsOK' /\ HearOK' /\ InboxOK' /\ SearchOK'
  BY <1>1, <1>2, <1>3, EventsStay, HearKept, InboxStays, SearchStays
<1>5. TablesOK'
  BY <1>1, <1>2, <1>3 DEF TablesOK
<1>6. QED
  BY <1>3, <1>4, <1>5 DEF RoutesInv

LEMMA RegisterDeviceInv ==
  ASSUME RoutesInv, NEW u \in User, NEW d \in Device, RegisterDevice(u, d)
  PROVE  RoutesInv'
<1>1. /\ devices' = [devices EXCEPT ![d] = u] /\ signedIn' = [signedIn EXCEPT ![d] = u]
      /\ unserved' = unserved \ {d} /\ UNCHANGED <<store, accounts, inbox, search, due, call, events>>
  BY DEF RegisterDevice
<1>2. /\ devices \in [Device -> Who] /\ signedIn \in [Device -> Who] /\ DevicesOK /\ CallsOK
      /\ TextsOK /\ u \in Who
  BY DEF RoutesInv, TablesOK, Who
<1>3. texts' = texts
  BY <1>1 DEF store
<1>4. CallsOK'
  BY <1>1, <1>2, <1>3, TextsStay, CallsKept
<1>5. devices' \in [Device -> Who] /\ signedIn' \in [Device -> Who] /\ DevicesOK'
  BY <1>1, <1>2 DEF DevicesOK, SigningOff
<1>6. QED
  BY <1>1, <1>4, <1>5, DevicesStep

LEMMA RegisterDeviceFailsInv ==
  ASSUME RoutesInv, NEW u \in User, NEW d \in Device, RegisterDeviceFails(u, d)
  PROVE  RoutesInv'
<1>1. /\ devices' = devices /\ signedIn' = [signedIn EXCEPT ![d] = u]
      /\ unserved' = unserved \cup ({d} \ {e \in Device : devices[e] = u})
      /\ UNCHANGED <<store, accounts, inbox, search, due, call, events>>
  BY DEF RegisterDeviceFails
<1>2. /\ devices \in [Device -> Who] /\ signedIn \in [Device -> Who] /\ DevicesOK /\ CallsOK
      /\ TextsOK /\ u \in Who
  BY DEF RoutesInv, TablesOK, Who
<1>3. texts' = texts
  BY <1>1 DEF store
<1>4. CallsOK'
  BY <1>1, <1>2, <1>3, TextsStay, CallsKept
<1>5. devices' \in [Device -> Who] /\ signedIn' \in [Device -> Who] /\ DevicesOK'
  BY <1>1, <1>2 DEF DevicesOK, SigningOff
<1>6. QED
  BY <1>1, <1>4, <1>5, DevicesStep

LEMMA SignOutInv ==
  ASSUME RoutesInv, NEW p \in Proc, NEW d \in Device, SignOut(p, d)
  PROVE  RoutesInv'
<1> DEFINE b == Request("unregister", signedIn[d], 0)
           c == [b EXCEPT !.texts = {d}]
<1>1. /\ signedIn[d] # None /\ call[p] = NoCall /\ Becomes(p, c)
      /\ signedIn' = [signedIn EXCEPT ![d] = None] /\ devices' = devices /\ unserved' = unserved
      /\ UNCHANGED <<store, accounts, inbox, search, due, events>>
  BY DEF SignOut, Arrives
<1>2. /\ devices \in [Device -> Who] /\ signedIn \in [Device -> Who] /\ DevicesOK /\ CallsOK
      /\ TextsOK /\ signedIn[d] \in Who /\ None \in Who
  BY DEF RoutesInv, TablesOK, Who
<1>3. IsCall(c) /\ c.op = "unregister" /\ c.doer = c.by /\ c.by = signedIn[d] /\ c.texts = {d}
  <2>1. "unregister" \in Op /\ 0 \in Nat
    BY DEF Op
  <2>2. IsCall(b) /\ b.op = "unregister" /\ b.doer = b.by /\ b.by = signedIn[d]
    BY <1>2, <2>1, RequestIs
  <2> HIDE DEF b
  <2>3. QED
    BY <2>2 DEF IsCall
<1> HIDE DEF c
<1>4. CallNow(c)
  BY <1>3 DEF CallNow, OnText
<1>5. TextsOK' /\ TextsGrow
  BY <1>1, <1>2, TextsStay DEF store
<1>6. CallsOK' /\ call'[p] = c /\ \A q \in Server : q # p => call'[q] = call[q]
  BY <1>1, <1>2, <1>4, <1>5, CallStep DEF Server
<1>7. ~Awaited(call[p])
  BY <1>1, NoCallQuiet
<1>8. devices' \in [Device -> Who] /\ signedIn' \in [Device -> Who]
  BY <1>1, <1>2
<1>9. DevicesOK'
  <2>1. ASSUME d \notin unserved
        PROVE  SigningOff(c, d) /\ c.by = devices'[d]
    BY <1>1, <1>2, <1>3, <2>1 DEF SigningOff, DevicesOK
  <2>2. \A q \in Proc : call[q].op = "unregister" => call'[q] = call[q]
    BY <1>6, <1>7 DEF Awaited, Server
  <2>3. ASSUME NEW x \in Device \ unserved, x # d
        PROVE  IF signedIn'[x] # None THEN devices'[x] = signedIn'[x]
               ELSE devices'[x] = None
                    \/ \E q \in Proc : SigningOff(call'[q], x) /\ call'[q].by = devices'[x]
    BY <1>1, <1>2, <2>2, <2>3 DEF DevicesOK, SigningOff
  <2>4. ASSUME d \notin unserved
        PROVE  signedIn'[d] = None /\ SigningOff(call'[p], d) /\ call'[p].by = devices'[d]
    BY <1>1, <1>2, <1>6, <2>1, <2>4
  <2>5. QED
    BY <1>1, <2>3, <2>4 DEF DevicesOK, SigningOff
<1>10. QED
  BY <1>1, <1>6, <1>7, <1>8, <1>9, DevicesStep DEF Awaited

LEMMA UnregisterDeviceInv ==
  ASSUME RoutesInv, NEW p \in Server, UnregisterDevice(p)
  PROVE  RoutesInv'
<1> DEFINE u == call[p].by
           ds == call[p].texts
<1>1. /\ call[p].op = "unregister" /\ Becomes(p, NoCall)
      /\ devices' = [d \in Device |-> IF d \in ds /\ devices[d] = u THEN None ELSE devices[d]]
      /\ signedIn' = [d \in Device |-> IF d \in ds /\ signedIn[d] = u THEN None ELSE signedIn[d]]
      /\ UNCHANGED <<store, accounts, inbox, unserved, search, due, events>>
  BY DEF UnregisterDevice, At, Returns, GivesUp
<1>2. /\ devices \in [Device -> Who] /\ signedIn \in [Device -> Who] /\ DevicesOK /\ CallsOK
      /\ TextsOK /\ None \in Who
  BY DEF RoutesInv, TablesOK, Who
<1>3. TextsOK' /\ TextsGrow
  BY <1>1, <1>2, TextsStay DEF store
<1>4. CallsOK' /\ \A q \in Server : q # p => call'[q] = call[q]
  BY <1>1, <1>2, <1>3, NoCallIs, CallStep
<1>5. devices' \in [Device -> Who] /\ signedIn' \in [Device -> Who]
  BY <1>1, <1>2
<1>6. DevicesOK'
  <2>1. ASSUME NEW x \in Device \ unserved
        PROVE  IF signedIn'[x] # None THEN devices'[x] = signedIn'[x]
               ELSE devices'[x] = None
                    \/ \E q \in Proc : SigningOff(call'[q], x) /\ call'[q].by = devices'[x]
    <3>1. CASE signedIn[x] # None
      BY <1>1, <1>2, <3>1 DEF DevicesOK
    <3>2. CASE signedIn[x] = None /\ devices[x] = None
      BY <1>1, <3>2
    <3>3. CASE signedIn[x] = None /\ devices[x] # None
      <4>1. PICK q \in Proc : SigningOff(call[q], x) /\ call[q].by = devices[x]
        BY <1>2, <3>3 DEF DevicesOK
      <4>2. CASE q = p
        BY <1>1, <3>3, <4>1, <4>2 DEF SigningOff
      <4>3. CASE q # p
        <5>1. call'[q] = call[q]
          BY <1>4, <4>3 DEF Server
        <5>2. QED
          BY <1>1, <3>3, <4>1, <5>1
      <4>4. QED
        BY <4>2, <4>3
    <3>4. QED
      BY <3>1, <3>2, <3>3
  <2>2. QED
    BY <1>1, <2>1 DEF DevicesOK, SigningOff
<1>7. \A q \in Server, t \in Ids : Adding(call[q], t) \/ Removing(call[q], t) => call'[q] = call[q]
  BY <1>1, <1>4 DEF Adding, Removing
<1>8. QED
  BY <1>1, <1>4, <1>5, <1>6, <1>7, DevicesStep

LEMMA UnregisterFailsInv ==
  ASSUME RoutesInv, NEW p \in Server, UnregisterFails(p)
  PROVE  RoutesInv'
<1>1. /\ call[p].op = "unregister" /\ Becomes(p, NoCall)
      /\ unserved' = unserved \cup {d \in call[p].texts : signedIn[d] # devices[d]}
      /\ devices' = devices /\ signedIn' = signedIn
      /\ UNCHANGED <<store, accounts, inbox, search, due, events>>
  BY DEF UnregisterFails, At, Returns
<1>2. /\ devices \in [Device -> Who] /\ signedIn \in [Device -> Who] /\ DevicesOK /\ CallsOK
      /\ TextsOK
  BY DEF RoutesInv, TablesOK
<1>3. TextsOK' /\ TextsGrow
  BY <1>1, <1>2, TextsStay DEF store
<1>4. CallsOK' /\ \A q \in Server : q # p => call'[q] = call[q]
  BY <1>1, <1>2, <1>3, NoCallIs, CallStep
<1>5. DevicesOK'
  <2>1. ASSUME NEW x \in Device, x \notin unserved'
        PROVE  IF signedIn[x] # None THEN devices[x] = signedIn[x]
               ELSE devices[x] = None
                    \/ \E q \in Proc : SigningOff(call'[q], x) /\ call'[q].by = devices[x]
    <3>1. x \notin unserved /\ (x \in call[p].texts => signedIn[x] = devices[x])
      BY <1>1, <2>1
    <3>2. CASE signedIn[x] # None \/ devices[x] = None
      BY <1>2, <3>1, <3>2 DEF DevicesOK
    <3>3. CASE signedIn[x] = None /\ devices[x] # None
      <4>1. PICK q \in Proc : SigningOff(call[q], x) /\ call[q].by = devices[x]
        BY <1>2, <3>1, <3>3 DEF DevicesOK
      <4>2. q # p
        BY <3>1, <3>3, <4>1 DEF SigningOff
      <4>3. call'[q] = call[q]
        BY <1>4, <4>2 DEF Server
      <4>4. QED
        BY <3>3, <4>1, <4>3
    <3>4. QED
      BY <3>2, <3>3
  <2>2. QED
    BY <1>1, <2>1 DEF DevicesOK, SigningOff
<1>6. \A q \in Server, t \in Ids : Adding(call[q], t) \/ Removing(call[q], t) => call'[q] = call[q]
  BY <1>1, <1>4 DEF Adding, Removing
<1>7. QED
  BY <1>1, <1>2, <1>4, <1>5, <1>6, DevicesStep

-----------------------------------------------------------------------------
(* The invariant and what follows from it.                                 *)

LEMMA RoutesInit ==
  ASSUME Init
  PROVE  RoutesInv
<1>1. /\ texts = <<>> /\ fragments = {} /\ follows = {} /\ accounts = User
      /\ inbox = [u \in User |-> {}] /\ devices = [d \in Device |-> None]
      /\ signedIn = [d \in Device |-> None] /\ unserved = {} /\ index = {} /\ astray = {} /\ due = {}
      /\ call = [p \in Server |-> NoCall] /\ events = <<>>
  BY DEF Init, Server
<1>2. Ids = {} /\ DOMAIN events = {}
  BY <1>1 DEF Ids
<1>3. TextsOK
  BY <1>1, <1>2 DEF TextsOK
<1>4. TablesOK
  BY <1>1, <1>2 DEF TablesOK, Who
<1>5. CallsOK
  <2>1. CallOK(NoCall)
    BY NoCallIs DEF CallOK, OnText
  <2>2. QED
    BY <1>1, <2>1 DEF CallsOK
<1>6. EventsOK /\ HearOK
  BY <1>1, <1>2 DEF EventsOK, HearOK
<1>7. InboxOK
  BY <1>1 DEF InboxOK, RowsOK
<1>8. DevicesOK /\ SearchOK
  BY <1>1, <1>2 DEF DevicesOK, SearchOK
<1>9. QED
  BY <1>3, <1>4, <1>5, <1>6, <1>7, <1>8 DEF RoutesInv

LEMMA RoutesStutter ==
  ASSUME RoutesInv, UNCHANGED vars
  PROVE  RoutesInv'
<1>1. UNCHANGED <<store, accounts, inbox, search, due, events>>
      /\ devices' = devices /\ signedIn' = signedIn /\ unserved' = unserved /\ call' = call
  BY DEF vars, tables, owners
<1>2. TextsOK /\ CallsOK /\ texts' = texts
  BY <1>1 DEF RoutesInv, store
<1>3. CallsOK'
  BY <1>1, <1>2, TextsStay, CallsKept
<1>4. QED
  BY <1>1, <1>3, DevicesSame, DevicesStep

LEMMA ServesInv ==
  ASSUME RoutesInv, NEW p \in Server, Serves(p)
  PROVE  RoutesInv'
<1>1. CASE DeleteText(p)
  <2>1. CASE Exists(call[p].text)
    BY <1>1, <2>1, DeleteTextInv
  <2>2. CASE ~Exists(call[p].text)
    BY <1>1, <2>2, DeleteNothingInv
  <2>3. QED
    BY <2>1, <2>2
<1>2. CASE ~DeleteText(p)
  BY <1>2, IndexTextInv, ProposeEditInv, CloseRoundInv, IndexForkInv, PruneSupersededInv, ScheduleCloseInv,
     ReadChainInv, ForgetNotificationsInv, DeleteTextHalfwayInv, RemoveTextInv, PurgeTextInv,
     DeleteUserFragmentsInv, DeleteUserSubscriptionsInv, DeleteRowInv, UnregisterDeviceInv,
     UnregisterFailsInv, CallFailsInv
     DEF Serves
<1>3. QED
  BY <1>1, <1>2

LEMMA AsksInv ==
  ASSUME RoutesInv, NEW p \in Proc, NEW u \in User, Asks(p, u)
  PROVE  RoutesInv'
<1>1. CASE CreateText(p, u)
  BY <1>1, CreateTextInv
<1>2. CASE DeleteUser(p, u)
  BY <1>2, DeleteUserInv
<1>3. ASSUME NEW t \in Ids, Unsubscribe(p, u, t) PROVE RoutesInv'
  BY <1>3, UnsubscribeInv
<1>4. ASSUME NEW t \in Ids, \/ ProposeEditGate(p, u, t) \/ CloseRoundGate(p, u, t)
                            \/ ScheduleCloseGate(p, u, t) \/ DeleteTextGate(p, u, t)
      PROVE  RoutesInv'
  BY <1>4, GateInv DEF ProposeEditGate, CloseRoundGate, ScheduleCloseGate, DeleteTextGate
<1>5. QED
  BY <1>1, <1>2, <1>3, <1>4 DEF Asks

LEMMA DoesInv ==
  ASSUME RoutesInv, NEW u \in User, Does(u)
  PROVE  RoutesInv'
BY CastVoteInv, SubscribeInv, RegisterDeviceInv, RegisterDeviceFailsInv, DeleteUserHalfwayInv
   DEF Does

LEMMA DeliversInv ==
  ASSUME RoutesInv, NEW i \in DOMAIN events, Delivers(i)
  PROVE  RoutesInv'
BY ResolveVoteInv, RecipientsInv, AddressesInv, SaveNotificationsInv, DeliveryFailsInv, PushInv,
   PushUnregisteredInv
   DEF Delivers

\* The invariant of the routes holds in every reachable state: requests name
\* texts there were and act for who made them; events are owed to the
\* followers of the version they are news of and never to their doer; the index
\* lacks or holds too much only what a request is about to add or to remove, or
\* what a fault or a race left.
THEOREM RoutesSafety == Spec => []RoutesInv
<1>1. Init => RoutesInv
  BY RoutesInit
<1>2. RoutesInv /\ [Next]_vars => RoutesInv'
  <2> SUFFICES ASSUME RoutesInv, [Next]_vars PROVE RoutesInv'
    OBVIOUS
  <2>1. ASSUME NEW p \in Proc \cup {Worker}, Serves(p) PROVE RoutesInv'
    BY <2>1, ServesInv DEF Server
  <2>2. ASSUME NEW p \in Proc, NEW u \in User, Asks(p, u) PROVE RoutesInv'
    BY <2>2, AsksInv
  <2>3. ASSUME NEW u \in User, Does(u) PROVE RoutesInv'
    BY <2>3, DoesInv
  <2>4. ASSUME NEW p \in Proc, NEW d \in Device, SignOut(p, d) PROVE RoutesInv'
    BY <2>4, SignOutInv
  <2>5. CASE Tick \/ CloseDue
    BY <2>5, TickInv, CloseDueInv
  <2>6. ASSUME NEW i \in DOMAIN events, Delivers(i) PROVE RoutesInv'
    BY <2>6, DeliversInv
  <2>7. CASE UNCHANGED vars
    BY <2>7, RoutesStutter
  <2>8. QED
    BY <2>1, <2>2, <2>3, <2>4, <2>5, <2>6, <2>7 DEF Next
<1>3. QED
  BY <1>1, <1>2, PTL DEF Spec

\* Whoever follows a text when something happens to it, and still does, finds
\* the news in the inbox when the delivery in the background is done, however
\* deliveries, closes, departures and deletions overlap, unless the delivery
\* was lost, or the version it is news of was superseded or deleted
\* (FollowersHear).
THEOREM NewsReachesFollowers == Spec => []FollowersHear
<1>1. RoutesInv => FollowersHear
  <2> SUFFICES ASSUME RoutesInv, NEW i \in DOMAIN events, events[i].at = "done", ~events[i].lost,
                      Exists(events[i].version), ~IsSuperseded(events[i].version)
               PROVE  \A u \in events[i].owed \cap accounts : \E row \in inbox[u] : row.event = i
    BY DEF FollowersHear
  <2>1. Hears(i, events[i]) /\ RoundOpen(events[i].version)
    BY DEF RoutesInv, HearOK, RoundOpen, IsSuperseded
  <2>2. QED
    BY <2>1 DEF Hears
<1>2. QED
  BY <1>1, RoutesSafety, PTL

\* No event reaches the inbox or the devices of who brought it about, also
\* when the worker carries out a close that was scheduled (NotToldOfOwnDoing).
THEOREM NoNewsOfOwnDoing == Spec => []NotToldOfOwnDoing
<1>1. RoutesInv => NotToldOfOwnDoing
  BY DEF RoutesInv, InboxOK, RowsOK, EventsOK, NotToldOfOwnDoing
<1>2. QED
  BY <1>1, RoutesSafety, PTL

\* Between requests, whatever points a search comes back with, it offers only
\* current versions, and all of them when the index holds no more points than it
\* asks for; but for texts whose index entry a fault or a race left wrong
\* (SearchFindsCurrent).
THEOREM SearchIsCurrent == Spec => []SearchFindsCurrent
<1>1. RoutesInv => SearchFindsCurrent
  <2> SUFFICES ASSUME RoutesInv, Quiet, NEW hits \in Hits
               PROVE  /\ SearchResults(hits) \ astray \subseteq {t \in Ids : RoundOpen(t)}
                      /\ Cardinality(index) <= SearchLimit =>
                           {t \in Ids : RoundOpen(t)} \ astray \subseteq SearchResults(hits)
    BY DEF SearchFindsCurrent
  <2>1. \A t, p : p \in Server => ~Adding(call[p], t) /\ ~Removing(call[p], t)
    BY NoCallIs DEF Quiet, Server, Adding, Removing
  <2>2. index \subseteq Ids
    BY DEF RoutesInv, TablesOK
  <2>3. \A t \in Ids \ astray : RoundOpen(t) <=> t \in index /\ ~IsSuperseded(t)
    BY <2>1 DEF RoutesInv, SearchOK, RoundOpen, IsSuperseded
  <2>4. hits \subseteq index /\ (Cardinality(index) <= SearchLimit => hits = index)
    BY DEF Hits
  <2>5. SearchResults(hits) \ astray \subseteq {t \in Ids : RoundOpen(t)}
    BY <2>2, <2>3, <2>4 DEF SearchResults
  <2>6. ASSUME Cardinality(index) <= SearchLimit
        PROVE  {t \in Ids : RoundOpen(t)} \ astray \subseteq SearchResults(hits)
    BY <2>3, <2>4, <2>6 DEF SearchResults
  <2>7. QED
    BY <2>5, <2>6
<1>2. QED
  BY <1>1, RoutesSafety, PTL

\* A device reaches the user who is signed in on it, and once every sign-out
\* was served a device where nobody is reaches nobody, unless a registration
\* or a sign-out that failed has left it to its former user
\* (DeviceReachesItsUser).
THEOREM DevicesReachTheirUsers == Spec => []DeviceReachesItsUser
<1>1. RoutesInv => DeviceReachesItsUser
  BY DEF RoutesInv, DevicesOK, DeviceReachesItsUser, SigningOut, SigningOff, At
<1>2. QED
  BY <1>1, RoutesSafety, PTL

-----------------------------------------------------------------------------
(* The chain of a text's versions.                                          *)

\* A version comes after the one it was forked from, and is what a close
\* replaced that one by; every version but the last was replaced, and the
\* deletion of one leaves a gap on both sides.
Linked(t) ==
  /\ texts[t].first \in 1 .. t
  /\ texts[t].previous = 0 => texts[t].first = t
  /\ texts[t].previous # 0 =>
       /\ texts[t].previous \in Lineage(t) /\ texts[t].previous < t
       /\ \A w \in Lineage(t) : w < t => w <= texts[t].previous
       /\ Exists(texts[t].previous) => texts[texts[t].previous].next = t
  /\ texts[t].next # 0 => texts[t].next \in Ids /\ texts[texts[t].next].previous = t
  /\ RoundOpen(t) => \A w \in Lineage(t) : w <= t
LinksOK == \A t \in Ids : Linked(t)

LEMMA LeastNat ==
  ASSUME NEW S \in SUBSET Nat, S # {}
  PROVE  \E x \in S : \A y \in S : x <= y
<1> DEFINE Down(x) == 0 .. x
           T == {Down(x) : x \in S}
<1>1. T \subseteq FiniteSubsetsOf(Nat) /\ T # {}
  <2>1. ASSUME NEW x \in S PROVE Down(x) \in FiniteSubsetsOf(Nat)
    <3>1. x \in Int /\ 0 \in Int /\ Down(x) \subseteq Nat
      OBVIOUS
    <3>2. IsFiniteSet(Down(x))
      BY <3>1, FS_Interval
    <3>3. QED
      BY <3>1, <3>2 DEF FiniteSubsetsOf
  <2>2. QED
    BY <2>1
<1>2. PICK d \in T : \A e \in T : ~(<<e, d>> \in StrictSubsetOrdering(Nat))
  BY <1>1, WFMin, FS_StrictSubsetOrderingWellFounded
<1>3. PICK x \in S : d = Down(x)
  OBVIOUS
<1>4. ASSUME NEW y \in S, y < x PROVE FALSE
  <2>1. Down(y) \in T /\ Down(y) \subseteq Down(x) /\ x \notin Down(y) /\ x \in Down(x)
    BY <1>4
  <2>2. Down(y) \in SUBSET Nat /\ Down(x) \in SUBSET Nat
    OBVIOUS
  <2>3. <<Down(y), Down(x)>> \in StrictSubsetOrdering(Nat)
    BY <2>1, <2>2 DEF StrictSubsetOrdering
  <2>4. QED
    BY <2>1, <2>3, <1>2, <1>3
<1>5. QED
  BY <1>4

LEMMA GreatestNat ==
  ASSUME NEW n \in Nat, NEW S \in SUBSET (1 .. n), S # {}
  PROVE  \E x \in S : \A y \in S : y <= x
<1> DEFINE T == {n - x : x \in S}
<1>1. T \in SUBSET Nat /\ T # {}
  <2>1. \A x \in S : n - x \in Nat
    OBVIOUS
  <2>2. QED
    BY <2>1
<1>2. PICK d \in T : \A e \in T : d <= e
  BY <1>1, LeastNat
<1>3. PICK x \in S : d = n - x
  OBVIOUS
<1>4. ASSUME NEW y \in S PROVE y <= x
  <2>1. n - x <= n - y
    BY <1>2, <1>3
  <2>2. x \in Int /\ y \in Int
    OBVIOUS
  <2>3. QED
    BY <2>1, <2>2
<1>5. QED
  BY <1>4

\* A chain that a step s leads along, as long as its elements are in P.
Reaches(g, S, P, s) == g = [v \in S |-> IF v \in P THEN {v} \cup g[s[v]] ELSE {v}]

\* There is one, however the step goes: of each element the least closed set.
LEMMA ReachesExists ==
  ASSUME NEW S, NEW s, NEW P \in SUBSET S, \A v \in P : s[v] \in S
  PROVE  \E g : Reaches(g, S, P, s)
<1> DEFINE Closed(C) == \A x \in C \cap P : s[x] \in C
           R(v) == {w \in S : \A C \in SUBSET S : v \in C /\ Closed(C) => w \in C}
           g == [v \in S |-> R(v)]
<1>1. ASSUME NEW v \in S, v \notin P PROVE R(v) = {v}
  <2>1. Closed({v}) /\ {v} \in SUBSET S
    BY <1>1
  <2>2. QED
    BY <2>1
<1>2. ASSUME NEW v \in P PROVE R(v) = {v} \cup R(s[v])
  <2>1. ASSUME NEW w \in R(v), w # v PROVE w \in R(s[v])
    <3>1. SUFFICES ASSUME NEW C \in SUBSET S, s[v] \in C, Closed(C) PROVE w \in C
      BY <2>1
    <3>2. {v} \cup C \in SUBSET S /\ Closed({v} \cup C)
      BY <3>1
    <3>3. QED
      BY <2>1, <3>2
  <2>2. ASSUME NEW w \in R(s[v]) PROVE w \in R(v)
    <3>1. SUFFICES ASSUME NEW C \in SUBSET S, v \in C, Closed(C) PROVE w \in C
      BY <2>2
    <3>2. s[v] \in C
      BY <3>1
    <3>3. QED
      BY <2>2, <3>1, <3>2
  <2>3. v \in R(v)
    OBVIOUS
  <2>4. QED
    BY <2>1, <2>2, <2>3
<1>3. \A v \in S : R(v) = IF v \in P THEN {v} \cup R(s[v]) ELSE {v}
  BY <1>1, <1>2
<1>4. \A v \in P : g[s[v]] = R(s[v])
  OBVIOUS
<1> HIDE DEF R
<1>5. g = [v \in S |-> IF v \in P THEN {v} \cup g[s[v]] ELSE {v}]
  BY <1>3, <1>4
<1> HIDE DEF g
<1>6. QED
  BY <1>5 DEF Reaches

LEMMA ReachesIs ==
  ASSUME NEW S, NEW s, NEW P \in SUBSET S, NEW g, Reaches(g, S, P, s), NEW v \in S
  PROVE  g[v] = IF v \in P THEN {v} \cup g[s[v]] ELSE {v}
BY DEF Reaches

\* The two walks of TextChain.
Behind == {v \in Ids : texts[v].previous # 0 /\ Exists(texts[v].previous)}
Onward == {v \in Ids : texts[v].next # 0 /\ Exists(texts[v].next)}
Before == [v \in Ids |-> texts[v].previous]
After == [v \in Ids |-> texts[v].next]
IsBack(g) ==
  g = [v \in Ids |-> IF texts[v].previous # 0 /\ Exists(texts[v].previous)
                     THEN {v} \cup g[texts[v].previous] ELSE {v}]
IsAhead(g) ==
  g = [v \in Ids |-> IF texts[v].next # 0 /\ Exists(texts[v].next)
                     THEN {v} \cup g[texts[v].next] ELSE {v}]

LEMMA BackIs ==
  ASSUME NEW g
  PROVE  IsBack(g) <=> Reaches(g, Ids, Behind, Before)
<1>1. \A v \in Ids : Before[v] = texts[v].previous
                     /\ (v \in Behind <=> texts[v].previous # 0 /\ Exists(texts[v].previous))
  BY DEF Before, Behind
<1>2. QED
  BY <1>1 DEF IsBack, Reaches

LEMMA AheadIs ==
  ASSUME NEW g
  PROVE  IsAhead(g) <=> Reaches(g, Ids, Onward, After)
<1>1. \A v \in Ids : After[v] = texts[v].next
                     /\ (v \in Onward <=> texts[v].next # 0 /\ Exists(texts[v].next))
  BY DEF After, Onward
<1>2. QED
  BY <1>1 DEF IsAhead, Reaches

LEMMA ChainIs ==
  ASSUME NEW t
  PROVE  TextChain(t) = (CHOOSE g : IsBack(g))[t] \cup (CHOOSE g : IsAhead(g))[t]
BY DEF TextChain, IsBack, IsAhead

\* As long as none of a text's versions is deleted, the chain of any of them
\* holds them all.
LEMMA ChainIsWhole ==
  ASSUME TextsOK, LinksOK, NEW t \in Ids, \A v \in Lineage(t) : Exists(v)
  PROVE  Lineage(t) \subseteq TextChain(t)
<1> DEFINE L == Lineage(t)
           back == CHOOSE g : IsBack(g)
           ahead == CHOOSE g : IsAhead(g)
<1>1. /\ Len(texts) \in Nat /\ Ids = 1 .. Len(texts) /\ L \subseteq Ids /\ L \subseteq Nat /\ t \in L
      /\ \A v \in Ids : texts[v] \in TextRec
  BY IdsAre DEF Lineage
<1>2. \A v \in L : Lineage(v) = L
  BY DEF Lineage
<1>3. \A v \in L : Linked(v) /\ Exists(v)
  BY <1>1 DEF LinksOK
<1>4. IsBack(back)
  <2>1. \A v \in Behind : Before[v] \in Ids
    BY DEF Behind, Before, LinksOK, Linked, Lineage
  <2>2. Behind \in SUBSET Ids
    BY DEF Behind
  <2>3. PICK g : Reaches(g, Ids, Behind, Before)
    BY <2>1, <2>2, ReachesExists
  <2>4. QED
    BY <2>3, BackIs
<1>5. IsAhead(ahead)
  <2>1. \A v \in Onward : After[v] \in Ids
    BY DEF Onward, After, LinksOK, Linked
  <2>2. Onward \in SUBSET Ids
    BY DEF Onward
  <2>3. PICK g : Reaches(g, Ids, Onward, After)
    BY <2>1, <2>2, ReachesExists
  <2>4. QED
    BY <2>3, AheadIs
<1>6. TextChain(t) = back[t] \cup ahead[t]
  BY ChainIs
<1> HIDE DEF L, back, ahead
<1>7. ASSUME NEW v \in L
      PROVE  /\ v \in back[v] /\ v \in ahead[v]
             /\ texts[v].previous # 0 /\ Exists(texts[v].previous) =>
                  back[texts[v].previous] \subseteq back[v]
             /\ texts[v].next # 0 /\ Exists(texts[v].next) => ahead[texts[v].next] \subseteq ahead[v]
  <2>1. PICK b, a : b = back[v] /\ a = ahead[v]
    OBVIOUS
  <2>2. PICK c, d : c = back[texts[v].previous] /\ d = ahead[texts[v].next]
    OBVIOUS
  <2>3. /\ b = IF texts[v].previous # 0 /\ Exists(texts[v].previous) THEN {v} \cup c ELSE {v}
        /\ a = IF texts[v].next # 0 /\ Exists(texts[v].next) THEN {v} \cup d ELSE {v}
    BY <1>1, <1>4, <1>5, <2>1, <2>2 DEF IsBack, IsAhead
  <2>4. v \in b /\ (texts[v].previous # 0 /\ Exists(texts[v].previous) => c \subseteq b)
    BY <2>3
  <2>5. v \in a /\ (texts[v].next # 0 /\ Exists(texts[v].next) => d \subseteq a)
    BY <2>3
  <2>6. QED
    BY <2>1, <2>2, <2>4, <2>5
<1>9. \A v, w \in L : w <= v => w \in back[v]
  <2> DEFINE Bad == {v \in L : \E w \in L : w <= v /\ w \notin back[v]}
  <2>1. SUFFICES ASSUME Bad # {} PROVE FALSE
    OBVIOUS
  <2>2. PICK v \in Bad : \A y \in Bad : v <= y
    BY <1>1, <2>1, LeastNat
  <2>3. PICK w \in L : w <= v /\ w \notin back[v]
    OBVIOUS
  <2>4. v \in L /\ v \in Nat /\ w \in Nat /\ w < v
    BY <1>1, <1>7, <2>3
  <2> HIDE DEF Bad
  <2> DEFINE q == texts[v].previous
  <2>5. Linked(v) /\ Lineage(v) = L
    BY <1>2, <1>3, <2>4
  <2>6. q # 0
    <3>1. Linked(w) /\ texts[w].first = texts[v].first
      BY <1>3, <2>4, <2>5 DEF Lineage
    <3>2. QED
      BY <2>4, <2>5, <3>1 DEF Linked
  <2>7. q \in L /\ q < v /\ w <= q
    BY <2>4, <2>5, <2>6 DEF Linked
  <2>8. q \notin Bad
    <3>1. q \in Nat
      BY <1>1, <2>7
    <3>2. ~(v <= q)
      BY <2>4, <2>7, <3>1
    <3>3. QED
      BY <2>2, <3>2
  <2>9. w \in back[q]
    <3>1. \A x \in L : x <= q => x \in back[q]
      BY <2>7, <2>8 DEF Bad
    <3>2. QED
      BY <2>7, <3>1
  <2>10. Exists(q)
    BY <1>3, <2>7
  <2>11. QED
    BY <1>7, <2>3, <2>4, <2>6, <2>9, <2>10
<1>10. \A v, w \in L : w >= v => w \in ahead[v]
  <2> DEFINE Bad == {v \in L : \E w \in L : w >= v /\ w \notin ahead[v]}
  <2>1. SUFFICES ASSUME Bad # {} PROVE FALSE
    OBVIOUS
  <2>a. Bad \in SUBSET (1 .. Len(texts))
    BY <1>1
  <2>2. PICK v \in Bad : \A y \in Bad : y <= v
    BY <1>1, <2>1, <2>a, GreatestNat
  <2>3. PICK w \in L : w >= v /\ w \notin ahead[v]
    OBVIOUS
  <2>4. v \in L /\ v \in Nat /\ w \in Nat /\ w > v
    BY <1>1, <1>7, <2>3
  <2> HIDE DEF Bad
  <2> DEFINE n == texts[v].next
  <2>5. Linked(v) /\ Lineage(v) = L /\ Exists(v)
    BY <1>2, <1>3, <2>4
  <2>6. n # 0
    BY <2>4, <2>5 DEF Linked, RoundOpen
  <2>7. n \in Ids /\ texts[n].previous = v
    BY <2>5, <2>6 DEF Linked
  <2>8. Linked(n) /\ v # 0 /\ n \in Nat
    <3>1. v # 0
      BY <1>1, <2>4
    <3>2. QED
      BY <1>1, <2>7, <3>1 DEF LinksOK
  <2>9. v \in Lineage(n) /\ v < n /\ \A x \in Lineage(n) : x < n => x <= v
    BY <2>7, <2>8 DEF Linked
  <2>10. n \in L /\ Lineage(n) = L
    BY <1>1, <2>4, <2>5, <2>7, <2>9 DEF Lineage
  <2>11. w >= n
    BY <2>4, <2>8, <2>9, <2>10
  <2>12. n \notin Bad
    BY <2>2, <2>4, <2>8, <2>9
  <2>13. w \in ahead[n] /\ Exists(n)
    BY <1>3, <2>10, <2>11, <2>12 DEF Bad
  <2>14. QED
    BY <1>7, <2>3, <2>4, <2>6, <2>13
<1>11. QED
  <2>1. ASSUME NEW w \in L PROVE w \in back[t] \cup ahead[t]
    <3>1. w \in Nat /\ t \in Nat /\ t \in L
      BY <1>1
    <3>2. w <= t \/ w >= t
      BY <3>1
    <3>3. QED
      BY <1>9, <1>10, <3>1, <3>2
  <2>2. QED
    BY <1>6, <2>1 DEF L

-----------------------------------------------------------------------------
(* Who has left a text, and what still has to be cleared for them.         *)

\* u follows some version of t's text, or one of them was deleted.
Near(t, u) == \E v \in Lineage(t) : <<u, v>> \in follows \/ ~Exists(v)

\* A request of u's that is about to clear u's rows about t.
Clearing(c, t, u) ==
  /\ c.by = u
  /\ \/ c.op = "chain" /\ c.text \in Lineage(t)
     \/ c.op = "forget" /\ t \in c.texts

Excused(e, u) == u \in e.left \cup e.kept

RowsLeft ==
  \A u \in User : \A row \in inbox[u] :
    \/ Near(events[row.event].text, u)
    \/ Excused(events[row.event], u)
    \/ \E p \in Proc : Clearing(call[p], events[row.event].text, u)

\* Whoever a delivery is about to write to has not left, or has left since.
ToLeft ==
  \A i \in DOMAIN events : \A u \in events[i].to :
    events[i].saved \/ Near(events[i].text, u) \/ Excused(events[i], u)

LeftInv == LinksOK /\ RowsLeft /\ ToLeft

\* The same after the step.
NearNow(t, u) ==
  \E v \in Ids' : texts'[v].first = texts'[t].first /\ (<<u, v>> \in follows' \/ ~texts'[v].exists)
ClearingNow(c, t, u) ==
  /\ c.by = u
  /\ \/ c.op = "chain" /\ c.text \in Ids' /\ texts'[c.text].first = texts'[t].first
     \/ c.op = "forget" /\ t \in c.texts
RowNow(row, u) ==
  \/ NearNow(events'[row.event].text, u)
  \/ Excused(events'[row.event], u)
  \/ \E p \in Proc : ClearingNow(call'[p], events'[row.event].text, u)
ToNow(i) ==
  \A u \in events'[i].to :
    events'[i].saved \/ NearNow(events'[i].text, u) \/ Excused(events'[i], u)

LEMMA LeftNow ==
  ASSUME LinksOK', \A u \in User : \A row \in inbox'[u] : RowNow(row, u),
         \A i \in DOMAIN events' : ToNow(i)
  PROVE  LeftInv'
<1>1. RowsLeft'
  BY DEF RowsLeft, RowNow, Near, NearNow, Clearing, ClearingNow, Excused, Lineage, Exists
<1>2. ToLeft'
  BY DEF ToLeft, ToNow, Near, NearNow, Excused, Lineage, Exists
<1>3. QED
  BY <1>1, <1>2 DEF LeftInv

\* What the steps have in common: versions stay versions of their text and
\* are not brought back, an event keeps its text and whom it excuses, requests
\* that clear rows wait, and rows and recipients are not added.
TextsAge ==
  /\ Ids \subseteq Ids'
  /\ \A t \in Ids : texts'[t].first = texts[t].first /\ (texts'[t].exists => texts[t].exists)
Aged(e, f) ==
  f.text = e.text /\ e.left \subseteq f.left /\ e.kept \subseteq f.kept /\ (e.saved => f.saved)
EventsAge ==
  DOMAIN events \subseteq DOMAIN events' /\ \A i \in DOMAIN events : Aged(events[i], events'[i])
NearGrows == \A t \in Ids, u \in User : Near(t, u) => NearNow(t, u)
ClearingWaits == \A q \in Proc : call[q].op \in {"chain", "forget"} => call'[q] = call[q]
RowsFewer == \A u \in User : \A row \in inbox'[u] : \E r \in inbox[u] : r.event = row.event
ToFewer ==
  \A i \in DOMAIN events' :
    events'[i].to = {} \/ (i \in DOMAIN events /\ events'[i].to \subseteq events[i].to)

LEMMA NearStays ==
  ASSUME TextsAge, follows \subseteq follows'
  PROVE  NearGrows
<1>1. ASSUME NEW t \in Ids, NEW u, NEW v \in Lineage(t), <<u, v>> \in follows \/ ~Exists(v)
      PROVE  NearNow(t, u)
  <2>1. v \in Ids /\ texts[v].first = texts[t].first
    BY DEF Lineage
  <2>2. v \in Ids' /\ texts'[v].first = texts'[t].first
    BY <2>1 DEF TextsAge
  <2>3. <<u, v>> \in follows' \/ ~texts'[v].exists
    BY <1>1, <2>1 DEF TextsAge, Exists
  <2>4. QED
    BY <2>2, <2>3 DEF NearNow
<1>2. QED
  BY <1>1 DEF NearGrows, Near

LEMMA ClearingStays ==
  ASSUME TextsAge, ClearingWaits, NEW t \in Ids, NEW u, NEW p \in Proc, Clearing(call[p], t, u)
  PROVE  ClearingNow(call'[p], t, u)
<1>1. PICK c : c = call[p]
  OBVIOUS
<1>2. Clearing(c, t, u)
  BY <1>1
<1>3. c.op \in {"chain", "forget"} /\ c.by = u
  BY <1>2 DEF Clearing
<1>4. call'[p] = c
  BY <1>1, <1>3 DEF ClearingWaits
<1>5. CASE c.op = "chain"
  <2>1. c.text \in Ids /\ texts[c.text].first = texts[t].first
    BY <1>2, <1>5 DEF Clearing, Lineage
  <2>2. c.text \in Ids' /\ texts'[c.text].first = texts'[t].first
    BY <2>1 DEF TextsAge
  <2>3. QED
    BY <1>3, <1>4, <1>5, <2>2 DEF ClearingNow
<1>6. CASE c.op = "forget"
  BY <1>2, <1>3, <1>4, <1>6 DEF Clearing, ClearingNow
<1>7. QED
  BY <1>3, <1>5, <1>6

\* A row that was there before, when nobody leaves and nothing is cleared.
LEMMA RowStays ==
  ASSUME RoutesInv, LeftInv, TextsAge, EventsAge, NearGrows, ClearingWaits,
         NEW u \in User, NEW r \in inbox[u], NEW row, row.event = r.event
  PROVE  RowNow(row, u)
<1>1. PICK i : i = r.event
  OBVIOUS
<1>2. i \in DOMAIN events
  BY <1>1 DEF RoutesInv, InboxOK, RowsOK
<1>3. PICK t : t = events[i].text
  OBVIOUS
<1>4. t \in Ids
  BY <1>2, <1>3 DEF RoutesInv, EventsOK
<1>5. Aged(events[i], events'[i])
  BY <1>2 DEF EventsAge
<1>6. events'[i].text = t /\ (Excused(events[i], u) => Excused(events'[i], u))
  BY <1>3, <1>5 DEF Aged, Excused
<1>7. Near(t, u) \/ Excused(events[i], u) \/ \E p \in Proc : Clearing(call[p], t, u)
  BY <1>1, <1>3 DEF LeftInv, RowsLeft
<1>8. NearNow(t, u) \/ Excused(events'[i], u) \/ \E p \in Proc : ClearingNow(call'[p], t, u)
  <2>1. CASE Near(t, u)
    BY <1>4, <2>1 DEF NearGrows
  <2>2. CASE \E p \in Proc : Clearing(call[p], t, u)
    BY <1>4, <2>2, ClearingStays
  <2>3. QED
    BY <1>6, <1>7, <2>1, <2>2
<1>9. QED
  BY <1>1, <1>6, <1>8 DEF RowNow

LEMMA ToStays ==
  ASSUME RoutesInv, LeftInv, EventsAge, NearGrows, NEW i \in DOMAIN events,
         events'[i].to \subseteq events[i].to
  PROVE  ToNow(i)
<1>1. SUFFICES ASSUME NEW u \in events'[i].to
      PROVE  events'[i].saved \/ NearNow(events'[i].text, u) \/ Excused(events'[i], u)
  BY DEF ToNow
<1>2. PICK t : t = events[i].text
  OBVIOUS
<1>3. t \in Ids /\ u \in events[i].to /\ u \in User
  <2>1. events[i] \in EventRec /\ events[i].text \in Ids
    BY EventIs DEF RoutesInv
  <2>2. QED
    BY <1>1, <1>2, <2>1 DEF EventRec
<1>4. Aged(events[i], events'[i])
  BY DEF EventsAge
<1>5. /\ events'[i].text = t /\ (events[i].saved => events'[i].saved)
      /\ Excused(events[i], u) => Excused(events'[i], u)
  BY <1>2, <1>4 DEF Aged, Excused
<1>6. events[i].saved \/ Near(t, u) \/ Excused(events[i], u)
  BY <1>2, <1>3 DEF LeftInv, ToLeft
<1>7. Near(t, u) => NearNow(t, u)
  BY <1>3 DEF NearGrows
<1>8. QED
  BY <1>5, <1>6, <1>7

LEMMA LeftStays ==
  ASSUME RoutesInv, LeftInv, LinksOK', TextsAge, EventsAge, NearGrows, ClearingWaits, RowsFewer, ToFewer
  PROVE  LeftInv'
<1>1. ASSUME NEW u \in User, NEW row \in inbox'[u] PROVE RowNow(row, u)
  <2>1. PICK r \in inbox[u] : r.event = row.event
    BY DEF RowsFewer
  <2>2. QED
    BY <2>1, RowStays
<1>2. ASSUME NEW i \in DOMAIN events' PROVE ToNow(i)
  <2>1. CASE events'[i].to = {}
    BY <2>1 DEF ToNow
  <2>2. CASE i \in DOMAIN events /\ events'[i].to \subseteq events[i].to
    BY <2>2, ToStays
  <2>3. QED
    BY <2>1, <2>2 DEF ToFewer
<1>3. QED
  BY <1>1, <1>2, LeftNow

LEMMA LinksStay ==
  ASSUME LinksOK, texts' = texts
  PROVE  LinksOK' /\ TextsAge
<1>1. Ids' = Ids
  BY DEF Ids
<1>2. LinksOK'
  BY <1>1 DEF LinksOK, Linked, Lineage, RoundOpen, Exists
<1>3. QED
  BY <1>1, <1>2 DEF TextsAge

\* A step of which the texts and those who follow them do not suffer.
LEMMA LeftAlone ==
  ASSUME RoutesInv, LeftInv, texts' = texts, follows \subseteq follows',
         EventsAge, ToFewer, ClearingWaits, RowsFewer
  PROVE  LeftInv'
<1>1. LinksOK' /\ TextsAge
  BY LinksStay DEF LeftInv
<1>2. NearGrows
  BY <1>1, NearStays
<1>3. QED
  BY <1>1, <1>2, LeftStays

LEMMA EventsSame ==
  ASSUME events' = events
  PROVE  EventsAge /\ ToFewer
BY DEF EventsAge, ToFewer, Aged

LEMMA RowsSame ==
  ASSUME inbox' = inbox
  PROVE  RowsFewer
BY DEF RowsFewer

LEMMA CallMoves ==
  ASSUME NEW p, NEW c, Becomes(p, c), call[p].op \notin {"chain", "forget"}, RoutesInv
  PROVE  ClearingWaits
<1>1. DOMAIN call = Server
  BY DEF RoutesInv, CallsOK
<1>2. QED
  BY <1>1 DEF Becomes, ClearingWaits, Server

LEMMA NoCallMoves == NoCall.op \notin {"chain", "forget"}
BY NoCallIs

\* An event more, to which nobody is a recipient yet.
LEMMA EventMore ==
  ASSUME RoutesInv, NEW type, NEW t, NEW v, NEW by, NEW doer, NEW author, NEW audience,
         events' = Append(events, Event(type, t, v, by, doer, author, audience))
  PROVE  EventsAge /\ ToFewer
<1> DEFINE e == Event(type, t, v, by, doer, author, audience)
<1>1. e.to = {}
  BY DEF Event
<1>2. events \in Seq(EventRec)
  BY DEF RoutesInv, EventsOK
<1> HIDE DEF e
<1>3. /\ DOMAIN events' = 1 .. (Len(events) + 1) /\ DOMAIN events = 1 .. Len(events) /\ Len(events) \in Nat
      /\ events'[Len(events) + 1] = e /\ \A i \in 1 .. Len(events) : events'[i] = events[i]
  <2>1. events' = Append(events, e)
    BY DEF e
  <2>2. QED
    BY <1>2, <2>1
<1>4. EventsAge
  BY <1>3 DEF EventsAge, Aged
<1>5. ToFewer
  <2>1. ASSUME NEW i \in DOMAIN events'
        PROVE  events'[i].to = {} \/ (i \in DOMAIN events /\ events'[i].to \subseteq events[i].to)
    <3>1. i = Len(events) + 1 \/ i \in 1 .. Len(events)
      BY <1>3
    <3>2. QED
      BY <1>1, <1>3, <3>1
  <2>2. QED
    BY <2>1 DEF ToFewer
<1>6. QED
  BY <1>4, <1>5

\* A delivery that moves on.
LEMMA DeliveryAges ==
  ASSUME RoutesInv, NEW i \in DOMAIN events, NEW f, Delivery(i, f), Aged(events[i], f)
  PROVE  /\ EventsAge /\ DOMAIN events' = DOMAIN events /\ events'[i] = f
         /\ \A j \in DOMAIN events : j # i => events'[j] = events[j]
<1>1. /\ DOMAIN events' = DOMAIN events /\ events'[i] = f
      /\ \A j \in DOMAIN events : j # i => events'[j] = events[j]
  BY DEF Delivery
<1>2. \A j \in DOMAIN events : Aged(events[j], events'[j])
  <2>1. \A j \in DOMAIN events : Aged(events[j], events[j])
    BY DEF Aged
  <2>2. QED
    BY <1>1, <2>1
<1>3. QED
  BY <1>1, <1>2 DEF EventsAge

LEMMA DeliveryLeft ==
  ASSUME RoutesInv, LeftInv, NEW i \in DOMAIN events, NEW f, Delivery(i, f), Aged(events[i], f),
         f.to = events[i].to, UNCHANGED <<store, inbox, call>>
  PROVE  LeftInv'
<1>1. /\ EventsAge /\ DOMAIN events' = DOMAIN events /\ events'[i] = f
      /\ \A j \in DOMAIN events : j # i => events'[j] = events[j]
  BY DeliveryAges
<1>2. ToFewer
  BY <1>1 DEF ToFewer
<1>3. ClearingWaits /\ RowsFewer /\ texts' = texts /\ follows \subseteq follows'
  BY DEF ClearingWaits, RowsFewer, store
<1>4. QED
  BY <1>1, <1>2, <1>3, LeftAlone

\* What the fields of a delivery become.
LEMMA EndedAges ==
  ASSUME NEW e, NEW x, Aged(e, x), x.to = e.to, x \in EventRec
  PROVE  Aged(e, Ended(x)) /\ Ended(x).to = e.to
<1>1. CASE Ended(x) = x
  BY <1>1
<1>2. CASE Ended(x) = [x EXCEPT !.at = "done"]
  <2> DEFINE y == [x EXCEPT !.at = "done"]
  <2>1. y.text = x.text /\ y.left = x.left /\ y.kept = x.kept /\ y.saved = x.saved /\ y.to = x.to
    BY DEF EventRec
  <2> HIDE DEF y
  <2>2. Aged(e, y) /\ y.to = e.to
    BY <2>1 DEF Aged
  <2>3. QED
    BY <1>2, <2>2 DEF y
<1>3. QED
  BY <1>1, <1>2 DEF Ended

LEMMA GivenUpAges ==
  ASSUME NEW e \in EventRec
  PROVE  Aged(e, GivenUp(e)) /\ GivenUp(e).to = e.to
<1> DEFINE y == [e EXCEPT !.at = "done", !.lost = TRUE]
<1>1. y.text = e.text /\ y.left = e.left /\ y.kept = e.kept /\ y.saved = e.saved /\ y.to = e.to
  BY DEF EventRec
<1> HIDE DEF y
<1>2. Aged(e, y) /\ y.to = e.to
  BY <1>1 DEF Aged
<1>3. QED
  BY <1>2 DEF y, GivenUp

LEMMA ResolveVoteLeft ==
  ASSUME RoutesInv, LeftInv, NEW i \in DOMAIN events, ResolveVote(i)
  PROVE  LeftInv'
<1> DEFINE e == events[i]
           f == [e EXCEPT !.at = "recipients"]
<1>1. /\ UNCHANGED <<store, inbox, call>> /\ (Delivery(i, f) \/ Delivery(i, GivenUp(e)))
  BY DEF ResolveVote, Goroutine, tables, owners
<1>2. e \in EventRec
  BY EventIs DEF RoutesInv
<1> HIDE DEF e
<1>3. f.text = e.text /\ f.left = e.left /\ f.kept = e.kept /\ f.saved = e.saved /\ f.to = e.to
  BY <1>2 DEF EventRec
<1> HIDE DEF f
<1>4. Aged(e, f) /\ f.to = e.to
  BY <1>3 DEF Aged
<1>5. Aged(e, GivenUp(e)) /\ GivenUp(e).to = e.to
  BY <1>2, GivenUpAges
<1>6. QED
  BY <1>1, <1>4, <1>5, DeliveryLeft DEF e

LEMMA AddressesLeft ==
  ASSUME RoutesInv, LeftInv, NEW i \in DOMAIN events, Addresses(i)
  PROVE  LeftInv'
<1> DEFINE e == events[i]
<1>1. PICK d : /\ UNCHANGED <<store, inbox, call>>
               /\ Delivery(i, [e EXCEPT !.at = "dispatch", !.tokens = d])
  BY DEF Addresses, tables, owners
<1> DEFINE f == [e EXCEPT !.at = "dispatch", !.tokens = d]
<1>2. e \in EventRec
  BY EventIs DEF RoutesInv
<1> HIDE DEF e
<1>3. f.text = e.text /\ f.left = e.left /\ f.kept = e.kept /\ f.saved = e.saved /\ f.to = e.to
  BY <1>2 DEF EventRec
<1>a. Delivery(i, f)
  BY <1>1
<1> HIDE DEF f
<1>4. Aged(e, f) /\ f.to = e.to
  BY <1>3 DEF Aged
<1>5. QED
  BY <1>1, <1>a, <1>4, DeliveryLeft DEF e

LEMMA PushLeft ==
  ASSUME RoutesInv, LeftInv, NEW i \in DOMAIN events, NEW d, Push(i, d) \/ PushUnregistered(i, d)
  PROVE  LeftInv'
<1> DEFINE e == events[i]
           x == [e EXCEPT !.tokens = @ \ {d}]
<1>1. Delivery(i, Ended(x)) /\ UNCHANGED <<store, inbox, call>>
  BY DEF Push, PushUnregistered, tables, owners
<1>2. e \in EventRec
  BY EventIs DEF RoutesInv
<1> HIDE DEF e
<1>3. x \in EventRec /\ x.text = e.text /\ x.left = e.left /\ x.kept = e.kept /\ x.saved = e.saved /\ x.to = e.to
  BY <1>2 DEF EventRec
<1> HIDE DEF x
<1>4. Aged(e, x)
  BY <1>3 DEF Aged
<1>5. Aged(e, Ended(x)) /\ Ended(x).to = e.to
  BY <1>3, <1>4, EndedAges
<1>6. QED
  BY <1>1, <1>5, DeliveryLeft DEF e

LEMMA DeliveryFailsLeft ==
  ASSUME RoutesInv, LeftInv, NEW i \in DOMAIN events, DeliveryFails(i)
  PROVE  LeftInv'
<1> DEFINE e == events[i]
           x == [e EXCEPT !.saved = TRUE, !.lost = TRUE]
<1>1. /\ UNCHANGED <<store, inbox, call>> /\ (Delivery(i, Ended(x)) \/ Delivery(i, GivenUp(e)))
  BY DEF DeliveryFails, tables, owners
<1>2. e \in EventRec
  BY EventIs DEF RoutesInv
<1> HIDE DEF e
<1>3. x \in EventRec /\ x.text = e.text /\ x.left = e.left /\ x.kept = e.kept /\ x.saved /\ x.to = e.to
  BY <1>2 DEF EventRec
<1> HIDE DEF x
<1>4. Aged(e, x)
  BY <1>3 DEF Aged
<1>5. Aged(e, Ended(x)) /\ Ended(x).to = e.to
  BY <1>3, <1>4, EndedAges
<1>6. Aged(e, GivenUp(e)) /\ GivenUp(e).to = e.to
  BY <1>2, GivenUpAges
<1>7. QED
  BY <1>1, <1>5, <1>6, DeliveryLeft DEF e

\* The recipients are looked up among those who follow the version.
LEMMA RecipientsLeft ==
  ASSUME RoutesInv, LeftInv, NEW i \in DOMAIN events, Recipients(i)
  PROVE  LeftInv'
<1> DEFINE e == events[i]
           to == Followers(e.text) \ {e.by}
           at == IF to = {} THEN "done" ELSE "addresses"
           f == [e EXCEPT !.to = to, !.at = at]
<1>1. UNCHANGED <<store, inbox, call>> /\ Delivery(i, f)
  BY DEF Recipients, tables, owners
<1>2. e \in EventRec /\ e.text \in Ids
  BY EventIs DEF RoutesInv
<1>3. PICK t : t = e.text
  OBVIOUS
<1>4. \A u \in to : <<u, t>> \in follows
  BY <1>3 DEF Followers
<1> HIDE DEF e, to, at
<1>5. f.text = e.text /\ f.left = e.left /\ f.kept = e.kept /\ f.saved = e.saved /\ f.to = to
  BY <1>2 DEF EventRec
<1> HIDE DEF f
<1>6. Aged(e, f)
  BY <1>5 DEF Aged
<1>7. /\ EventsAge /\ DOMAIN events' = DOMAIN events /\ events'[i] = f
      /\ \A j \in DOMAIN events : j # i => events'[j] = events[j]
  BY <1>1, <1>6, DeliveryAges DEF e
<1>8. texts' = texts /\ follows' = follows /\ inbox' = inbox /\ ClearingWaits
  BY <1>1 DEF store, ClearingWaits
<1>9. LinksOK' /\ TextsAge /\ NearGrows
  BY <1>8, LinksStay, NearStays DEF LeftInv
<1>10. ASSUME NEW u \in User, NEW row \in inbox'[u] PROVE RowNow(row, u)
  BY <1>7, <1>8, <1>9, RowStays
<1>11. ASSUME NEW j \in DOMAIN events' PROVE ToNow(j)
  <2>1. CASE j # i
    BY <1>7, <1>9, <2>1, ToStays
  <2>2. CASE j = i
    <3>1. ASSUME NEW u \in to PROVE NearNow(t, u)
      <4>1. t \in Ids' /\ <<u, t>> \in follows'
        BY <1>2, <1>3, <1>4, <1>8, <1>9 DEF TextsAge
      <4>2. QED
        BY <4>1 DEF NearNow
    <3>2. QED
      BY <1>3, <1>5, <1>7, <2>2, <3>1 DEF ToNow
  <2>3. QED
    BY <2>1, <2>2
<1>12. QED
  BY <1>9, <1>10, <1>11, LeftNow

\* A row is written for recipients who have not left, or have left since.
LEMMA SaveNotificationsLeft ==
  ASSUME RoutesInv, LeftInv, NEW i \in DOMAIN events, SaveNotifications(i)
  PROVE  LeftInv'
<1> DEFINE e == events[i]
           whole == e.to \subseteq accounts
           x == [e EXCEPT !.saved = TRUE, !.lost = ~whole]
           f == Ended(x)
<1>1. /\ ~e.saved /\ Delivery(i, f) /\ UNCHANGED <<store, call>>
      /\ inbox' = [u \in User |-> IF whole /\ u \in e.to THEN inbox[u] \cup {Row(i)} ELSE inbox[u]]
  BY DEF SaveNotifications
<1>2. e \in EventRec /\ e.text \in Ids
  BY EventIs DEF RoutesInv
<1>3. whole \in BOOLEAN
  OBVIOUS
<1> HIDE DEF e, whole
<1>4. x \in EventRec /\ x.text = e.text /\ x.left = e.left /\ x.kept = e.kept /\ x.saved /\ x.to = e.to
  BY <1>2, <1>3 DEF EventRec
<1> HIDE DEF x
<1>5. Aged(e, x)
  BY <1>4 DEF Aged
<1>6. Aged(e, f) /\ f.to = e.to
  BY <1>4, <1>5, EndedAges
<1> HIDE DEF f
<1>7. /\ EventsAge /\ DOMAIN events' = DOMAIN events /\ events'[i] = f
      /\ \A j \in DOMAIN events : j # i => events'[j] = events[j]
  BY <1>1, <1>6, DeliveryAges DEF e
<1>8. texts' = texts /\ follows' = follows /\ ClearingWaits
  BY <1>1 DEF store, ClearingWaits
<1>9. LinksOK' /\ TextsAge /\ NearGrows
  BY <1>8, LinksStay, NearStays DEF LeftInv
<1>10. ASSUME NEW j \in DOMAIN events' PROVE ToNow(j)
  <2>1. events'[j].to \subseteq events[j].to
    BY <1>6, <1>7 DEF e
  <2>2. QED
    BY <1>7, <1>9, <2>1, ToStays
<1>11. ASSUME NEW u \in User, NEW row \in inbox'[u] PROVE RowNow(row, u)
  <2>1. CASE row \in inbox[u]
    BY <1>7, <1>8, <1>9, <2>1, RowStays
  <2>2. CASE row \notin inbox[u]
    <3>1. u \in e.to /\ row.event = i
      BY <1>1, <1>11, <2>2 DEF Row
    <3>2. PICK t : t = e.text
      OBVIOUS
    <3>3. Near(t, u) \/ Excused(e, u)
      BY <1>1, <3>1, <3>2 DEF LeftInv, ToLeft, e
    <3>4. NearNow(t, u) \/ Excused(f, u)
      BY <1>2, <1>6, <1>9, <3>2, <3>3 DEF NearGrows, Aged, Excused
    <3>5. f.text = t
      BY <1>6, <3>2 DEF Aged
    <3>6. QED
      BY <1>7, <3>1, <3>4, <3>5 DEF RowNow
  <2>3. QED
    BY <2>1, <2>2
<1>12. QED
  BY <1>9, <1>10, <1>11, LeftNow

-----------------------------------------------------------------------------
(* Requests that leave the followers and the rows alone.                   *)

LEMMA LeftIdle ==
  ASSUME RoutesInv, LeftInv, UNCHANGED <<texts, follows, events>>, RowsFewer, ClearingWaits
  PROVE  LeftInv'
BY LeftAlone, EventsSame

\* A request that is not about to clear rows moves on.
LEMMA RequestIdle ==
  ASSUME RoutesInv, LeftInv, NEW p, NEW c, Becomes(p, c), call[p].op \notin {"chain", "forget"},
         UNCHANGED <<texts, follows, events, inbox>>
  PROVE  LeftInv'
<1>1. ClearingWaits
  BY CallMoves
<1>2. RowsFewer
  BY RowsSame
<1>3. QED
  BY <1>1, <1>2, LeftIdle

LEMMA GateLeft ==
  ASSUME RoutesInv, LeftInv, NEW p, NEW kind, NEW op, NEW u, NEW t, NEW a, Gate(p, kind, op, u, t, a)
  PROVE  LeftInv'
<1>1. /\ Becomes(p, Request(op, u, t)) /\ call[p] = NoCall
      /\ UNCHANGED <<texts, follows, events, inbox>>
  BY DEF Gate, Arrives, store, tables, owners
<1>2. QED
  BY <1>1, NoCallMoves, RequestIdle

LEMMA IdleLeft ==
  ASSUME RoutesInv, LeftInv, NEW p,
         \/ IndexText(p) \/ RemoveText(p) \/ PurgeText(p) \/ DeleteUserFragments(p)
         \/ CallFails(p) \/ UnregisterDevice(p) \/ UnregisterFails(p)
  PROVE  LeftInv'
<1>1. /\ UNCHANGED <<texts, follows, events, inbox>> /\ call[p].op \notin {"chain", "forget"}
      /\ \E c : Becomes(p, c)
  <2>1. CASE IndexText(p)
    BY <2>1 DEF IndexText, At, Returns, store, tables, owners
  <2>2. CASE RemoveText(p)
    BY <2>2 DEF RemoveText, At, Returns, store, tables, owners
  <2>3. CASE PurgeText(p)
    BY <2>3 DEF PurgeText, At, store, tables, owners
  <2>4. CASE DeleteUserFragments(p)
    BY <2>4 DEF DeleteUserFragments, At, Goes, Returns, tables, owners
  <2>5. CASE CallFails(p)
    BY <2>5 DEF CallFails, At, Returns, store, tables, owners
  <2>6. CASE UnregisterDevice(p)
    BY <2>6 DEF UnregisterDevice, At, Returns, store
  <2>7. CASE UnregisterFails(p)
    BY <2>7 DEF UnregisterFails, At, Returns, store
  <2>8. QED
    BY <2>1, <2>2, <2>3, <2>4, <2>5, <2>6, <2>7
<1>2. PICK c : Becomes(p, c)
  BY <1>1
<1>3. QED
  BY <1>1, <1>2, RequestIdle

LEMMA SignOutLeft ==
  ASSUME RoutesInv, LeftInv, NEW p, NEW d, SignOut(p, d)
  PROVE  LeftInv'
<1>1. PICK c : Becomes(p, c) /\ call[p] = NoCall /\ UNCHANGED <<texts, follows, events, inbox>>
  BY DEF SignOut, Arrives, store
<1>2. QED
  BY <1>1, NoCallMoves, RequestIdle

LEMMA WorkerLeft ==
  ASSUME RoutesInv, LeftInv, Tick \/ CloseDue
  PROVE  LeftInv'
<1>1. CASE Tick
  <2>1. UNCHANGED <<texts, follows, events, inbox, call>>
    BY <1>1 DEF Tick, store, tables, owners
  <2>2. ClearingWaits /\ RowsFewer
    BY <2>1 DEF ClearingWaits, RowsFewer
  <2>3. QED
    BY <2>1, <2>2, LeftIdle
<1>2. CASE CloseDue
  <2>1. PICK c : Becomes(Worker, c) /\ call[Worker] = NoCall /\ UNCHANGED <<texts, follows, events, inbox>>
    BY <1>2 DEF CloseDue, store, tables, owners
  <2>2. QED
    BY <2>1, NoCallMoves, RequestIdle
<1>3. QED
  BY <1>1, <1>2

\* A close is announced: an event more.
LEMMA AnnouncesLeft ==
  ASSUME RoutesInv, LeftInv, NEW p, NEW c, Becomes(p, c), Announces(p),
         call[p].op \notin {"chain", "forget"}, UNCHANGED <<texts, follows, inbox>>
  PROVE  LeftInv'
<1>1. EventsAge /\ ToFewer
  <2>1. PICK t, by, doer, audience :
          events' = Append(events, Event("text.round-closed", t, t, by, doer, None, audience))
    BY DEF Announces, RoundClosed
  <2>2. QED
    BY <2>1, EventMore
<1>2. ClearingWaits
  BY CallMoves
<1>3. RowsFewer
  BY RowsSame
<1>4. QED
  BY <1>1, <1>2, <1>3, LeftAlone

LEMMA IndexForkLeft ==
  ASSUME RoutesInv, LeftInv, NEW p, IndexFork(p)
  PROVE  LeftInv'
<1>1. call[p].op \notin {"chain", "forget"} /\ UNCHANGED <<texts, follows, inbox>>
  BY DEF IndexFork, At, store, tables, owners
<1>2. CASE Goes(p, "prune") /\ UNCHANGED events
  <2>1. PICK c : Becomes(p, c)
    BY <1>2 DEF Goes
  <2>2. QED
    BY <1>1, <1>2, <2>1, RequestIdle
<1>3. CASE Returns(p) /\ Announces(p)
  BY <1>1, <1>3, AnnouncesLeft DEF Returns
<1>4. QED
  BY <1>2, <1>3 DEF IndexFork

LEMMA PruneSupersededLeft ==
  ASSUME RoutesInv, LeftInv, NEW p, PruneSuperseded(p)
  PROVE  LeftInv'
<1>1. /\ call[p].op \notin {"chain", "forget"} /\ UNCHANGED <<texts, follows, inbox>>
      /\ Becomes(p, NoCall) /\ Announces(p)
  BY DEF PruneSuperseded, At, Returns, store, tables, owners
<1>2. QED
  BY <1>1, AnnouncesLeft

\* With an account its rows go.
LEMMA DeleteRowLeft ==
  ASSUME RoutesInv, LeftInv, NEW p, DeleteRow(p)
  PROVE  LeftInv'
<1>0. DOMAIN inbox = User
  BY DEF RoutesInv, InboxOK
<1>1. PICK u : /\ inbox' = [inbox EXCEPT ![u] = {}] /\ UNCHANGED <<texts, follows, events>>
               /\ Becomes(p, NoCall) /\ call[p].op \notin {"chain", "forget"}
  BY DEF DeleteRow, At, Returns, store
<1>2. RowsFewer
  BY <1>0, <1>1 DEF RowsFewer
<1>3. ClearingWaits
  BY <1>1, CallMoves
<1>4. QED
  BY <1>1, <1>2, <1>3, LeftIdle

-----------------------------------------------------------------------------
(* Requests that change texts.                                             *)

\* A text that is changed and not replaced: it keeps its place, or is gone.
Renewed(x, y) ==
  /\ y.first = x.first /\ y.previous = x.previous
  /\ \/ y.exists = x.exists /\ y.next = x.next
     \/ ~y.exists /\ y.next \in {0, x.next}
TextsRenewed == Ids' = Ids /\ \A t \in Ids : Renewed(texts[t], texts'[t])

LEMMA RenewedKeeps ==
  ASSUME TextsOK, LinksOK, TextsRenewed
  PROVE  LinksOK' /\ TextsAge
<1>1. Ids' = Ids /\ Ids \subseteq Nat
  BY IdsAre DEF TextsRenewed
<1>2. \A t \in Ids : /\ texts'[t].first = texts[t].first /\ texts'[t].previous = texts[t].previous
                     /\ texts'[t].exists => texts[t].exists /\ texts'[t].next = texts[t].next
                     /\ texts'[t].next # 0 => texts'[t].next = texts[t].next
  BY DEF TextsRenewed, Renewed
<1>3. ASSUME NEW t \in Ids PROVE Linked(t)'
  <2>1. Linked(t)
    BY DEF LinksOK
  <2>2. texts'[t].first \in 1 .. t /\ (texts'[t].previous = 0 => texts'[t].first = t)
    BY <1>2, <2>1 DEF Linked
  <2>3. ASSUME texts'[t].previous # 0
        PROVE  /\ texts'[t].previous \in Lineage(t)' /\ texts'[t].previous < t
               /\ \A w \in Lineage(t)' : w < t => w <= texts'[t].previous
               /\ texts'[texts'[t].previous].exists => texts'[texts'[t].previous].next = t
    <3>1. PICK q : q = texts[t].previous
      OBVIOUS
    <3>2. /\ q \in Lineage(t) /\ q < t /\ (Exists(q) => texts[q].next = t)
          /\ \A w \in Lineage(t) : w < t => w <= q
      BY <1>2, <2>1, <2>3, <3>1 DEF Linked
    <3>3. Lineage(t)' = Lineage(t)
      BY <1>1, <1>2 DEF Lineage
    <3>4. texts'[q].exists => texts'[q].next = t
      BY <1>2, <3>2 DEF Lineage, Exists
    <3>5. QED
      BY <1>2, <3>1, <3>2, <3>3, <3>4
  <2>4. texts'[t].next # 0 => texts'[t].next \in Ids' /\ texts'[texts'[t].next].previous = t
    <3>1. PICK n : n = texts[t].next
      OBVIOUS
    <3>2. texts'[t].next # 0 => texts'[t].next = n /\ n \in Ids /\ texts[n].previous = t
      BY <1>2, <2>1, <3>1 DEF Linked
    <3>3. QED
      BY <1>1, <1>2, <3>2
  <2>5. texts'[t].exists /\ texts'[t].next = 0 => \A w \in Lineage(t)' : w <= t
    <3>1. Lineage(t)' = Lineage(t)
      BY <1>1, <1>2 DEF Lineage
    <3>2. QED
      BY <1>2, <2>1, <3>1 DEF Linked, RoundOpen, Exists
  <2>6. QED
    BY <2>2, <2>3, <2>4, <2>5 DEF Linked, RoundOpen, Exists
<1>4. LinksOK'
  BY <1>1, <1>3 DEF LinksOK
<1>5. TextsAge
  BY <1>1, <1>2 DEF TextsAge
<1>6. QED
  BY <1>4, <1>5

\* A text more: a first version, or the fork that replaces the version q.
TextAdded(n, q) ==
  /\ n = Len(texts) + 1 /\ Ids' = Ids \cup {n} /\ q \in Ids \cup {0}
  /\ \A s \in Ids : /\ texts'[s].first = texts[s].first /\ texts'[s].previous = texts[s].previous
                    /\ texts'[s].exists = texts[s].exists
                    /\ s # q => texts'[s].next = texts[s].next
  /\ texts'[n].next = 0 /\ texts'[n].previous = q
  /\ texts'[n].first = IF q = 0 THEN n ELSE texts[q].first
  /\ q # 0 => RoundOpen(q) /\ texts'[q].next = n

LEMMA AddedKeeps ==
  ASSUME TextsOK, LinksOK, NEW n, NEW q, TextAdded(n, q)
  PROVE  LinksOK' /\ TextsAge
<1>1. /\ Len(texts) \in Nat /\ Ids = 1 .. Len(texts) /\ n = Len(texts) + 1 /\ n \in Nat /\ n \notin Ids
      /\ Ids' = Ids \cup {n} /\ q \in Ids \cup {0} /\ Ids \subseteq Nat /\ \A s \in Ids : s < n /\ s # 0
  BY IdsAre DEF TextAdded
<1>2. \A s \in Ids : /\ texts'[s].first = texts[s].first /\ texts'[s].previous = texts[s].previous
                     /\ texts'[s].exists = texts[s].exists
                     /\ s # q => texts'[s].next = texts[s].next
  BY DEF TextAdded
<1>3. /\ texts'[n].next = 0 /\ texts'[n].previous = q
      /\ texts'[n].first = IF q = 0 THEN n ELSE texts[q].first
      /\ q # 0 => RoundOpen(q) /\ texts'[q].next = n /\ Linked(q) /\ \A w \in Lineage(q) : w <= q
  <2>1. q # 0 => Linked(q) /\ RoundOpen(q)
    BY <1>1 DEF TextAdded, LinksOK
  <2>2. QED
    BY <2>1 DEF TextAdded, Linked
<1>4. \A s \in Ids : Lineage(s) = {w \in Ids : texts[w].first = texts[s].first}
  BY DEF Lineage
<1>5. ASSUME NEW s \in Ids PROVE Linked(s)'
  <2>1. Linked(s)
    BY DEF LinksOK
  <2>2. texts'[s].first \in 1 .. s /\ (texts'[s].previous = 0 => texts'[s].first = s)
    BY <1>2, <2>1 DEF Linked
  <2>3. ASSUME texts'[s].previous # 0
        PROVE  /\ texts'[s].previous \in Lineage(s)' /\ texts'[s].previous < s
               /\ \A w \in Lineage(s)' : w < s => w <= texts'[s].previous
               /\ texts'[texts'[s].previous].exists => texts'[texts'[s].previous].next = s
    <3>1. PICK p : p = texts[s].previous
      OBVIOUS
    <3>2. /\ p \in Lineage(s) /\ p < s /\ (Exists(p) => texts[p].next = s)
          /\ \A w \in Lineage(s) : w < s => w <= p
      BY <1>2, <2>1, <2>3, <3>1 DEF Linked
    <3>3. p \in Ids /\ texts[p].first = texts[s].first
      BY <3>2 DEF Lineage
    <3>4. p \in Lineage(s)'
      BY <1>1, <1>2, <3>3 DEF Lineage
    <3>5. ASSUME NEW w \in Lineage(s)', w < s PROVE w <= p
      <4>1. w \in Ids' /\ texts'[w].first = texts'[s].first
        BY DEF Lineage
      <4>2. w \in Ids
        BY <1>1, <3>5, <4>1
      <4>3. w \in Lineage(s)
        BY <1>2, <4>1, <4>2 DEF Lineage
      <4>4. QED
        BY <3>2, <3>5, <4>3
    <3>6. texts'[p].exists => texts'[p].next = s
      <4>1. SUFFICES ASSUME texts'[p].exists PROVE texts'[p].next = s
        OBVIOUS
      <4>2. texts[p].next = s
        BY <1>2, <3>2, <3>3, <4>1 DEF Exists
      <4>3. p # q
        BY <1>1, <1>3, <3>3, <4>2 DEF RoundOpen
      <4>4. QED
        BY <1>2, <3>3, <4>2, <4>3
    <3>7. QED
      BY <1>2, <3>1, <3>2, <3>4, <3>5, <3>6
  <2>4. texts'[s].next # 0 => texts'[s].next \in Ids' /\ texts'[texts'[s].next].previous = s
    <3>1. CASE s = q
      BY <1>1, <1>3, <3>1
    <3>2. CASE s # q
      <4>1. PICK m : m = texts[s].next
        OBVIOUS
      <4>2. texts'[s].next = m /\ (m # 0 => m \in Ids /\ texts[m].previous = s)
        BY <1>2, <2>1, <3>2, <4>1 DEF Linked
      <4>3. QED
        BY <1>1, <1>2, <4>2
    <3>3. QED
      BY <3>1, <3>2
  <2>5. ASSUME texts'[s].exists, texts'[s].next = 0, NEW w \in Lineage(s)' PROVE w <= s
    <3>1. s # q
      BY <1>1, <1>3, <2>5
    <3>2. RoundOpen(s)
      BY <1>2, <2>5, <3>1 DEF RoundOpen, Exists
    <3>3. \A x \in Lineage(s) : x <= s
      BY <2>1, <3>2 DEF Linked
    <3>4. w \in Ids' /\ texts'[w].first = texts[s].first
      BY <1>2 DEF Lineage
    <3>5. CASE w = n
      <4>1. CASE q = 0
        <5>1. texts[s].first = n /\ texts[s].first \in 1 .. s
          BY <1>3, <2>1, <3>4, <3>5, <4>1 DEF Linked
        <5>2. QED
          BY <1>1, <5>1
      <4>2. CASE q # 0
        <5>1. texts[q].first = texts[s].first /\ q \in Ids
          BY <1>1, <1>3, <3>4, <3>5, <4>2
        <5>2. q \in Lineage(s) /\ s \in Lineage(q)
          BY <5>1 DEF Lineage
        <5>3. q <= s /\ s <= q /\ q \in Nat /\ s \in Nat
          BY <1>1, <1>3, <3>3, <4>2, <5>1, <5>2
        <5>4. QED
          BY <3>1, <5>3
      <4>3. QED
        BY <4>1, <4>2
    <3>6. CASE w \in Ids
      BY <1>2, <3>3, <3>4, <3>6 DEF Lineage
    <3>7. QED
      BY <1>1, <3>4, <3>5, <3>6
  <2>6. QED
    BY <2>2, <2>3, <2>4, <2>5 DEF Linked, RoundOpen, Exists
<1>6. Linked(n)'
  <2>1. texts'[n].first \in 1 .. n /\ (texts'[n].previous = 0 => texts'[n].first = n)
    <3>1. CASE q = 0
      BY <1>1, <1>3, <3>1
    <3>2. CASE q # 0
      <4>1. texts[q].first \in 1 .. q /\ q \in Nat /\ q < n
        BY <1>1, <1>3, <3>2 DEF Linked
      <4>2. QED
        BY <1>1, <1>3, <3>2, <4>1
    <3>3. QED
      BY <3>1, <3>2
  <2>2. ASSUME q # 0
        PROVE  /\ q \in Lineage(n)' /\ q < n /\ \A w \in Lineage(n)' : w < n => w <= q
               /\ texts'[q].exists => texts'[q].next = n
    <3>1. q \in Ids /\ texts'[n].first = texts'[q].first /\ texts'[q].first = texts[q].first
      BY <1>1, <1>2, <1>3, <2>2
    <3>2. q \in Lineage(n)'
      BY <1>1, <3>1 DEF Lineage
    <3>3. ASSUME NEW w \in Lineage(n)', w < n PROVE w <= q
      <4>1. w \in Ids' /\ texts'[w].first = texts[q].first
        BY <3>1 DEF Lineage
      <4>2. w \in Ids
        BY <1>1, <3>3, <4>1
      <4>3. w \in Lineage(q)
        BY <1>2, <4>1, <4>2 DEF Lineage
      <4>4. QED
        BY <1>3, <2>2, <4>3
    <3>4. QED
      BY <1>1, <1>3, <2>2, <3>1, <3>2, <3>3
  <2>3. \A w \in Lineage(n)' : w <= n
    <3>1. \A w \in Ids' : w <= n
      BY <1>1
    <3>2. Lineage(n)' \subseteq Ids'
      BY DEF Lineage
    <3>3. QED
      BY <3>1, <3>2
  <2>4. QED
    BY <1>3, <2>1, <2>2, <2>3 DEF Linked, Exists
<1>7. LinksOK'
  BY <1>1, <1>5, <1>6 DEF LinksOK
<1>8. TextsAge
  BY <1>1, <1>2 DEF TextsAge
<1>9. QED
  BY <1>7, <1>8

LEMMA CreateTextLeft ==
  ASSUME RoutesInv, LeftInv, NEW p, NEW u, CreateText(p, u)
  PROVE  LeftInv'
<1> DEFINE n == Len(texts) + 1
           new == NewText(0, u, n)
<1>1. /\ texts' = Append(texts, new) /\ follows \subseteq follows' /\ UNCHANGED <<inbox, events>>
      /\ call[p] = NoCall /\ \E c : Becomes(p, c)
  BY DEF CreateText, Arrives, tables, owners
<1>2. texts \in Seq(TextRec) /\ Len(texts) \in Nat /\ Ids = 1 .. Len(texts) /\ TextsOK
  BY DEF RoutesInv, TextsOK, Ids
<1>3. new.next = 0 /\ new.previous = 0 /\ new.first = n
  BY DEF NewText
<1> HIDE DEF new
<1>4. Ids' = Ids \cup {n} /\ texts'[n] = new /\ \A s \in Ids : texts'[s] = texts[s]
  BY <1>1, <1>2 DEF Ids
<1>5. TextAdded(n, 0)
  BY <1>2, <1>3, <1>4 DEF TextAdded
<1>6. LinksOK' /\ TextsAge
  BY <1>2, <1>5, AddedKeeps DEF LeftInv
<1>7. NearGrows
  BY <1>1, <1>6, NearStays
<1>8. ClearingWaits
  BY <1>1, CallMoves, NoCallMoves
<1>9. EventsAge /\ ToFewer /\ RowsFewer
  BY <1>1, EventsSame, RowsSame
<1>10. QED
  BY <1>6, <1>7, <1>8, <1>9, LeftStays

\* One text is changed and not replaced.
LEMMA OneRenewed ==
  ASSUME RoutesInv, NEW t \in Ids, NEW r, Renewed(texts[t], r), texts' = [texts EXCEPT ![t] = r]
  PROVE  TextsRenewed /\ texts'[t] = r /\ \A s \in Ids : s # t => texts'[s] = texts[s]
<1>1. texts \in Seq(TextRec) /\ Len(texts) \in Nat /\ Ids = 1 .. Len(texts)
  BY DEF RoutesInv, TextsOK, Ids
<1>2. DOMAIN texts = 1 .. Len(texts)
  BY <1>1
<1>3. /\ DOMAIN texts' = 1 .. Len(texts) /\ texts'[t] = r /\ \A s \in Ids : s # t => texts'[s] = texts[s]
      /\ texts' = [s \in 1 .. Len(texts) |-> texts'[s]]
  BY <1>1, <1>2
<1>4. Len(texts') = Len(texts)
  <2>1. PICK m : m = Len(texts)
    OBVIOUS
  <2>2. PICK T : T = texts'
    OBVIOUS
  <2>3. m \in Nat /\ T = [s \in 1 .. m |-> T[s]]
    BY <1>1, <1>3, <2>1, <2>2
  <2>4. Len(T) = m
    BY <2>3
  <2>5. QED
    BY <2>1, <2>2, <2>4
<1>5. Ids' = Ids
  BY <1>4 DEF Ids
<1>6. \A s \in Ids : Renewed(texts[s], texts'[s])
  <2>1. \A s \in Ids : Renewed(texts[s], texts[s])
    BY DEF Renewed
  <2>2. QED
    BY <1>3, <2>1
<1>7. QED
  BY <1>3, <1>5, <1>6 DEF TextsRenewed

LEMMA TextIs ==
  ASSUME RoutesInv, NEW p \in Server, call[p].op \in OnText
  PROVE  call[p].text \in Ids /\ call[p].text \in Nat /\ texts[call[p].text] \in TextRec
<1>1. CallOK(call[p]) /\ TextsOK
  BY DEF RoutesInv, CallsOK
<1>2. QED
  BY <1>1, IdsAre DEF CallOK

\* Texts that are changed while nobody leaves.
LEMMA RenewedLeft ==
  ASSUME RoutesInv, LeftInv, TextsRenewed, follows' = follows, NEW p, NEW c, Becomes(p, c),
         call[p].op \notin {"chain", "forget"}, EventsAge, ToFewer, inbox' = inbox
  PROVE  LeftInv'
<1>1. LinksOK' /\ TextsAge
  BY RenewedKeeps DEF RoutesInv, LeftInv
<1>2. NearGrows
  BY <1>1, NearStays
<1>3. ClearingWaits
  BY CallMoves
<1>4. RowsFewer
  BY RowsSame
<1>5. QED
  BY <1>1, <1>2, <1>3, <1>4, LeftStays

LEMMA ProposeEditLeft ==
  ASSUME RoutesInv, LeftInv, NEW p \in Server, ProposeEdit(p)
  PROVE  LeftInv'
<1> DEFINE t == call[p].text
           u == call[p].by
           r == [texts[t] EXCEPT !.slots = TRUE]
<1>1. /\ Becomes(p, NoCall) /\ call[p].op = "propose" /\ follows' = follows /\ inbox' = inbox
      /\ \/ texts' = [texts EXCEPT ![t] = r] /\ events' = Append(events, EditProposed(t, u))
         \/ texts' = texts /\ events' = events
  BY DEF ProposeEdit, At, Returns, tables, owners
<1>2. CASE texts' = [texts EXCEPT ![t] = r] /\ events' = Append(events, EditProposed(t, u))
  <2>1. t \in Ids /\ texts[t] \in TextRec
    BY <1>1, TextIs DEF OnText
  <2>2. Renewed(texts[t], r)
    BY <2>1 DEF Renewed, TextRec
  <2>3. TextsRenewed
    BY <1>2, <2>1, <2>2, OneRenewed
  <2>4. EventsAge /\ ToFewer
    <3>1. PICK v, w, audience :
            events' = Append(events, Event("text.edit-proposed", v, v, w, w, None, audience))
      BY <1>2 DEF EditProposed
    <3>2. QED
      BY <3>1, EventMore
  <2>5. QED
    BY <1>1, <2>3, <2>4, RenewedLeft
<1>3. CASE texts' = texts /\ events' = events
  BY <1>1, <1>3, RequestIdle
<1>4. QED
  BY <1>1, <1>2, <1>3

LEMMA ScheduleCloseLeft ==
  ASSUME RoutesInv, LeftInv, NEW p \in Server, ScheduleClose(p)
  PROVE  LeftInv'
<1> DEFINE t == call[p].text
           r == [texts[t] EXCEPT !.closeBy = call[p].by, !.asked = call[p].by]
<1>1. /\ Becomes(p, NoCall) /\ call[p].op = "schedule" /\ UNCHANGED <<follows, inbox, events>>
      /\ \/ texts' = [texts EXCEPT ![t] = r] \/ texts' = texts
  BY DEF ScheduleClose, At, Returns, tables, owners
<1>2. CASE texts' = [texts EXCEPT ![t] = r]
  <2>1. t \in Ids /\ texts[t] \in TextRec
    BY <1>1, TextIs DEF OnText
  <2>2. Renewed(texts[t], r)
    <3>1. PICK u : u = call[p].by
      OBVIOUS
    <3>2. PICK x : x = texts[t]
      OBVIOUS
    <3>3. PICK y : y = [x EXCEPT !.closeBy = u, !.asked = u]
      OBVIOUS
    <3>4. y.first = x.first /\ y.previous = x.previous /\ y.exists = x.exists /\ y.next = x.next
      BY <2>1, <3>2, <3>3 DEF TextRec
    <3>5. QED
      BY <3>1, <3>2, <3>3, <3>4 DEF Renewed
  <2>3. TextsRenewed
    BY <1>2, <2>1, <2>2, OneRenewed
  <2>4. EventsAge /\ ToFewer
    BY <1>1, EventsSame
  <2>5. QED
    BY <1>1, <2>3, <2>4, RenewedLeft
<1>3. CASE texts' = texts
  BY <1>1, <1>3, RequestIdle
<1>4. QED
  BY <1>1, <1>2, <1>3

LEMMA GoneRenews ==
  ASSUME NEW x \in TextRec, NEW y, y = Gone(x) \/ y = Deleted(x)
  PROVE  Renewed(x, y) /\ ~y.exists
<1>1. /\ y.exists = FALSE /\ y.next \in {0, x.next} /\ y.first = x.first /\ y.previous = x.previous
  <2>1. CASE y = Gone(x)
    BY <2>1, GoneIs
  <2>2. CASE y = Deleted(x)
    BY <2>2, DeletedIs
  <2>3. QED
    BY <2>1, <2>2
<1>2. QED
  BY <1>1 DEF Renewed

\* A deletion takes followers only of texts that are gone, and with such a text
\* its versions do not count as left any more.
LEMMA GoneLeft ==
  ASSUME RoutesInv, LeftInv, TextsRenewed, NEW gone, \A t \in gone : ~texts'[t].exists,
         \A w \in follows : w \in follows' \/ w[2] \in gone, UNCHANGED <<inbox, events>>, ClearingWaits
  PROVE  LeftInv'
<1>1. LinksOK' /\ TextsAge
  BY RenewedKeeps DEF RoutesInv, LeftInv
<1>2. NearGrows
  <2>1. ASSUME NEW s \in Ids, NEW u, NEW v \in Lineage(s), <<u, v>> \in follows \/ ~Exists(v)
        PROVE  NearNow(s, u)
    <3>1. v \in Ids /\ v \in Ids' /\ texts'[v].first = texts'[s].first
      BY <1>1 DEF Lineage, TextsAge
    <3>2. <<u, v>> \in follows' \/ ~texts'[v].exists
      <4>1. CASE v \in gone
        BY <4>1
      <4>2. CASE v \notin gone /\ <<u, v>> \in follows
        <5>1. <<u, v>>[2] = v
          OBVIOUS
        <5>2. QED
          BY <4>2, <5>1
      <4>3. CASE ~Exists(v)
        BY <1>1, <3>1, <4>3 DEF TextsAge, Exists
      <4>4. QED
        BY <2>1, <4>1, <4>2, <4>3
    <3>3. QED
      BY <3>1, <3>2 DEF NearNow
  <2>2. QED
    BY <2>1 DEF NearGrows, Near
<1>3. EventsAge /\ ToFewer /\ RowsFewer
  BY EventsSame, RowsSame
<1>4. QED
  BY <1>1, <1>2, <1>3, LeftStays

LEMMA DeleteTextLeft ==
  ASSUME RoutesInv, LeftInv, NEW p \in Server, DeleteText(p)
  PROVE  LeftInv'
<1> DEFINE t == call[p].text
<1>1. call[p].op = "delete" /\ UNCHANGED <<inbox, events>> /\ \E c : Becomes(p, c)
  BY DEF DeleteText, At, Goes, tables, owners
<1>2. CASE ~Exists(t)
  <2>1. UNCHANGED <<texts, follows>>
    BY <1>2 DEF DeleteText, store
  <2>2. QED
    BY <1>1, <2>1, RequestIdle
<1>3. CASE Exists(t)
  <2>1. texts' = [texts EXCEPT ![t] = Deleted(texts[t])] /\ follows' = follows \ SubscriptionsTo(t)
    BY <1>3 DEF DeleteText
  <2>2. t \in Ids /\ texts[t] \in TextRec
    BY <1>1, TextIs DEF OnText
  <2>3. Renewed(texts[t], Deleted(texts[t])) /\ ~Deleted(texts[t]).exists
    BY <2>2, GoneRenews
  <2>4. TextsRenewed /\ ~texts'[t].exists
    BY <2>1, <2>2, <2>3, OneRenewed
  <2> DEFINE gone == {t}
  <2>5. (\A s \in gone : ~texts'[s].exists) /\ \A w \in follows : w \in follows' \/ w[2] \in gone
    BY <2>1, <2>4 DEF SubscriptionsTo
  <2> HIDE DEF gone
  <2>6. ClearingWaits
    BY <1>1, CallMoves
  <2>7. QED
    BY <1>1, <2>4, <2>5, <2>6, GoneLeft
<1>4. QED
  BY <1>2, <1>3

LEMMA DeleteTextHalfwayLeft ==
  ASSUME RoutesInv, LeftInv, NEW p \in Server, DeleteTextHalfway(p)
  PROVE  LeftInv'
<1>1. PICK t : t = call[p].text
  OBVIOUS
<1>2. PICK r : /\ r = Gone(texts[t]) \/ r = Deleted(texts[t])
               /\ texts' = [texts EXCEPT ![t] = r]
  BY <1>1, HalfwayIs
<1>3. /\ call[p].op = "delete" /\ Becomes(p, NoCall) /\ UNCHANGED <<inbox, events>>
      /\ \A w \in follows : w \in follows' \/ w[2] = t
  BY <1>1, HalfwayIs DEF tables
<1>4. t \in Ids /\ texts[t] \in TextRec
  BY <1>1, <1>3, TextIs DEF OnText
<1>5. Renewed(texts[t], r) /\ ~r.exists
  BY <1>2, <1>4, GoneRenews
<1>6. TextsRenewed /\ ~texts'[t].exists
  BY <1>2, <1>4, <1>5, OneRenewed
<1> DEFINE gone == {t}
<1>7. (\A s \in gone : ~texts'[s].exists) /\ \A w \in follows : w \in follows' \/ w[2] \in gone
  BY <1>3, <1>6
<1> HIDE DEF gone
<1>8. ClearingWaits
  BY <1>3, CallMoves
<1>9. QED
  BY <1>3, <1>6, <1>7, <1>8, GoneLeft

LEMMA DeleteUserHalfwayLeft ==
  ASSUME RoutesInv, LeftInv, NEW u \in User, DeleteUserHalfway(u)
  PROVE  LeftInv'
<1>1. TextsOK
  BY DEF RoutesInv
<1>2. PICK gone \in SUBSET CreatedBy(u) :
        /\ texts' \in Seq(TextRec) /\ Len(texts') = Len(texts)
        /\ \A t \in Ids : t \notin gone => texts'[t] = texts[t]
        /\ \A t \in gone : texts'[t] = Gone(texts[t]) \/ texts'[t] = Deleted(texts[t])
        /\ fragments' \subseteq fragments /\ astray' = astray \cup gone
        /\ UNCHANGED <<follows, tables, index, due, call, events>>
  BY <1>1, UserHalfwayIs
<1>3. Ids' = Ids /\ gone \subseteq Ids /\ \A t \in Ids : texts[t] \in TextRec
  BY <1>1, <1>2, IdsAre DEF Ids, CreatedBy
<1>4. \A t \in gone : Renewed(texts[t], texts'[t]) /\ ~texts'[t].exists
  BY <1>2, <1>3, GoneRenews
<1>5. TextsRenewed
  <2>1. \A t \in Ids : Renewed(texts[t], texts[t])
    BY DEF Renewed
  <2>2. QED
    BY <1>2, <1>3, <1>4, <2>1 DEF TextsRenewed
<1>6. UNCHANGED <<inbox, events>> /\ ClearingWaits /\ follows' = follows
  BY <1>2 DEF tables, ClearingWaits
<1>7. QED
  BY <1>4, <1>5, <1>6, GoneLeft

LEMMA DoesLeft ==
  ASSUME RoutesInv, LeftInv, NEW u \in User, Does(u)
  PROVE  LeftInv'
<1>1. ASSUME NEW t, NEW a, CastVote(u, t, a) PROVE LeftInv'
  <2>1. PICK audience : /\ events' = Append(events, Event("text.vote-cast", t, t, u, u, a, audience))
                        /\ UNCHANGED <<texts, follows, inbox, call>>
    BY <1>1 DEF CastVote, VoteCast, store, tables, owners
  <2>2. EventsAge /\ ToFewer
    BY <2>1, EventMore
  <2>3. ClearingWaits /\ RowsFewer
    BY <2>1 DEF ClearingWaits, RowsFewer
  <2>4. QED
    BY <2>1, <2>2, <2>3, LeftAlone
<1>2. ASSUME NEW t, Subscribe(u, t) PROVE LeftInv'
  <2>1. follows \subseteq follows' /\ UNCHANGED <<texts, inbox, call, events>>
    BY <1>2 DEF Subscribe, tables, owners
  <2>2. ClearingWaits /\ RowsFewer
    BY <2>1 DEF ClearingWaits, RowsFewer
  <2>3. QED
    BY <2>1, <2>2, LeftAlone, EventsSame
<1>3. ASSUME NEW d, RegisterDevice(u, d) \/ RegisterDeviceFails(u, d) PROVE LeftInv'
  <2>1. UNCHANGED <<texts, follows, events, inbox, call>>
    BY <1>3 DEF RegisterDevice, RegisterDeviceFails, store
  <2>2. ClearingWaits /\ RowsFewer
    BY <2>1 DEF ClearingWaits, RowsFewer
  <2>3. QED
    BY <2>1, <2>2, LeftIdle
<1>4. CASE DeleteUserHalfway(u)
  BY <1>4, DeleteUserHalfwayLeft
<1>5. QED
  BY <1>1, <1>2, <1>3, <1>4 DEF Does

LEMMA DeleteUserLeft ==
  ASSUME RoutesInv, LeftInv, NEW p, NEW u, DeleteUser(p, u)
  PROVE  LeftInv'
<1>1. /\ call[p] = NoCall /\ UNCHANGED <<follows, inbox, events>> /\ \E c : Becomes(p, c)
      /\ texts' = [t \in Ids |-> IF t \in CreatedBy(u) THEN Deleted(texts[t]) ELSE texts[t]]
  BY DEF DeleteUser, Arrives, tables, owners
<1>2. Len(texts) \in Nat /\ Ids = 1 .. Len(texts) /\ \A t \in Ids : texts[t] \in TextRec
  BY IdsAre DEF RoutesInv
<1>3. Ids' = Ids
  <2>1. DOMAIN texts' = 1 .. Len(texts) /\ texts' = [t \in 1 .. Len(texts) |-> texts'[t]]
    BY <1>1, <1>2
  <2>2. PICK m : m = Len(texts)
    OBVIOUS
  <2>3. PICK T : T = texts'
    OBVIOUS
  <2>4. m \in Nat /\ T = [s \in 1 .. m |-> T[s]]
    BY <1>2, <2>1, <2>2, <2>3
  <2>5. Len(T) = m
    BY <2>4
  <2>6. QED
    BY <2>2, <2>3, <2>5 DEF Ids
<1>4. ASSUME NEW t \in Ids PROVE Renewed(texts[t], texts'[t])
  <2>1. texts'[t] = Deleted(texts[t]) \/ texts'[t] = texts[t]
    BY <1>1
  <2>2. Renewed(texts[t], texts[t])
    BY DEF Renewed
  <2>3. Renewed(texts[t], Deleted(texts[t]))
    BY <1>2, GoneRenews
  <2>4. QED
    BY <2>1, <2>2, <2>3
<1>5. TextsRenewed
  BY <1>3, <1>4 DEF TextsRenewed
<1>6. EventsAge /\ ToFewer
  BY <1>1, EventsSame
<1>7. QED
  BY <1>1, <1>5, <1>6, NoCallMoves, RenewedLeft

\* A close moves the followers of the version it replaces to the fork.
LEMMA CloseRoundLeft ==
  ASSUME RoutesInv, LeftInv, NEW p \in Server, CloseRound(p)
  PROVE  LeftInv'
<1> DEFINE t == call[p].text
           n == Len(texts) + 1
           r == [texts[t] EXCEPT !.next = n]
           mid == [texts EXCEPT ![t] = r]
           new == NewText(t, texts[t].createdBy, texts[t].first)
<1>1. /\ call[p].op = "close" /\ UNCHANGED <<inbox, events>>
      /\ \/ /\ texts' = Append(mid, new) /\ RoundOpen(t) /\ \E c : Becomes(p, c)
            /\ follows' = {IF s[2] = t THEN <<s[1], n>> ELSE s : s \in follows}
         \/ UNCHANGED <<texts, follows>> /\ Becomes(p, NoCall)
  BY DEF CloseRound, At, Returns, tables, owners
<1>2. CASE UNCHANGED <<texts, follows>> /\ Becomes(p, NoCall)
  BY <1>1, <1>2, RequestIdle
<1>3. CASE /\ texts' = Append(mid, new) /\ RoundOpen(t) /\ \E c : Becomes(p, c)
           /\ follows' = {IF s[2] = t THEN <<s[1], n>> ELSE s : s \in follows}
  <2>1. /\ t \in Ids /\ t \in Nat /\ texts[t] \in TextRec /\ texts \in Seq(TextRec)
        /\ Len(texts) \in Nat /\ Ids = 1 .. Len(texts)
    BY <1>1, TextIs DEF OnText, RoutesInv, TextsOK, Ids
  <2> HIDE DEF t
  <2>a. n \in Nat
    BY <2>1
  <2>2. /\ r \in TextRec /\ r.first = texts[t].first /\ r.previous = texts[t].previous
        /\ r.exists = texts[t].exists /\ r.next = n
    <3> HIDE DEF n
    <3>1. QED
      BY <2>1, <2>a DEF TextRec
  <2>3. new \in TextRec /\ new.next = 0 /\ new.previous = t /\ new.first = texts[t].first
    <3>1. texts[t].createdBy \in User /\ texts[t].first \in Nat /\ None \in Who
      BY <2>1 DEF TextRec, Who
    <3>2. QED
      BY <2>1, <3>1 DEF NewText, TextRec
  <2> HIDE DEF r, new
  <2>4. /\ mid \in Seq(TextRec) /\ Len(mid) = Len(texts) /\ mid[t] = r
        /\ \A s \in Ids : s # t => mid[s] = texts[s]
    BY <2>1, <2>2, ExceptSeq
  <2> HIDE DEF mid
  <2>6. Ids' = Ids \cup {n} /\ texts'[n] = new /\ \A s \in Ids : texts'[s] = mid[s]
    BY <1>3, <2>1, <2>3, <2>4 DEF Ids
  <2>7. /\ texts'[t] = r /\ \A s \in Ids : s # t => texts'[s] = texts[s]
    BY <2>1, <2>4, <2>6
  <2>8. TextAdded(n, t)
    <3>1. t # 0
      BY <2>1
    <3>2. QED
      BY <1>3, <2>1, <2>2, <2>3, <2>6, <2>7, <3>1 DEF TextAdded
  <2>9. LinksOK' /\ TextsAge
    BY <2>8, AddedKeeps DEF RoutesInv, LeftInv
  <2>10. NearGrows
    <3>1. ASSUME NEW s \in Ids, NEW u, NEW v \in Lineage(s), <<u, v>> \in follows \/ ~Exists(v)
          PROVE  NearNow(s, u)
      <4>1. v \in Ids /\ v \in Ids' /\ texts'[v].first = texts'[s].first
        BY <2>9 DEF Lineage, TextsAge
      <4>2. CASE ~Exists(v)
        BY <2>9, <4>1, <4>2 DEF TextsAge, Exists, NearNow
      <4>3. CASE <<u, v>> \in follows /\ v # t
        <5>1. PICK w : w = <<u, v>>
          OBVIOUS
        <5>2. w \in follows /\ w[2] # t
          BY <4>3, <5>1
        <5>3. (IF w[2] = t THEN <<w[1], n>> ELSE w) = w
          BY <5>2
        <5>4. w \in follows'
          BY <1>3, <5>2, <5>3
        <5>5. QED
          BY <4>1, <5>1, <5>4 DEF NearNow
      <4>4. CASE <<u, v>> \in follows /\ v = t
        <5>1. PICK w : w = <<u, v>>
          OBVIOUS
        <5>2. w \in follows /\ w[2] = t /\ w[1] = u
          BY <4>4, <5>1
        <5>3. (IF w[2] = t THEN <<w[1], n>> ELSE w) = <<u, n>>
          BY <5>2
        <5>4. <<u, n>> \in follows'
          BY <1>3, <5>2, <5>3
        <5>5. n \in Ids' /\ texts'[n].first = texts'[s].first
          BY <2>2, <2>3, <2>6, <2>7, <4>1, <4>4
        <5>6. QED
          BY <5>4, <5>5 DEF NearNow
      <4>5. QED
        BY <3>1, <4>2, <4>3, <4>4
    <3>2. QED
      BY <3>1 DEF NearGrows, Near
  <2>11. ClearingWaits
    BY <1>1, <1>3, CallMoves
  <2>12. EventsAge /\ ToFewer /\ RowsFewer
    BY <1>1, EventsSame, RowsSame
  <2>13. QED
    BY <2>9, <2>10, <2>11, <2>12, LeftStays
<1>4. QED
  BY <1>1, <1>2, <1>3

-----------------------------------------------------------------------------
(* Leaving a text.                                                         *)

\* A row that was there before, of whom the step takes nothing away.
LEMMA RowAges ==
  ASSUME RoutesInv, LeftInv, TextsAge, EventsAge, NEW u \in User, NEW row \in inbox[u],
         \A t \in Ids : t = events[row.event].text /\ Near(t, u) =>
           \/ NearNow(t, u) \/ Excused(events'[row.event], u)
           \/ \E p \in Proc : ClearingNow(call'[p], t, u),
         \A t \in Ids, p \in Proc : t = events[row.event].text /\ Clearing(call[p], t, u) =>
           \/ NearNow(t, u) \/ Excused(events'[row.event], u)
           \/ \E q \in Proc : ClearingNow(call'[q], t, u)
  PROVE  RowNow(row, u)
<1>1. PICK i : i = row.event
  OBVIOUS
<1>2. i \in DOMAIN events
  BY <1>1 DEF RoutesInv, InboxOK, RowsOK
<1>3. PICK t : t = events[i].text
  OBVIOUS
<1>4. t \in Ids
  BY <1>2, <1>3 DEF RoutesInv, EventsOK
<1>5. Aged(events[i], events'[i])
  BY <1>2 DEF EventsAge
<1>6. events'[i].text = t /\ (Excused(events[i], u) => Excused(events'[i], u))
  BY <1>3, <1>5 DEF Aged, Excused
<1>7. Near(t, u) \/ Excused(events[i], u) \/ \E p \in Proc : Clearing(call[p], t, u)
  BY <1>1, <1>3 DEF LeftInv, RowsLeft
<1>8. NearNow(t, u) \/ Excused(events'[i], u) \/ \E p \in Proc : ClearingNow(call'[p], t, u)
  BY <1>1, <1>3, <1>4, <1>6, <1>7
<1>9. QED
  BY <1>1, <1>6, <1>8 DEF RowNow

LEMMA LeavesIs ==
  ASSUME NEW e \in EventRec, NEW u, NEW t
  PROVE  LET f == LeavesEvent(e, u, t)
         IN  /\ Aged(e, f) /\ f.to = e.to /\ f.saved = e.saved
             /\ e.version \in Lineage(t) /\ u \in e.to /\ ~e.saved => u \in f.left
<1> DEFINE f == LeavesEvent(e, u, t)
<1>1. CASE e.version \in Lineage(t)
  <2> DEFINE l == IF u \in e.to /\ ~e.saved THEN e.left \cup {u} ELSE e.left
             g == [e EXCEPT !.owed = @ \ {u}, !.left = l]
  <2>1. f = g
    BY <1>1 DEF LeavesEvent
  <2>2. e.left \subseteq l /\ (u \in e.to /\ ~e.saved => u \in l)
    OBVIOUS
  <2> HIDE DEF f, l
  <2>3. g.text = e.text /\ g.left = l /\ g.kept = e.kept /\ g.saved = e.saved /\ g.to = e.to
    BY DEF EventRec
  <2> HIDE DEF g
  <2>4. QED
    BY <2>1, <2>2, <2>3 DEF Aged, f
<1>2. CASE e.version \notin Lineage(t)
  BY <1>2 DEF LeavesEvent, Aged
<1>3. QED
  BY <1>1, <1>2

\* Who leaves a text is about to have the rows about all its versions cleared,
\* and is excused from what a delivery may still write.
LEMMA UnsubscribeLeft ==
  ASSUME RoutesInv, LeftInv, NEW p \in Proc, NEW u \in User, NEW t \in Ids, Unsubscribe(p, u, t)
  PROVE  LeftInv'
<1> DEFINE c == Request("chain", u, t)
<1>1. /\ call[p] = NoCall /\ Becomes(p, c) /\ follows' = follows \ {<<u, t>>}
      /\ events' = [i \in DOMAIN events |-> LeavesEvent(events[i], u, t)]
      /\ texts' = texts /\ inbox' = inbox
  BY DEF Unsubscribe, Arrives, tables, owners
<1>2. LinksOK' /\ TextsAge
  BY <1>1, LinksStay DEF LeftInv
<1>3. c.op = "chain" /\ c.by = u /\ c.text = t
  <2>1. "chain" \in Op /\ u \in Who /\ t \in Nat
    BY IdsAre DEF Op, Who, RoutesInv
  <2>2. QED
    BY <2>1, RequestIs
<1> HIDE DEF c
<1>4. DOMAIN call = Server /\ p \in Server
  BY DEF RoutesInv, CallsOK, Server
<1>5. call'[p] = c /\ \A q \in Server : q # p => call'[q] = call[q]
  BY <1>1, <1>4 DEF Becomes
<1>6. ClearingWaits
  BY <1>1, CallMoves, NoCallMoves
<1>7. ASSUME NEW i \in DOMAIN events
      PROVE  /\ Aged(events[i], events'[i]) /\ events'[i].to = events[i].to
             /\ events'[i].saved = events[i].saved
             /\ events[i].version \in Lineage(t) /\ u \in events[i].to /\ ~events[i].saved =>
                  Excused(events'[i], u)
  <2>1. events[i] \in EventRec
    BY EventIs DEF RoutesInv
  <2>2. events'[i] = LeavesEvent(events[i], u, t)
    BY <1>1
  <2>3. QED
    BY <2>1, <2>2, LeavesIs DEF Excused
<1>8. DOMAIN events' = DOMAIN events /\ EventsAge
  BY <1>1, <1>7 DEF EventsAge
<1>9. ASSUME NEW s \in Ids, NEW x \in User, Near(s, x)
      PROVE  NearNow(s, x) \/ (x = u /\ t \in Lineage(s))
  <2>1. PICK v \in Lineage(s) : <<x, v>> \in follows \/ ~Exists(v)
    BY <1>9 DEF Near
  <2>2. v \in Ids /\ v \in Ids' /\ texts'[v].first = texts'[s].first
    BY <1>2 DEF Lineage, TextsAge
  <2>3. CASE ~Exists(v)
    BY <1>2, <2>2, <2>3 DEF TextsAge, Exists, NearNow
  <2>4. CASE <<x, v>> \in follows
    <3>1. CASE <<x, v>> = <<u, t>>
      BY <2>1, <3>1
    <3>2. CASE <<x, v>> # <<u, t>>
      BY <1>1, <2>2, <2>4, <3>2 DEF NearNow
    <3>3. QED
      BY <3>1, <3>2
  <2>5. QED
    BY <2>1, <2>3, <2>4
<1>10. ASSUME NEW s \in Ids, t \in Lineage(s) PROVE ClearingNow(call'[p], s, u)
  <2>1. t \in Ids' /\ texts'[t].first = texts'[s].first
    BY <1>2, <1>10 DEF Lineage, TextsAge
  <2>2. ClearingNow(c, s, u)
    BY <1>3, <2>1 DEF ClearingNow
  <2>3. QED
    BY <1>5, <2>2
<1>11. ASSUME NEW x \in User, NEW row \in inbox'[x] PROVE RowNow(row, x)
  <2>1. row \in inbox[x]
    BY <1>1
  <2>2. \A s \in Ids : Near(s, x) => NearNow(s, x) \/ \E q \in Proc : ClearingNow(call'[q], s, x)
    BY <1>9, <1>10
  <2>3. \A s \in Ids, q \in Proc : Clearing(call[q], s, x) => ClearingNow(call'[q], s, x)
    BY <1>2, <1>6, ClearingStays
  <2>4. QED
    BY <1>2, <1>8, <2>1, <2>2, <2>3, RowAges
<1>12. ASSUME NEW i \in DOMAIN events' PROVE ToNow(i)
  <2>1. SUFFICES ASSUME NEW x \in events'[i].to
        PROVE  events'[i].saved \/ NearNow(events'[i].text, x) \/ Excused(events'[i], x)
    BY DEF ToNow
  <2>2. PICK s : s = events[i].text
    OBVIOUS
  <2>3. s \in Ids /\ x \in User /\ events[i].version = s /\ x \in events[i].to
    <3>1. events[i] \in EventRec /\ events[i].text \in Ids /\ events[i].version = events[i].text
      BY <1>8, EventIs DEF RoutesInv
    <3>2. events'[i].to = events[i].to
      BY <1>7, <1>8
    <3>3. QED
      BY <2>1, <2>2, <3>1, <3>2 DEF EventRec
  <2>4. /\ events'[i].text = s /\ (Excused(events[i], x) => Excused(events'[i], x))
        /\ events'[i].saved = events[i].saved
    BY <1>7, <1>8, <2>2 DEF Aged, Excused
  <2>5. events[i].saved \/ Near(s, x) \/ Excused(events[i], x)
    BY <1>8, <2>2, <2>3 DEF LeftInv, ToLeft
  <2>6. ASSUME ~events[i].saved, x = u, t \in Lineage(s) PROVE Excused(events'[i], u)
    <3>1. s \in Lineage(t)
      BY <2>3, <2>6 DEF Lineage
    <3>2. QED
      BY <1>7, <1>8, <2>3, <2>6, <3>1
  <2>7. QED
    BY <1>9, <2>3, <2>4, <2>5, <2>6
<1>13. QED
  BY <1>2, <1>11, <1>12, LeftNow

\* The chain that is read holds all versions of the text, unless one of them
\* was deleted.
LEMMA ReadChainLeft ==
  ASSUME RoutesInv, LeftInv, NEW p \in Server, ReadChain(p)
  PROVE  LeftInv'
<1> DEFINE c == call[p]
           d == [c EXCEPT !.op = "forget", !.texts = IF Exists(c.text) THEN TextChain(c.text) ELSE {c.text}]
<1>1. /\ c.op = "chain" /\ Becomes(p, d) /\ UNCHANGED <<texts, follows, inbox, events>>
  BY DEF ReadChain, At, store, tables, owners
<1>2. LinksOK' /\ TextsAge /\ NearGrows
  BY <1>1, LinksStay, NearStays DEF LeftInv
<1>3. EventsAge
  BY <1>1, EventsSame
<1>4. IsCall(c) /\ DOMAIN call = Server
  BY DEF RoutesInv, CallsOK, CallOK
<1>5. PICK T : T = IF Exists(c.text) THEN TextChain(c.text) ELSE {c.text}
  OBVIOUS
<1>6. d = [c EXCEPT !.op = "forget", !.texts = T]
  BY <1>5
<1> HIDE DEF d
<1>7. call'[p] = d /\ \A q \in Server : q # p => call'[q] = call[q]
  BY <1>1, <1>4 DEF Becomes
<1> HIDE DEF c
<1>8. d.op = "forget" /\ d.by = c.by /\ d.texts = T
  BY <1>4, <1>6 DEF IsCall
<1>9. ASSUME NEW x \in User, NEW row \in inbox'[x] PROVE RowNow(row, x)
  <2>1. row \in inbox[x]
    BY <1>1
  <2>2. \A s \in Ids : Near(s, x) => NearNow(s, x)
    BY <1>2 DEF NearGrows
  <2>3. ASSUME NEW s \in Ids, NEW q \in Proc, Clearing(call[q], s, x)
        PROVE  NearNow(s, x) \/ ClearingNow(call'[q], s, x)
    <3>1. CASE q # p
      <4>1. PICK b : b = call[q]
        OBVIOUS
      <4>2. call'[q] = b /\ Clearing(b, s, x)
        BY <1>7, <2>3, <3>1, <4>1 DEF Server
      <4>3. b.by = x /\ (b.op = "chain" => b.text \in Ids' /\ texts'[b.text].first = texts'[s].first)
        BY <1>2, <4>2 DEF Clearing, Lineage, TextsAge
      <4>4. ClearingNow(b, s, x)
        BY <4>2, <4>3 DEF Clearing, ClearingNow
      <4>5. QED
        BY <4>2, <4>4
    <3>2. CASE q = p
      <4>1. Clearing(c, s, x)
        BY <2>3, <3>2 DEF c
      <4>2. c.by = x /\ c.text \in Lineage(s)
        BY <1>1, <4>1 DEF Clearing, c
      <4>3. PICK t : t = c.text
        OBVIOUS
      <4>4. t \in Ids /\ s \in Lineage(t) /\ Lineage(t) = Lineage(s)
        BY <4>2, <4>3 DEF Lineage
      <4>5. CASE \E v \in Lineage(s) : ~Exists(v)
        BY <2>2, <4>5 DEF Near
      <4>6. CASE \A v \in Lineage(s) : Exists(v)
        <5>1. Lineage(t) \subseteq TextChain(t)
          BY <4>4, <4>6, ChainIsWhole DEF RoutesInv, LeftInv
        <5>2. t \in Lineage(s)
          BY <4>2, <4>3
        <5>3. T = TextChain(t)
          BY <1>5, <4>3, <4>6, <5>2
        <5>4. s \in T
          BY <4>4, <5>1, <5>3
        <5>5. ClearingNow(d, s, x)
          BY <1>8, <4>2, <5>4 DEF ClearingNow
        <5>6. QED
          BY <1>7, <3>2, <5>5
      <4>7. QED
        BY <4>5, <4>6
    <3>3. QED
      BY <3>1, <3>2
  <2>4. QED
    BY <1>2, <1>3, <2>1, <2>2, <2>3, RowAges
<1>10. ASSUME NEW i \in DOMAIN events' PROVE ToNow(i)
  BY <1>1, <1>2, <1>3, ToStays
<1>11. QED
  BY <1>2, <1>9, <1>10, LeftNow

\* An event of which u is owed nothing, or whose rows of u's are kept.
LEMMA ForgottenAges ==
  ASSUME NEW e \in EventRec, NEW u
  PROVE  /\ Aged(e, [e EXCEPT !.owed = @ \ {u}]) /\ [e EXCEPT !.owed = @ \ {u}].to = e.to
         /\ Aged(e, [e EXCEPT !.kept = @ \cup {u}]) /\ [e EXCEPT !.kept = @ \cup {u}].to = e.to
         /\ Excused([e EXCEPT !.kept = @ \cup {u}], u)
         /\ Aged(e, [e EXCEPT !.owed = @ \ {u}, !.kept = @ \cup {u}])
         /\ [e EXCEPT !.owed = @ \ {u}, !.kept = @ \cup {u}].to = e.to
         /\ Excused([e EXCEPT !.owed = @ \ {u}, !.kept = @ \cup {u}], u)
<1> DEFINE f == [e EXCEPT !.owed = @ \ {u}]
           g == [e EXCEPT !.kept = @ \cup {u}]
           h == [e EXCEPT !.owed = @ \ {u}, !.kept = @ \cup {u}]
<1>1. /\ f.text = e.text /\ f.left = e.left /\ f.kept = e.kept /\ f.saved = e.saved /\ f.to = e.to
      /\ g.text = e.text /\ g.left = e.left /\ g.kept = e.kept \cup {u} /\ g.saved = e.saved /\ g.to = e.to
      /\ h.text = e.text /\ h.left = e.left /\ h.kept = e.kept \cup {u} /\ h.saved = e.saved /\ h.to = e.to
  BY DEF EventRec
<1> HIDE DEF f, g, h
<1>2. /\ Aged(e, f) /\ f.to = e.to /\ Aged(e, g) /\ g.to = e.to /\ Excused(g, u)
      /\ Aged(e, h) /\ h.to = e.to /\ Excused(h, u)
  BY <1>1 DEF Aged, Excused
<1>3. QED
  BY <1>2 DEF f, g, h

LEMMA ForgetNotificationsLeft ==
  ASSUME RoutesInv, LeftInv, NEW p \in Server, ForgetNotifications(p)
  PROVE  LeftInv'
<1> DEFINE u == call[p].by
           T == call[p].texts
           about == {i \in DOMAIN events : events[i].text \in T}
<1>1. /\ call[p].op = "forget" /\ Becomes(p, NoCall) /\ texts' = texts /\ follows' = follows
      /\ \/ /\ inbox' = [inbox EXCEPT ![u] = {row \in @ : row.event \notin about}]
            /\ events' = [i \in DOMAIN events |->
                 IF i \in about THEN [events[i] EXCEPT !.owed = @ \ {u}] ELSE events[i]]
         \/ /\ inbox' = inbox
            /\ events' = [i \in DOMAIN events |->
                 IF i \in about THEN [events[i] EXCEPT !.kept = @ \cup {u}] ELSE events[i]]
  BY DEF ForgetNotifications, At, Returns, store
<1>2. LinksOK' /\ TextsAge /\ NearGrows
  BY <1>1, LinksStay, NearStays DEF LeftInv
<1>3. DOMAIN call = Server /\ DOMAIN inbox = User /\ \A i \in DOMAIN events : events[i] \in EventRec
  BY EventIs DEF RoutesInv, CallsOK, InboxOK
<1>4. \A q \in Server : q # p => call'[q] = call[q]
  BY <1>1, <1>3 DEF Becomes
<1>5. ASSUME NEW i \in DOMAIN events
      PROVE  Aged(events[i], events'[i]) /\ events'[i].to = events[i].to
  <2>1. PICK e \in EventRec : e = events[i]
    BY <1>3
  <2>2. PICK v : v = u
    OBVIOUS
  <2>3. PICK f, g : f = [e EXCEPT !.owed = @ \ {v}] /\ g = [e EXCEPT !.kept = @ \cup {v}]
    OBVIOUS
  <2>4. events'[i] = e \/ events'[i] = f \/ events'[i] = g
    BY <1>1, <2>1, <2>2, <2>3
  <2>5. Aged(e, f) /\ f.to = e.to /\ Aged(e, g) /\ g.to = e.to
    BY <2>3, ForgottenAges
  <2>a. Aged(e, e)
    BY DEF Aged
  <2>b. Aged(e, events'[i]) /\ events'[i].to = e.to
    <3>1. PICK h : h = events'[i]
      OBVIOUS
    <3>2. Aged(e, h) /\ h.to = e.to
      BY <2>4, <2>5, <2>a, <3>1
    <3>3. QED
      BY <3>1, <3>2
  <2>6. QED
    BY <2>1, <2>b
<1>6. DOMAIN events' = DOMAIN events
  BY <1>1
<1>7. EventsAge
  BY <1>5, <1>6 DEF EventsAge
<1>8. ASSUME NEW x \in User, NEW row \in inbox'[x] PROVE RowNow(row, x)
  <2>1. row \in inbox[x]
    BY <1>1, <1>3
  <2>2. \A s \in Ids : Near(s, x) => NearNow(s, x)
    BY <1>2 DEF NearGrows
  <2>3. row.event \in DOMAIN events
    BY <2>1 DEF RoutesInv, InboxOK, RowsOK
  <2>4. ASSUME NEW s \in Ids, NEW q \in Proc, s = events[row.event].text, Clearing(call[q], s, x)
        PROVE  NearNow(s, x) \/ Excused(events'[row.event], x) \/ ClearingNow(call'[q], s, x)
    <3>1. CASE q # p
      <4>1. PICK b : b = call[q]
        OBVIOUS
      <4>2. call'[q] = b /\ Clearing(b, s, x)
        BY <1>4, <2>4, <3>1, <4>1 DEF Server
      <4>3. b.by = x /\ (b.op = "chain" => b.text \in Ids' /\ texts'[b.text].first = texts'[s].first)
        BY <1>2, <4>2 DEF Clearing, Lineage, TextsAge
      <4>4. ClearingNow(b, s, x)
        BY <4>2, <4>3 DEF Clearing, ClearingNow
      <4>5. QED
        BY <4>2, <4>4
    <3>2. CASE q = p
      <4>1. u = x /\ s \in T
        <5>1. PICK b : b = call[p]
          OBVIOUS
        <5>2. Clearing(b, s, x) /\ b.op = "forget"
          BY <1>1, <2>4, <3>2, <5>1
        <5>3. b.by = x /\ s \in b.texts
          BY <5>2 DEF Clearing
        <5>4. QED
          BY <5>1, <5>3
      <4>2. row.event \in about
        BY <2>3, <2>4, <4>1
      <4>3. CASE inbox' = [inbox EXCEPT ![u] = {r \in @ : r.event \notin about}]
        <5>1. row.event \notin about
          BY <1>3, <1>8, <4>1, <4>3
        <5>2. QED
          BY <4>2, <5>1
      <4>4. CASE events' = [i \in DOMAIN events |->
                   IF i \in about THEN [events[i] EXCEPT !.kept = @ \cup {u}] ELSE events[i]]
        <5>1. PICK e \in EventRec : e = events[row.event]
          BY <1>3, <2>3
        <5>2. events'[row.event] = [e EXCEPT !.kept = @ \cup {x}]
          BY <2>3, <4>1, <4>2, <4>4, <5>1
        <5>3. Excused([e EXCEPT !.kept = @ \cup {x}], x)
          BY ForgottenAges
        <5>4. QED
          BY <5>2, <5>3
      <4>5. QED
        BY <1>1, <4>3, <4>4
    <3>3. QED
      BY <3>1, <3>2
  <2>5. QED
    BY <1>2, <1>7, <2>1, <2>2, <2>4, RowAges
<1>9. ASSUME NEW i \in DOMAIN events' PROVE ToNow(i)
  <2>1. i \in DOMAIN events /\ events'[i].to \subseteq events[i].to
    BY <1>5, <1>6
  <2>2. QED
    BY <1>2, <1>7, <2>1, ToStays
<1>10. QED
  BY <1>2, <1>8, <1>9, LeftNow

\* With an account its subscriptions go; its rows stay until it is deleted.
LEMMA DeleteUserSubscriptionsLeft ==
  ASSUME RoutesInv, LeftInv, NEW p \in Server, DeleteUserSubscriptions(p)
  PROVE  LeftInv'
<1>1. PICK u : /\ \A w \in follows : w[1] # u => w \in follows'
               /\ texts' = texts /\ inbox' = inbox
               /\ call[p].op = "unfollow" /\ \E c : Becomes(p, c)
               /\ events' = [i \in DOMAIN events |-> [events[i] EXCEPT !.owed = @ \ {u}, !.kept = @ \cup {u}]]
  BY UnfollowIs DEF tables, owners
<1>2. LinksOK' /\ TextsAge
  BY <1>1, LinksStay DEF LeftInv
<1>3. ClearingWaits
  BY <1>1, CallMoves
<1>4. ASSUME NEW i \in DOMAIN events
      PROVE  Aged(events[i], events'[i]) /\ events'[i].to = events[i].to /\ Excused(events'[i], u)
  <2>1. PICK e \in EventRec : e = events[i]
    BY EventIs DEF RoutesInv
  <2>2. PICK f : f = [e EXCEPT !.owed = @ \ {u}, !.kept = @ \cup {u}]
    OBVIOUS
  <2>3. Aged(e, f) /\ f.to = e.to /\ Excused(f, u)
    BY <2>2, ForgottenAges
  <2>4. events'[i] = f
    BY <1>1, <2>1, <2>2
  <2>5. QED
    BY <2>1, <2>3, <2>4
<1>5. DOMAIN events' = DOMAIN events /\ EventsAge
  BY <1>1, <1>4 DEF EventsAge
<1>6. ASSUME NEW s \in Ids, NEW x, x # u, Near(s, x) PROVE NearNow(s, x)
  <2>1. PICK v \in Lineage(s) : <<x, v>> \in follows \/ ~Exists(v)
    BY <1>6 DEF Near
  <2>2. v \in Ids /\ v \in Ids' /\ texts'[v].first = texts'[s].first
    BY <1>2 DEF Lineage, TextsAge
  <2>3. CASE ~Exists(v)
    BY <1>2, <2>2, <2>3 DEF TextsAge, Exists, NearNow
  <2>4. CASE <<x, v>> \in follows
    <3>1. <<x, v>>[1] = x
      OBVIOUS
    <3>2. <<x, v>> \in follows'
      BY <1>1, <1>6, <2>4, <3>1
    <3>3. QED
      BY <2>2, <3>2 DEF NearNow
  <2>5. QED
    BY <2>1, <2>3, <2>4
<1>7. ASSUME NEW x \in User, NEW row \in inbox'[x] PROVE RowNow(row, x)
  <2>1. row \in inbox[x] /\ row.event \in DOMAIN events
    BY <1>1 DEF RoutesInv, InboxOK, RowsOK
  <2>2. CASE x = u
    BY <1>4, <2>1, <2>2 DEF RowNow
  <2>3. CASE x # u
    <3>1. \A s \in Ids : Near(s, x) => NearNow(s, x)
      BY <1>6, <2>3
    <3>2. \A s \in Ids, q \in Proc : Clearing(call[q], s, x) => ClearingNow(call'[q], s, x)
      BY <1>2, <1>3, ClearingStays
    <3>3. QED
      BY <1>2, <1>5, <2>1, <3>1, <3>2, RowAges
  <2>4. QED
    BY <2>2, <2>3
<1>8. ASSUME NEW i \in DOMAIN events' PROVE ToNow(i)
  <2>1. SUFFICES ASSUME NEW x \in events'[i].to
        PROVE  events'[i].saved \/ NearNow(events'[i].text, x) \/ Excused(events'[i], x)
    BY DEF ToNow
  <2>2. CASE x = u
    BY <1>4, <1>5, <2>2
  <2>3. CASE x # u
    <3>1. PICK s : s = events[i].text
      OBVIOUS
    <3>2. s \in Ids /\ x \in events[i].to
      <4>1. events[i].text \in Ids
        BY <1>5, EventIs DEF RoutesInv
      <4>2. QED
        BY <1>4, <1>5, <2>1, <3>1, <4>1
    <3>3. /\ events'[i].text = s /\ (Excused(events[i], x) => Excused(events'[i], x))
          /\ (events[i].saved => events'[i].saved)
      BY <1>4, <1>5, <3>1 DEF Aged, Excused
    <3>4. events[i].saved \/ Near(s, x) \/ Excused(events[i], x)
      BY <1>5, <3>1, <3>2 DEF LeftInv, ToLeft
    <3>5. QED
      BY <1>6, <2>3, <3>2, <3>3, <3>4
  <2>4. QED
    BY <2>2, <2>3
<1>9. QED
  BY <1>2, <1>7, <1>8, LeftNow

-----------------------------------------------------------------------------
LEMMA LeftInit ==
  ASSUME Init
  PROVE  LeftInv
<1>1. Ids = {} /\ DOMAIN events = {} /\ \A u \in User : inbox[u] = {}
  BY DEF Init, Ids
<1>2. QED
  BY <1>1 DEF LeftInv, LinksOK, RowsLeft, ToLeft

LEMMA ServesLeft ==
  ASSUME RoutesInv, LeftInv, NEW p \in Server, Serves(p)
  PROVE  LeftInv'
BY IdleLeft, ProposeEditLeft, CloseRoundLeft, IndexForkLeft, PruneSupersededLeft, ScheduleCloseLeft,
   ReadChainLeft, ForgetNotificationsLeft, DeleteTextLeft, DeleteTextHalfwayLeft,
   DeleteUserSubscriptionsLeft, DeleteRowLeft
   DEF Serves

LEMMA AsksLeft ==
  ASSUME RoutesInv, LeftInv, NEW p \in Proc, NEW u \in User, Asks(p, u)
  PROVE  LeftInv'
<1>1. CASE CreateText(p, u)
  BY <1>1, CreateTextLeft
<1>2. CASE DeleteUser(p, u)
  BY <1>2, DeleteUserLeft
<1>3. ASSUME NEW t \in Ids, Unsubscribe(p, u, t) PROVE LeftInv'
  BY <1>3, UnsubscribeLeft
<1>4. ASSUME NEW t \in Ids, \/ ProposeEditGate(p, u, t) \/ CloseRoundGate(p, u, t)
                            \/ ScheduleCloseGate(p, u, t) \/ DeleteTextGate(p, u, t)
      PROVE  LeftInv'
  BY <1>4, GateLeft DEF ProposeEditGate, CloseRoundGate, ScheduleCloseGate, DeleteTextGate
<1>5. QED
  BY <1>1, <1>2, <1>3, <1>4 DEF Asks

LEMMA DeliversLeft ==
  ASSUME RoutesInv, LeftInv, NEW i \in DOMAIN events, Delivers(i)
  PROVE  LeftInv'
<1>1. ASSUME NEW d, Push(i, d) \/ PushUnregistered(i, d) PROVE LeftInv'
  BY <1>1, PushLeft
<1>2. QED
  BY <1>1, ResolveVoteLeft, RecipientsLeft, AddressesLeft, SaveNotificationsLeft, DeliveryFailsLeft
     DEF Delivers

\* Whoever has left a text keeps no entries about it, however many versions it
\* has had and however departures, closes, deliveries and deletions overlap: a
\* row belongs to a follower of some version, or a request is about to clear
\* it, and the chain that the request reads holds every version as long as
\* none was deleted (LeftMeansLeft).
THEOREM LeavingClears == Spec => []LeftMeansLeft
<1>1. Init => LeftInv
  BY LeftInit
<1>2. RoutesInv /\ LeftInv /\ [Next]_vars => LeftInv'
  <2> SUFFICES ASSUME RoutesInv, LeftInv, [Next]_vars PROVE LeftInv'
    OBVIOUS
  <2>1. ASSUME NEW p \in Proc \cup {Worker}, Serves(p) PROVE LeftInv'
    BY <2>1, ServesLeft DEF Server
  <2>2. ASSUME NEW p \in Proc, NEW u \in User, Asks(p, u) PROVE LeftInv'
    BY <2>2, AsksLeft
  <2>3. ASSUME NEW u \in User, Does(u) PROVE LeftInv'
    BY <2>3, DoesLeft
  <2>4. ASSUME NEW p \in Proc, NEW d \in Device, SignOut(p, d) PROVE LeftInv'
    BY <2>4, SignOutLeft
  <2>5. CASE Tick \/ CloseDue
    BY <2>5, WorkerLeft
  <2>6. ASSUME NEW i \in DOMAIN events, Delivers(i) PROVE LeftInv'
    BY <2>6, DeliversLeft
  <2>7. CASE UNCHANGED vars
    <3>1. UNCHANGED <<texts, follows, events, inbox, call>>
      BY <2>7 DEF vars, store, tables, owners
    <3>2. ClearingWaits /\ RowsFewer
      BY <3>1 DEF ClearingWaits, RowsFewer
    <3>3. QED
      BY <3>1, <3>2, LeftIdle
  <2>8. QED
    BY <2>1, <2>2, <2>3, <2>4, <2>5, <2>6, <2>7 DEF Next
<1>3. LeftInv => LeftMeansLeft
  <2> SUFFICES ASSUME LeftInv, NEW u \in User, NEW row \in inbox[u]
               PROVE  \/ \E v \in Lineage(events[row.event].text) : <<u, v>> \in follows \/ ~Exists(v)
                      \/ u \in events[row.event].left \cup events[row.event].kept
                      \/ Serving(u)
    BY DEF LeftMeansLeft
  <2>1. \/ Near(events[row.event].text, u) \/ Excused(events[row.event], u)
        \/ \E p \in Proc : Clearing(call[p], events[row.event].text, u)
    BY DEF LeftInv, RowsLeft
  <2>2. QED
    BY <2>1 DEF Near, Excused, Clearing, Serving
<1>4. QED
  BY <1>1, <1>2, <1>3, RoutesSafety, PTL DEF Spec
=============================================================================
