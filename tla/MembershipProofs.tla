-------------------------- MODULE MembershipProofs --------------------------
(***************************************************************************)
(* Proofs about Membership for every set of nodes, every choice of seeds    *)
(* and any number of starts, crashes and faults: views only move forward,   *)
(* and a restarted node outranks every verdict about its earlier lives.     *)
(***************************************************************************)
EXTENDS Membership, TLAPS

\* A merged view is a view.
LEMMA MergeType ==
  ASSUME NEW a \in Views, NEW b \in Views
  PROVE  Merge(a, b) \in Views
BY DEF Merge, Views

\* Each entry of a merged view is one of the two entries merged.
LEMMA MergeEntry ==
  ASSUME NEW a \in Views, NEW b \in Views, NEW x \in Node
  PROVE  Merge(a, b)[x] = a[x] \/ Merge(a, b)[x] = b[x]
BY DEF Merge, Views

\* Merging loses nothing: the result is at least as new as what was held.
LEMMA MergeForward ==
  ASSUME NEW a \in Views, NEW b \in Views, NEW x \in Node
  PROVE  AtLeast(Merge(a, b)[x], a[x])
BY DEF Merge, Views, AtLeast, Known

\* A verdict is newer than the entry it replaces.
LEMMA VerdictForward ==
  ASSUME NEW m \in Member, NEW now \in Nat
  PROVE  /\ Verdict(m, now) \in Member
         /\ AtLeast(Verdict(m, now), m)
         /\ Verdict(m, now).status = "dead"
         /\ m.inc < now => Verdict(m, now).inc <= now
<1>1. m.status \in {"unknown", "alive", "dead"} /\ m.inc \in Nat
  BY DEF Member
<1>2. CASE Known(m)
  <2>1. Verdict(m, now) = [status |-> "dead", inc |-> m.inc + 1]
    BY <1>2 DEF Verdict
  <2>2. m.inc + 1 \in Nat /\ m.inc + 1 > m.inc /\ (m.inc < now => m.inc + 1 <= now)
    BY <1>1
  <2>. QED  BY <2>1, <2>2, <1>1 DEF Member, AtLeast, IsNewer, Known
<1>3. CASE ~Known(m)
  <2>1. Verdict(m, now) = [status |-> "dead", inc |-> now]
    BY <1>3 DEF Verdict
  <2>. QED  BY <2>1, <1>3 DEF Member, AtLeast
<1>. QED  BY <1>2, <1>3

LEMMA EmptyViewType == EmptyView \in Views /\ \A x \in Node : EmptyView[x] = Unknown
BY DEF EmptyView, Views, Unknown, Member

\* What the invariant says of one view, given the starts and the time.
SoundAt(v, starts, time) ==
  \A x \in Node : /\ v[x].status = "alive" => v[x].inc <= starts[x]
                  /\ v[x].inc <= time

\* Every view that is held or under way is sound.
ViewsSound ==
  /\ \A n \in Node : /\ SoundAt(view[n], started, clock)
                     /\ SoundAt(call[n].view, started, clock)
  /\ \A q \in stray : SoundAt(q.view, started, clock)

\* The conjuncts of the invariant about views, one view at a time.
LEMMA InvByView ==
  LifeIsNotForged /\ IncarnationsBehindClock <=> ViewsSound
BY DEF LifeIsNotForged, IncarnationsBehindClock, Incarnations, SoundAt, ViewsSound

\* A view stays sound while the clock and the starts move on.
LEMMA SoundLater ==
  ASSUME NEW v \in Views, NEW s \in [Node -> Nat], NEW s2 \in [Node -> Nat],
         NEW c \in Nat, NEW c2 \in Nat,
         SoundAt(v, s, c), c <= c2, \A x \in Node : s[x] <= s2[x]
  PROVE  SoundAt(v, s2, c2)
<1>. SUFFICES ASSUME NEW x \in Node
     PROVE  /\ v[x].status = "alive" => v[x].inc <= s2[x]
            /\ v[x].inc <= c2
  BY DEF SoundAt
<1>1. v[x].inc \in Nat /\ s[x] \in Nat /\ s2[x] \in Nat
  BY DEF Views, Member
<1>. QED  BY <1>1 DEF SoundAt

\* The merge of two sound views is sound.
LEMMA SoundMerge ==
  ASSUME NEW a \in Views, NEW b \in Views, NEW s, NEW c, SoundAt(a, s, c), SoundAt(b, s, c)
  PROVE  SoundAt(Merge(a, b), s, c)
BY MergeEntry DEF SoundAt

\* The empty view is sound.
LEMMA SoundEmpty ==
  ASSUME NEW s \in [Node -> Nat], NEW c \in Nat
  PROVE  SoundAt(EmptyView, s, c)
BY EmptyViewType DEF SoundAt, Unknown

\* The types of the parts of an exchange.
LEMMA CallTypes ==
  ASSUME TypeOK, NEW n \in Node
  PROVE  /\ view[n] \in Views
         /\ call[n].view \in Views
         /\ call[n].peer \in Nat
         /\ call[n].phase \in {"none", "request", "broken", "reply"}
         /\ call[n] = [phase |-> call[n].phase, peer |-> call[n].peer, view |-> call[n].view]
BY DEF TypeOK

\* A new process's view: the node alone, alive.
LEMMA NewMembershipType ==
  ASSUME TypeOK, NEW n \in Node
  PROVE  /\ NewMembership(n) \in Views
         /\ NewMembership(n)[n] = [status |-> "alive", inc |-> clock + 1]
         /\ \A x \in Node \ {n} : NewMembership(n)[x] = Unknown
BY DEF TypeOK, NewMembership, Views, Unknown, Member

Call == [phase: {"none", "request", "broken", "reply"}, peer: Nat, view: Views]

\* No exchange, and a new one, are exchanges.
LEMMA CallsAreCalls ==
  /\ NoCall \in Call /\ NoCall.phase = "none" /\ NoCall.view = EmptyView
  /\ \A p \in Node, v \in Views :
       Exchange(p, v) \in Call /\ Exchange(p, v).peer = p /\ Exchange(p, v).view = v
BY EmptyViewType, NodeAssumption DEF NoCall, Exchange, Call

\* A request left behind carries the view its sender was sending.
LEMMA LeftBehindFacts ==
  ASSUME TypeOK, NEW n \in Node
  PROVE  /\ LeftBehind(n) \subseteq [peer: Node, view: Views]
         /\ \A q \in LeftBehind(n) : q \in stray \/ q.view = call[n].view
<1>1. call[n].phase = "request" => call[n].peer \in Node /\ call[n].view \in Views
  BY DEF TypeOK
<1>. QED  BY <1>1 DEF LeftBehind, TypeOK

\* The initial state satisfies the invariant.
LEMMA InitInv == Init => IndInv
<1>. SUFFICES ASSUME Init PROVE IndInv
  OBVIOUS
<1>1. TypeOK
  BY EmptyViewType, CallsAreCalls DEF Init, TypeOK, Call
<1>2. started \in [Node -> Nat] /\ clock \in Nat /\ StartsBehindClock
  BY DEF Init, StartsBehindClock
<1>3. ViewsSound
  BY <1>2, SoundEmpty, CallsAreCalls DEF Init, ViewsSound
<1>. QED  BY <1>1, <1>2, <1>3, InvByView DEF IndInv

\* A step that changes views and exchanges, soundly, preserves the invariant.
LEMMA ByParts ==
  ASSUME TypeOK', ViewsSound', StartsBehindClock'
  PROVE  IndInv'
BY InvByView, PTL DEF IndInv

\* The start of a process gives its node an incarnation above all others.
LEMMA StartInv ==
  ASSUME IndInv, NEW n \in Node, Start(n)
  PROVE  IndInv'
<1>1. TypeOK /\ ViewsSound /\ StartsBehindClock
  BY InvByView DEF IndInv
<1>2. clock \in Nat /\ started \in [Node -> Nat]
  BY <1>1 DEF TypeOK
<1>3. clock' = clock + 1 /\ started' = [started EXCEPT ![n] = clock + 1]
  <2>1. clock' = clock + 1 /\ started' = [started EXCEPT ![n] = NewMembership(n)[n].inc]
    BY DEF Start
  <2>2. NewMembership(n)[n].inc = clock + 1
    BY <1>1, NewMembershipType
  <2>. QED  BY <2>1, <2>2
<1>4. clock' \in Nat /\ started' \in [Node -> Nat] /\ clock <= clock'
        /\ \A x \in Node : started[x] <= started'[x] /\ started'[x] <= clock'
  <2>1. clock + 1 \in Nat /\ clock <= clock + 1
    BY <1>2
  <2>2. started' \in [Node -> Nat]
    BY <1>2, <1>3, <2>1
  <2>3. ASSUME NEW x \in Node
        PROVE  started[x] <= started'[x] /\ started'[x] <= clock + 1
    <3>1. started[x] \in Nat /\ started[x] <= clock
      BY <1>1, <1>2 DEF StartsBehindClock
    <3>2. started'[x] = started[x] \/ started'[x] = clock + 1
      BY <1>2, <1>3
    <3>. QED  BY <1>2, <3>1, <3>2
  <2>. QED  BY <1>3, <2>1, <2>2, <2>3
<1>5. view' = [view EXCEPT ![n] = NewMembership(n)] /\ NewMembership(n) \in Views
  BY <1>1, NewMembershipType DEF Start
<1>6. /\ call' \in [Node -> Call]
      /\ \A m \in Node : call'[m] = call[m] \/ (m = n /\ call'[m] = Exchange(Seed[n], NewMembership(n)))
  <2>1. call \in [Node -> Call]
    BY <1>1 DEF TypeOK, Call
  <2>2. Exchange(Seed[n], NewMembership(n)) \in Call
    BY <1>5, CallsAreCalls, SeedAssumption
  <2>3. call' = call \/ call' = [call EXCEPT ![n] = Exchange(Seed[n], NewMembership(n))]
    BY DEF Start
  <2>. QED  BY <2>1, <2>2, <2>3
<1>7. TypeOK'
  <2>1. view' \in [Node -> Views]
    BY <1>1, <1>5 DEF TypeOK
  <2>2. proc' \in [Node -> {"down", "joining", "joined", "serving"}]
    BY <1>1, Zenon DEF Start, TypeOK
  <2>3. used' \in [Kinds -> Nat]
    BY <1>1 DEF Start, TypeOK, Kinds
  <2>4. \A m \in Node : call'[m].phase # "none" => call'[m].peer \in Node
    <3>1. Exchange(Seed[n], NewMembership(n)).peer \in Node
      BY <1>5, CallsAreCalls, SeedAssumption
    <3>. QED  BY <1>1, <1>6, <3>1 DEF TypeOK
  <2>5. stray' = stray
    BY DEF Start
  <2>. QED  BY <1>1, <1>4, <1>6, <2>1, <2>2, <2>3, <2>4, <2>5 DEF TypeOK, Call
<1>8. SoundAt(NewMembership(n), started', clock')
  <2>1. ASSUME NEW x \in Node \ {n}
        PROVE  NewMembership(n)[x].status # "alive" /\ NewMembership(n)[x].inc = 0
    BY <1>1, NewMembershipType DEF Unknown
  <2>2. NewMembership(n)[n].inc = clock + 1
    BY <1>1, NewMembershipType
  <2>3. started'[n] = clock + 1
    BY <1>2, <1>3
  <2>. QED  BY <1>2, <1>3, <1>4, <2>1, <2>2, <2>3 DEF SoundAt
<1>9. ViewsSound'
  <2>0. ASSUME NEW q \in stray'  PROVE SoundAt(q.view, started', clock')
    <3>1. q \in stray
      BY DEF Start
    <3>2. SoundAt(q.view, started, clock) /\ q.view \in Views
      BY <1>1, <3>1 DEF ViewsSound, TypeOK
    <3>. QED  BY <3>2, <1>2, <1>4, SoundLater
  <2>. SUFFICES ASSUME NEW m \in Node
       PROVE  SoundAt(view'[m], started', clock') /\ SoundAt(call'[m].view, started', clock')
    BY <2>0 DEF ViewsSound
  <2>1. SoundAt(view[m], started', clock') /\ SoundAt(call[m].view, started', clock')
    <3>1. SoundAt(view[m], started, clock) /\ SoundAt(call[m].view, started, clock)
      BY <1>1 DEF ViewsSound
    <3>2. view[m] \in Views /\ call[m].view \in Views
      BY <1>1, CallTypes
    <3>. QED  BY <3>1, <3>2, <1>2, <1>4, SoundLater
  <2>2. view'[m] = view[m] \/ view'[m] = NewMembership(n)
    BY <1>1, <1>5 DEF TypeOK
  <2>3. call'[m].view = call[m].view \/ call'[m].view = NewMembership(n)
    BY <1>5, <1>6, CallsAreCalls, SeedAssumption
  <2>. QED  BY <2>1, <2>2, <2>3, <1>8
<1>. QED  BY <1>4, <1>7, <1>9, ByParts DEF StartsBehindClock

\* A step that leaves the clock and the starts alone, and whose views and
\* exchanges were held, under way, merged or are empty, keeps the invariant.
LEMMA QuietStep ==
  ASSUME IndInv, TypeOK', clock' = clock, started' = started,
         \A m \in Node : /\ SoundAt(view'[m], started, clock)
                         /\ SoundAt(call'[m].view, started, clock),
         \A q \in stray' : SoundAt(q.view, started, clock)
  PROVE  IndInv'
<1>1. ViewsSound' /\ StartsBehindClock'
  BY DEF ViewsSound, IndInv, StartsBehindClock
<1>. QED  BY <1>1, ByParts

\* Beginning to serve changes no view.
LEMMA ServeInv ==
  ASSUME IndInv, NEW n \in Node, Serve(n)
  PROVE  IndInv'
<1>1. TypeOK /\ ViewsSound
  BY InvByView DEF IndInv
<1>2. TypeOK'
  BY <1>1 DEF Serve, TypeOK
<1>. QED  BY <1>1, <1>2, QuietStep DEF Serve, ViewsSound

\* A tick of the gossip loop sends the view held.
LEMMA GossipInv ==
  ASSUME IndInv, NEW n \in Node, NEW p \in Node, Gossip(n, p)
  PROVE  IndInv'
<1>1. TypeOK /\ ViewsSound /\ view[n] \in Views
  BY InvByView, CallTypes DEF IndInv
<1>2. call' = [call EXCEPT ![n] = Exchange(p, view[n])] /\ Exchange(p, view[n]) \in Call
  BY <1>1, CallsAreCalls DEF Gossip
<1>3. TypeOK'
  BY <1>1, <1>2, CallsAreCalls DEF Gossip, TypeOK, Call
<1>4. \A m \in Node : call'[m].view = call[m].view \/ call'[m].view = view[n]
  BY <1>1, <1>2, CallsAreCalls DEF TypeOK
<1>. QED  BY <1>1, <1>3, <1>4, QuietStep DEF Gossip, ViewsSound

\* The peer's merged view is sound, and so is the answer.
LEMMA HandleInv ==
  ASSUME IndInv, NEW n \in Node, HandleGossip(n)
  PROVE  IndInv'
<1>. DEFINE p == call[n].peer
            merged == Merge(view[p], call[n].view)
            answer == [phase |-> "reply", peer |-> p, view |-> merged]
<1>1. TypeOK /\ ViewsSound
  BY InvByView DEF IndInv
<1>2. p \in Node
  BY <1>1 DEF HandleGossip, TypeOK
<1>3. merged \in Views /\ SoundAt(merged, started, clock)
  BY <1>1, <1>2, CallTypes, MergeType, SoundMerge DEF ViewsSound
<1>4. view' = [view EXCEPT ![p] = merged] /\ call' = [call EXCEPT ![n] = answer]
  BY DEF HandleGossip
<1>. HIDE DEF merged
<1>5. answer \in Call /\ answer.view = merged
  BY <1>2, <1>3, NodeAssumption DEF Call
<1>6. TypeOK'
  BY <1>1, <1>2, <1>3, <1>4, <1>5 DEF HandleGossip, TypeOK, Call
<1>7. \A m \in Node : /\ view'[m] = view[m] \/ view'[m] = merged
                      /\ call'[m].view = call[m].view \/ call'[m].view = merged
  BY <1>1, <1>4, <1>5 DEF TypeOK
<1>. QED  BY <1>1, <1>3, <1>6, <1>7, QuietStep DEF HandleGossip, ViewsSound

\* So is the view merged for a sender that is gone.
LEMMA HandleStrayInv ==
  ASSUME IndInv, NEW q \in stray, HandleStray(q)
  PROVE  IndInv'
<1>. DEFINE p == q.peer
            merged == Merge(view[p], q.view)
<1>1. TypeOK /\ ViewsSound
  BY InvByView DEF IndInv
<1>2. p \in Node /\ q.view \in Views
  BY <1>1 DEF TypeOK
<1>3. merged \in Views /\ SoundAt(merged, started, clock)
  BY <1>1, <1>2, CallTypes, MergeType, SoundMerge DEF ViewsSound
<1>4. view' = [view EXCEPT ![p] = merged] /\ stray' = stray \ {q}
  BY DEF HandleStray
<1>. HIDE DEF merged, p
<1>5. TypeOK'
  BY <1>1, <1>2, <1>3, <1>4 DEF HandleStray, TypeOK
<1>6. \A m \in Node : view'[m] = view[m] \/ view'[m] = merged
  BY <1>1, <1>4 DEF TypeOK
<1>. QED  BY <1>1, <1>3, <1>4, <1>5, <1>6, QuietStep DEF HandleStray, ViewsSound

\* Merging the answer keeps the view sound.
LEMMA AnswerInv ==
  ASSUME IndInv, NEW n \in Node, Answer(n)
  PROVE  IndInv'
<1>. DEFINE merged == Merge(view[n], call[n].view)
<1>1. TypeOK /\ ViewsSound
  BY InvByView DEF IndInv
<1>2. merged \in Views /\ SoundAt(merged, started, clock)
  BY <1>1, CallTypes, MergeType, SoundMerge DEF ViewsSound
<1>3. view' = [view EXCEPT ![n] = merged] /\ call' = [call EXCEPT ![n] = NoCall]
  BY DEF Answer
<1>. HIDE DEF merged
<1>4. TypeOK'
  <2>1. proc' \in [Node -> {"down", "joining", "joined", "serving"}]
    BY <1>1 DEF Answer, TypeOK
  <2>. QED  BY <1>1, <1>2, <1>3, <2>1, CallsAreCalls DEF Answer, TypeOK, Call
<1>5. SoundAt(EmptyView, started, clock)
  BY <1>1, SoundEmpty DEF TypeOK
<1>6. \A m \in Node : /\ view'[m] = view[m] \/ view'[m] = merged
                      /\ call'[m].view = call[m].view \/ call'[m].view = EmptyView
  BY <1>1, <1>3, CallsAreCalls DEF TypeOK
<1>. QED  BY <1>1, <1>2, <1>4, <1>5, <1>6, QuietStep DEF Answer, ViewsSound

\* Leaving forgets the node's own view, and the empty view is sound.
LEMMA ExitFacts ==
  ASSUME IndInv, NEW n \in Node, Exit(n)
  PROVE  /\ proc' \in [Node -> {"down", "joining", "joined", "serving"}]
         /\ view' \in [Node -> Views]
         /\ \A m \in Node : view'[m] = view[m] \/ view'[m] = EmptyView
BY EmptyViewType DEF IndInv, TypeOK, Exit

\* A verdict and a process that gives up both keep the invariant.
LEMMA GiveUpInv ==
  ASSUME IndInv, NEW n \in Node, call[n].phase # "none", GiveUp(n),
         used' \in [Kinds -> Nat], stray' \subseteq LeftBehind(n)
  PROVE  IndInv'
<1>. DEFINE p == call[n].peer
            verdict == Verdict(view[n][p], clock + 1)
<1>1. TypeOK /\ ViewsSound /\ StartsBehindClock
  BY InvByView DEF IndInv
<1>2. p \in Node /\ clock \in Nat /\ clock + 1 \in Nat /\ started \in [Node -> Nat]
  BY <1>1 DEF TypeOK
<1>3. clock' = clock + 1 /\ started' = started /\ call' = [call EXCEPT ![n] = NoCall]
  BY DEF GiveUp
<1>4. verdict \in Member /\ verdict.status = "dead" /\ verdict.inc <= clock + 1
  <2>1. view[n][p] \in Member
    BY <1>1, <1>2 DEF TypeOK, Views
  <2>2. view[n][p].inc <= clock /\ view[n][p].inc \in Nat
    BY <1>1, <1>2, <2>1 DEF ViewsSound, SoundAt, Member
  <2>3. view[n][p].inc < clock + 1
    BY <1>2, <2>2
  <2>. QED  BY <1>2, <2>1, <2>3, VerdictForward
<1>5. Exit(n) \/ (view' = [view EXCEPT ![n][p] = verdict] /\ proc' = proc)
  BY DEF GiveUp
<1>. HIDE DEF verdict
<1>6. SoundAt(EmptyView, started, clock + 1)
  BY <1>2, SoundEmpty
<1>7. ASSUME NEW m \in Node
      PROVE  SoundAt(view[m], started, clock + 1) /\ SoundAt(call[m].view, started, clock + 1)
  <2>1. view[m] \in Views /\ call[m].view \in Views
    BY <1>1, CallTypes
  <2>2. SoundAt(view[m], started, clock) /\ SoundAt(call[m].view, started, clock)
    BY <1>1 DEF ViewsSound
  <2>3. clock <= clock + 1 /\ \A x \in Node : started[x] <= started[x]
    BY <1>2
  <2>. QED  BY <1>2, <2>1, <2>2, <2>3, SoundLater
<1>8. ASSUME NEW m \in Node
      PROVE  SoundAt(call'[m].view, started, clock + 1)
  BY <1>1, <1>3, <1>6, <1>7, CallsAreCalls DEF TypeOK
<1>9. /\ proc' \in [Node -> {"down", "joining", "joined", "serving"}]
      /\ view' \in [Node -> Views]
      /\ \A m \in Node : SoundAt(view'[m], started, clock + 1)
  <2>1. CASE Exit(n)
    BY <2>1, <1>6, <1>7, ExitFacts
  <2>2. CASE view' = [view EXCEPT ![n][p] = verdict] /\ proc' = proc
    <3>. DEFINE new == [view[n] EXCEPT ![p] = verdict]
    <3>1. view[n] \in Views /\ new \in Views /\ view' = [view EXCEPT ![n] = new]
      BY <1>1, <1>2, <1>4, <2>2 DEF TypeOK, Views
    <3>2. \A x \in Node : new[x] = view[n][x] \/ new[x] = verdict
      BY <3>1, <1>2 DEF Views
    <3>. HIDE DEF new
    <3>3. SoundAt(new, started, clock + 1)
      BY <3>2, <1>4, <1>7 DEF SoundAt
    <3>4. \A m \in Node : view'[m] = view[m] \/ view'[m] = new
      BY <1>1, <3>1 DEF TypeOK
    <3>. QED  BY <1>1, <1>7, <2>2, <3>1, <3>3, <3>4, ZenonT(40) DEF TypeOK
  <2>. QED  BY <1>5, <2>1, <2>2
<1>10. TypeOK'
  <2>1. call' \in [Node -> Call] /\ \A m \in Node : call'[m].phase # "none" => call'[m].peer \in Node
    BY <1>1, <1>3, CallsAreCalls DEF TypeOK, Call
  <2>2. stray' \subseteq [peer: Node, view: Views]
    BY <1>1, LeftBehindFacts
  <2>. QED  BY <1>2, <1>3, <1>9, <2>1, <2>2 DEF TypeOK, Call
<1>11. ViewsSound'
  <2>1. ASSUME NEW q \in stray'  PROVE SoundAt(q.view, started, clock + 1)
    <3>1. CASE q \in stray
      <4>1. q.view \in Views /\ SoundAt(q.view, started, clock)
        BY <1>1, <3>1 DEF TypeOK, ViewsSound
      <4>2. clock <= clock + 1 /\ \A x \in Node : started[x] <= started[x]
        BY <1>2
      <4>. QED  BY <1>2, <4>1, <4>2, SoundLater
    <3>2. CASE q.view = call[n].view
      BY <1>7, <3>2
    <3>. QED  BY <1>1, <3>1, <3>2, LeftBehindFacts
  <2>. QED  BY <1>3, <1>8, <1>9, <2>1 DEF ViewsSound
<1>12. StartsBehindClock'
  BY <1>1, <1>2, <1>3 DEF StartsBehindClock
<1>. QED  BY <1>10, <1>11, <1>12, ByParts

\* An answer that cannot be decoded changes no view but the one of a process
\* that gives up joining.
LEMMA GarbledInv ==
  ASSUME IndInv, NEW n \in Node, AnswerGarbled(n)
  PROVE  IndInv'
<1>1. TypeOK /\ ViewsSound
  BY InvByView DEF IndInv
<1>2. SoundAt(EmptyView, started, clock)
  BY <1>1, SoundEmpty DEF TypeOK
<1>3. call' = [call EXCEPT ![n] = NoCall] /\ clock' = clock /\ started' = started
  BY DEF AnswerGarbled
<1>4. /\ proc' \in [Node -> {"down", "joining", "joined", "serving"}]
      /\ view' \in [Node -> Views]
      /\ \A m \in Node : view'[m] = view[m] \/ view'[m] = EmptyView
  <2>1. Exit(n) \/ (proc' = proc /\ view' = view)
    BY DEF AnswerGarbled
  <2>. QED  BY <1>1, <2>1, ExitFacts DEF TypeOK
<1>5. /\ call' \in [Node -> Call]
      /\ \A m \in Node : /\ call'[m].phase # "none" => call'[m].peer \in Node
                         /\ call'[m].view = call[m].view \/ call'[m].view = EmptyView
  BY <1>1, <1>3, CallsAreCalls DEF TypeOK, Call
<1>6. used' \in [Kinds -> Nat]
  BY <1>1 DEF AnswerGarbled, Faulted, TypeOK, Kinds
<1>7. TypeOK'
  BY <1>1, <1>3, <1>4, <1>5, <1>6 DEF AnswerGarbled, TypeOK, Call
<1>8. stray' = stray
  BY DEF AnswerGarbled
<1>. QED  BY <1>1, <1>2, <1>3, <1>4, <1>5, <1>7, <1>8, QuietStep DEF ViewsSound

\* A crash only empties the crashed node's view, breaks exchanges and leaves its
\* own request behind.
LEMMA CrashInv ==
  ASSUME IndInv, NEW n \in Node, Crash(n)
  PROVE  IndInv'
<1>1. TypeOK /\ ViewsSound
  BY InvByView DEF IndInv
<1>2. SoundAt(EmptyView, started, clock)
  BY <1>1, SoundEmpty DEF TypeOK
<1>3. /\ proc' \in [Node -> {"down", "joining", "joined", "serving"}]
      /\ view' \in [Node -> Views]
      /\ \A m \in Node : view'[m] = view[m] \/ view'[m] = EmptyView
  BY ExitFacts DEF Crash
<1>4. ASSUME NEW m \in Node
      PROVE  /\ call'[m] \in Call
             /\ call'[m].phase # "none" => call'[m].peer \in Node
             /\ call'[m].view = call[m].view \/ call'[m].view = EmptyView
  <2>1. call[m] \in Call /\ (call[m].phase # "none" => call[m].peer \in Node)
    BY <1>1 DEF TypeOK, Call
  <2>2. \/ call'[m] = NoCall
        \/ call'[m] = call[m]
        \/ call[m].phase = "request" /\ call'[m] = [call[m] EXCEPT !.phase = "broken"]
    BY DEF Crash
  <2>. QED  BY <2>1, <2>2, CallsAreCalls DEF Call
<1>5. call' \in [Node -> Call]
  <2>1. call' = [m \in Node |-> call'[m]]
    BY DEF Crash
  <2>. QED  BY <1>4, <2>1
<1>6. used' \in [Kinds -> Nat]
  BY <1>1 DEF Crash, TypeOK, Kinds
<1>7. clock' = clock /\ started' = started
  BY DEF Crash
<1>8. /\ stray' \subseteq [peer: Node, view: Views]
      /\ \A q \in stray' : q \in stray \/ q.view = call[n].view
  BY <1>1, LeftBehindFacts DEF Crash
<1>9. TypeOK'
  <2>1. \A m \in Node : call'[m].phase # "none" => call'[m].peer \in Node
    BY <1>4
  <2>2. clock' \in Nat /\ started' \in [Node -> Nat]
    BY <1>1, <1>7 DEF TypeOK
  <2>. QED  BY <1>3, <1>5, <1>6, <1>8, <2>1, <2>2 DEF TypeOK, Call
<1>10. \A q \in stray' : SoundAt(q.view, started, clock)
  BY <1>1, <1>8 DEF ViewsSound
<1>. QED  BY <1>1, <1>2, <1>3, <1>4, <1>7, <1>9, <1>10, QuietStep DEF ViewsSound

\* Every step keeps the invariant.
LEMMA NextInv ==
  ASSUME IndInv, [Next]_vars
  PROVE  IndInv'
<1>1. CASE UNCHANGED vars
  BY <1>1 DEF vars, IndInv, TypeOK, LifeIsNotForged, IncarnationsBehindClock,
              Incarnations, StartsBehindClock
<1>2. ASSUME NEW n \in Node, GossipRefused(n)  PROVE IndInv'
  <2>1. stray' \subseteq LeftBehind(n)
    BY <1>2 DEF GossipRefused, LeftBehind
  <2>. QED  BY <1>2, <2>1, GiveUpInv DEF GossipRefused, Refused, IndInv, TypeOK
<1>3. ASSUME NEW n \in Node, GossipLost(n)  PROVE IndInv'
  <2>1. used' \in [Kinds -> Nat]
    BY <1>3 DEF GossipLost, Faulted, IndInv, TypeOK, Kinds
  <2>. QED  BY <1>3, <2>1, GiveUpInv DEF GossipLost, NetworkFault
<1>. QED
  BY <1>1, <1>2, <1>3, StartInv, ServeInv, GossipInv, HandleInv, HandleStrayInv, AnswerInv,
     GarbledInv, CrashInv
  DEF Next

(* The invariant holds: no incarnation that a node holds or has sent is     *)
(* ahead of the clock, and none that claims life ahead of its node's last   *)
(* start (NewMembership, merge, markDead).                                  *)
THEOREM MembershipInv == Spec => []IndInv
<1>1. Init => IndInv
  BY InitInv
<1>2. IndInv /\ [Next]_vars => IndInv'
  BY NextInv
<1>. QED  BY <1>1, <1>2, PTL DEF Spec

\* What RestartOutranks says of one step.
Outranks ==
  \A n \in Node : proc[n] = "down" /\ proc'[n] # "down" =>
    \A i \in Incarnations(n) : i < started'[n]

\* Only Start takes a process out of "down".
LEMMA OnlyStartRaises ==
  ASSUME IndInv, [Next]_vars, NEW n \in Node, proc[n] = "down", proc'[n] # "down"
  PROVE  Start(n)
<1>1. proc \in [Node -> {"down", "joining", "joined", "serving"}]
  BY DEF IndInv, TypeOK
<1>2. ASSUME NEW m \in Node, Start(m)  PROVE Start(n)
  BY <1>1, <1>2 DEF Start
<1>3. ASSUME NEW m \in Node, Serve(m)  PROVE FALSE
  BY <1>1, <1>3 DEF Serve
<1>4. ASSUME NEW m \in Node, Answer(m)  PROVE FALSE
  BY <1>1, <1>4 DEF Answer
<1>5. ASSUME NEW m \in Node, Exit(m)  PROVE FALSE
  BY <1>1, <1>5 DEF Exit
<1>6. ASSUME NEW m \in Node, GossipRefused(m) \/ GossipLost(m) \/ AnswerGarbled(m) \/ Crash(m)
      PROVE  FALSE
  BY <1>5, <1>6 DEF GossipRefused, GossipLost, GiveUp, AnswerGarbled, Crash
<1>7. ASSUME NEW m \in Node, NEW p \in Node, Gossip(m, p) \/ HandleGossip(m)  PROVE FALSE
  BY <1>7 DEF Gossip, HandleGossip
<1>8. CASE UNCHANGED vars
  BY <1>8 DEF vars
<1>9. ASSUME NEW q \in stray, HandleStray(q)  PROVE FALSE
  BY <1>9 DEF HandleStray
<1>. QED  BY <1>2, <1>3, <1>4, <1>6, <1>7, <1>8, <1>9 DEF Next

(* A restarted node's announcement outranks every verdict about its earlier *)
(* lives that any node holds or has under way (NewMembership, markDead).    *)
THEOREM RestartOutranksAll == Spec => RestartOutranks
<1>1. ASSUME IndInv, [Next]_vars  PROVE Outranks
  <2>. SUFFICES ASSUME NEW n \in Node, proc[n] = "down", proc'[n] # "down",
                       NEW i \in Incarnations(n)
       PROVE  i < started'[n]
    BY DEF Outranks
  <2>1. Start(n) /\ TypeOK
    BY <1>1, OnlyStartRaises DEF IndInv
  <2>2. started'[n] = clock + 1
    <3>1. started' = [started EXCEPT ![n] = NewMembership(n)[n].inc]
      BY <2>1 DEF Start
    <3>2. NewMembership(n)[n].inc = clock + 1
      BY <2>1, NewMembershipType
    <3>. QED  BY <2>1, <3>1, <3>2 DEF TypeOK
  <2>3. i <= clock
    BY <1>1 DEF IndInv, IncarnationsBehindClock
  <2>4. i \in Nat /\ clock \in Nat
    BY <2>1, CallTypes DEF Incarnations, TypeOK, Views, Member
  <2>. QED  BY <2>2, <2>3, <2>4
<1>2. IndInv /\ [Next]_vars => [Outranks]_vars
  BY <1>1
<1>3. RestartOutranks <=> [][Outranks]_vars
  BY DEF RestartOutranks, Outranks
<1>. QED  BY <1>2, <1>3, MembershipInv, PTL DEF Spec

\* What NewsNeverRegresses says of one step.
Forward ==
  \A n, x \in Node :
    proc[n] # "down" /\ proc'[n] # "down" => AtLeast(view'[n][x], view[n][x])

(* While a process runs, an entry of its view is only ever replaced by a    *)
(* newer one (merge, isNewer, markDead).                                    *)
THEOREM NewsOnlyMovesForward == Spec => NewsNeverRegresses
<1>1. ASSUME IndInv, [Next]_vars  PROVE Forward
  <2>. SUFFICES ASSUME NEW n \in Node, NEW x \in Node, proc[n] # "down", proc'[n] # "down"
       PROVE  AtLeast(view'[n][x], view[n][x])
    BY DEF Forward
  <2>1. TypeOK
    BY <1>1 DEF IndInv
  <2>2. proc \in [Node -> {"down", "joining", "joined", "serving"}] /\ view \in [Node -> Views]
    BY <2>1 DEF TypeOK
  <2>3. ASSUME view'[n] = view[n]  PROVE AtLeast(view'[n][x], view[n][x])
    BY <2>3 DEF AtLeast
  <2>4. ASSUME NEW m \in Node, Start(m)  PROVE view'[n] = view[n]
    BY <2>2, <2>4 DEF Start
  <2>5. ASSUME NEW m \in Node, NEW p \in Node, Serve(m) \/ Gossip(m, p)  PROVE view'[n] = view[n]
    BY <2>5 DEF Serve, Gossip
  <2>6. ASSUME NEW m \in Node, HandleGossip(m)  PROVE AtLeast(view'[n][x], view[n][x])
    <3>. DEFINE q == call[m].peer
                merged == Merge(view[q], call[m].view)
    <3>1. q \in Node
      BY <2>1, <2>6 DEF HandleGossip, TypeOK
    <3>2. AtLeast(merged[x], view[q][x])
      BY <2>1, <3>1, CallTypes, MergeForward
    <3>3. view' = [view EXCEPT ![q] = merged]
      BY <2>6 DEF HandleGossip
    <3>. HIDE DEF merged, q
    <3>4. view'[n] = view[n] \/ (n = q /\ view'[n] = merged)
      BY <2>2, <3>3
    <3>. QED  BY <2>3, <3>2, <3>4
  <2>13. ASSUME NEW r \in stray, HandleStray(r)  PROVE AtLeast(view'[n][x], view[n][x])
    <3>. DEFINE q == r.peer
                merged == Merge(view[q], r.view)
    <3>1. q \in Node /\ r.view \in Views
      BY <2>1, <2>13 DEF TypeOK
    <3>2. AtLeast(merged[x], view[q][x])
      BY <2>1, <3>1, CallTypes, MergeForward
    <3>3. view' = [view EXCEPT ![q] = merged]
      BY <2>13 DEF HandleStray
    <3>. HIDE DEF merged, q
    <3>4. view'[n] = view[n] \/ (n = q /\ view'[n] = merged)
      BY <2>2, <3>3
    <3>. QED  BY <2>3, <3>2, <3>4
  <2>7. ASSUME NEW m \in Node, Answer(m)  PROVE AtLeast(view'[n][x], view[n][x])
    <3>. DEFINE merged == Merge(view[m], call[m].view)
    <3>1. AtLeast(merged[x], view[m][x])
      BY <2>1, CallTypes, MergeForward
    <3>2. view' = [view EXCEPT ![m] = merged]
      BY <2>7 DEF Answer
    <3>. HIDE DEF merged
    <3>3. view'[n] = view[n] \/ (n = m /\ view'[n] = merged)
      BY <2>2, <3>2
    <3>. QED  BY <2>3, <3>1, <3>3
  <2>8. ASSUME NEW m \in Node, Exit(m)  PROVE view'[n] = view[n]
    BY <2>2, <2>8 DEF Exit
  <2>9. ASSUME NEW m \in Node, call[m].phase # "none", GiveUp(m)
        PROVE  AtLeast(view'[n][x], view[n][x])
    <3>. DEFINE p == call[m].peer
                verdict == Verdict(view[m][p], clock + 1)
    <3>1. CASE Exit(m)
      BY <3>1, <2>3, <2>8
    <3>2. CASE view' = [view EXCEPT ![m][p] = verdict]
      <4>1. p \in Node /\ view[m][p] \in Member /\ clock + 1 \in Nat
        BY <2>1, <2>9 DEF TypeOK, Views
      <4>2. AtLeast(verdict, view[m][p])
        BY <4>1, VerdictForward
      <4>. HIDE DEF verdict, p
      <4>3. view'[n][x] = view[n][x] \/ (n = m /\ x = p /\ view'[n][x] = verdict)
        BY <2>2, <3>2 DEF Views
      <4>4. AtLeast(view[n][x], view[n][x])
        BY DEF AtLeast
      <4>. QED  BY <4>2, <4>3, <4>4
    <3>. QED  BY <2>9, <3>1, <3>2 DEF GiveUp
  <2>10. ASSUME NEW m \in Node, AnswerGarbled(m) \/ Crash(m)  PROVE view'[n] = view[n]
    BY <2>8, <2>10 DEF AnswerGarbled, Crash
  <2>11. ASSUME NEW m \in Node, GossipRefused(m) \/ GossipLost(m)
         PROVE  AtLeast(view'[n][x], view[n][x])
    BY <2>9, <2>11 DEF GossipRefused, Refused, GossipLost, NetworkFault
  <2>12. CASE UNCHANGED vars
    BY <2>3, <2>12 DEF vars
  <2>. QED
    BY <1>1, <2>3, <2>4, <2>5, <2>6, <2>7, <2>10, <2>11, <2>12, <2>13 DEF Next
<1>2. IndInv /\ [Next]_vars => [Forward]_vars
  BY <1>1
<1>3. NewsNeverRegresses <=> [][Forward]_vars
  BY DEF NewsNeverRegresses, Forward
<1>. QED  BY <1>2, <1>3, MembershipInv, PTL DEF Spec
=============================================================================
