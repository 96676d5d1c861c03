----------------------------- MODULE Membership -----------------------------
(***************************************************************************)
(* Gossip membership of a queel cluster (queel/cluster/membership.go), the  *)
(* start of a node (queel/bootstrap, cmd/queeld) and the choice of the node *)
(* that runs the scheduled-close worker (scheduled_close.go).               *)
(*                                                                          *)
(* A node's process is down, joining (its handshake with the seed is under  *)
(* way), joined (its loops run, but it does not accept connections yet) or  *)
(* serving.  Each process has at most one exchange of views outstanding; a  *)
(* request whose sender crashed or gave up can still reach its peer.        *)
(* Incarnations are readings of one synchronised clock, which moves on with *)
(* every start of a process and every verdict.                              *)
(***************************************************************************)
EXTENDS Integers, FiniteSets, FiniteSetsExt

CONSTANTS
  Node,        \* node addresses, as their positions in the sort order
  Seed,        \* Seed[n]: the node that n joins through, or n itself: none
  MaxStarts,   \* how many times processes are started in all
  MaxCrashes,  \* how many processes crash
  MaxFaults    \* how many exchanges between two running nodes fail

ASSUME NodeAssumption == Node \subseteq Nat /\ IsFiniteSet(Node)
ASSUME SeedAssumption == Seed \in [Node -> Node]
ASSUME BoundsAssumption == MaxStarts \in Nat /\ MaxCrashes \in Nat /\ MaxFaults \in Nat

VARIABLES
  proc,     \* proc[n]: the state of n's process
  view,     \* view[n][x]: what n's Membership holds about x
  call,     \* call[n]: n's outstanding exchange
  stray,    \* requests that nobody waits for any more, not handled yet
  clock,    \* the time, and the largest incarnation given out
  started,  \* started[n]: the incarnation of n's latest process
  used      \* how many starts, crashes and faults there have been

vars == <<proc, view, call, stray, clock, started, used>>

Kinds == {"start", "crash", "fault"}

Member == [status: {"unknown", "alive", "dead"}, inc: Nat]

\* x is not a key of the members map.
Unknown == [status |-> "unknown", inc |-> 0]

Views == [Node -> Member]

EmptyView == [x \in Node |-> Unknown]

NoCall == [phase |-> "none", peer |-> 0, view |-> EmptyView]

TypeOK ==
  /\ proc \in [Node -> {"down", "joining", "joined", "serving"}]
  /\ view \in [Node -> Views]
  /\ call \in [Node -> [phase: {"none", "request", "broken", "reply"}, peer: Nat, view: Views]]
  /\ \A n \in Node : call[n].phase # "none" => call[n].peer \in Node
  /\ stray \subseteq [peer: Node, view: Views]
  /\ clock \in Nat
  /\ started \in [Node -> Nat]
  /\ used \in [Kinds -> Nat]

-----------------------------------------------------------------------------
(* The view and its merge.                                                  *)

Known(m) == m.status # "unknown"

IsNewer(candidate, current) ==
  \/ candidate.inc > current.inc
  \/ /\ candidate.inc = current.inc
     /\ candidate.status = "dead"
     /\ current.status = "alive"

\* Mutant: what the peer holds replaces what is held, newer or not.
MergeOverwrites(mine, theirs) ==
  [x \in Node |-> IF Known(theirs[x]) THEN theirs[x] ELSE mine[x]]

Merge(mine, theirs) ==
  [x \in Node |->
     IF Known(theirs[x]) /\ (~Known(mine[x]) \/ IsNewer(theirs[x], mine[x]))
       THEN theirs[x]
       ELSE mine[x]]

\* Mutant: the incarnation is raised and the status forgotten.
VerdictKeepsStatus(cur, now) ==
  IF Known(cur) THEN [cur EXCEPT !.inc = @ + 1] ELSE [status |-> "dead", inc |-> now]

\* The entry markDead writes over cur at time now.
Verdict(cur, now) ==
  [status |-> "dead", inc |-> IF Known(cur) THEN cur.inc + 1 ELSE now]

AliveNodes(n) == {x \in Node : view[n][x].status = "alive"}

\* Mutant: a node compares itself with the peers alive, not with its own status.
LeaderUnlessPeerFirst(n) == \A x \in AliveNodes(n) : n <= x

\* n is the first of its sorted AliveNodes.
IsScheduledCloseLeader(n) ==
  /\ n \in AliveNodes(n)
  /\ \A x \in AliveNodes(n) : n <= x

-----------------------------------------------------------------------------

Init ==
  /\ proc = [n \in Node |-> "down"]
  /\ view = [n \in Node |-> EmptyView]
  /\ call = [n \in Node |-> NoCall]
  /\ stray = {}
  /\ clock = 0
  /\ started = [n \in Node |-> 0]
  /\ used = [k \in Kinds |-> 0]

\* Mutant: the incarnation starts again from one instead of from the time.
NewMembershipAtOne(n) ==
  [x \in Node |-> IF x = n THEN [status |-> "alive", inc |-> 1] ELSE Unknown]

\* The view of a new process that starts at the next reading of the clock.
NewMembership(n) ==
  [x \in Node |-> IF x = n THEN [status |-> "alive", inc |-> clock + 1] ELSE Unknown]

\* Send this node's view to p and wait for p's.
Exchange(p, v) == [phase |-> "request", peer |-> p, view |-> v]

(* A process starts.  Without a seed it is a cluster of its own; with one it *)
(* first exchanges views with the seed.                                     *)
Start(n) ==
  /\ proc[n] = "down"
  /\ used["start"] < MaxStarts
  /\ used' = [used EXCEPT !["start"] = @ + 1]
  /\ clock' = clock + 1
  /\ started' = [started EXCEPT ![n] = NewMembership(n)[n].inc]
  /\ view' = [view EXCEPT ![n] = NewMembership(n)]
  /\ IF Seed[n] = n
       THEN /\ proc' = [proc EXCEPT ![n] = "joined"]
            /\ UNCHANGED call
       ELSE /\ proc' = [proc EXCEPT ![n] = "joining"]
            /\ call' = [call EXCEPT ![n] = Exchange(Seed[n], NewMembership(n))]
  /\ UNCHANGED stray

\* The process begins to accept connections: only after Join has returned.
Serve(n) ==
  /\ proc[n] = "joined"
  /\ proc' = [proc EXCEPT ![n] = "serving"]
  /\ UNCHANGED <<view, call, stray, clock, started, used>>

\* A tick of the gossip loop that picks p among the peers believed alive.
Gossip(n, p) ==
  /\ proc[n] \in {"joined", "serving"}
  /\ call[n].phase = "none"
  /\ p # n
  /\ p \in AliveNodes(n)
  /\ call' = [call EXCEPT ![n] = Exchange(p, view[n])]
  /\ UNCHANGED <<proc, view, stray, clock, started, used>>

\* Mutant: the peer answers with its view and ignores the caller's.
HandleGossipPullOnly(n) ==
  /\ call[n].phase = "request"
  /\ proc[call[n].peer] = "serving"
  /\ call' = [call EXCEPT ![n] =
       [phase |-> "reply", peer |-> call[n].peer, view |-> view[call[n].peer]]]
  /\ UNCHANGED <<proc, view, stray, clock, started, used>>

\* The peer of n's exchange merges n's view and answers with its own.
HandleGossip(n) ==
  LET p == call[n].peer
      merged == Merge(view[p], call[n].view)
  IN  /\ call[n].phase = "request"
      /\ proc[p] = "serving"
      /\ view' = [view EXCEPT ![p] = merged]
      /\ call' = [call EXCEPT ![n] = [phase |-> "reply", peer |-> p, view |-> merged]]
      /\ UNCHANGED <<proc, stray, clock, started, used>>

(* The peer handles a request that it received before its sender crashed or *)
(* stopped waiting; the answer goes nowhere.                                *)
HandleStray(r) ==
  /\ proc[r.peer] = "serving"
  /\ view' = [view EXCEPT ![r.peer] = Merge(view[r.peer], r.view)]
  /\ stray' = stray \ {r}
  /\ UNCHANGED <<proc, call, clock, started, used>>

(* The answer arrives and is merged; when it ends the handshake with the    *)
(* seed, the loops start.                                                   *)
Answer(n) ==
  /\ call[n].phase = "reply"
  /\ view' = [view EXCEPT ![n] = Merge(view[n], call[n].view)]
  /\ call' = [call EXCEPT ![n] = NoCall]
  /\ proc' = [proc EXCEPT ![n] = IF @ = "joining" THEN "joined" ELSE @]
  /\ UNCHANGED <<stray, clock, started, used>>

\* The process is gone, and its memory with it.
Exit(n) ==
  /\ proc' = [proc EXCEPT ![n] = "down"]
  /\ view' = [view EXCEPT ![n] = EmptyView]

(* What an exchange can fail of: the peer refuses the connection because it *)
(* is not serving, the peer died under it, or the network fails.            *)
Refused(n) ==
  \/ call[n].phase = "request" /\ proc[call[n].peer] # "serving"
  \/ call[n].phase = "broken"

NetworkFault(n) ==
  /\ call[n].phase \in {"request", "reply"}
  /\ used["fault"] < MaxFaults

\* A request that n's serving peer may have received stays with it.
LeftBehind(n) ==
  IF call[n].phase = "request" /\ proc[call[n].peer] = "serving"
    THEN stray \cup {[peer |-> call[n].peer, view |-> call[n].view]}
    ELSE stray

Faulted == [used EXCEPT !["fault"] = @ + 1]

\* n declares the peer that did not answer dead; a joining process gives up.
GiveUp(n) ==
  LET p == call[n].peer
  IN  /\ call' = [call EXCEPT ![n] = NoCall]
      /\ clock' = clock + 1
      /\ IF proc[n] = "joining"
           THEN Exit(n)
           ELSE /\ view' = [view EXCEPT ![n][p] = Verdict(view[n][p], clock + 1)]
                /\ UNCHANGED proc
      /\ UNCHANGED started

GossipRefused(n) == Refused(n) /\ GiveUp(n) /\ UNCHANGED <<stray, used>>

(* The connection breaks or the answer is late; the peer may have received  *)
(* the request, and handles it after the verdict.                           *)
GossipLost(n) ==
  NetworkFault(n) /\ GiveUp(n) /\ stray' = LeftBehind(n) /\ used' = Faulted

(* The answer cannot be decoded: no verdict, but a joining process exits.   *)
AnswerGarbled(n) ==
  /\ call[n].phase = "reply"
  /\ NetworkFault(n)
  /\ used' = Faulted
  /\ call' = [call EXCEPT ![n] = NoCall]
  /\ IF proc[n] = "joining" THEN Exit(n) ELSE UNCHANGED <<proc, view>>
  /\ UNCHANGED <<stray, clock, started>>

(* A process is killed; the requests it had not answered break, and the     *)
(* callers learn of it only when they look.  Its own request stays with a   *)
(* peer that has received it.                                               *)
Crash(n) ==
  /\ proc[n] # "down"
  /\ used["crash"] < MaxCrashes
  /\ used' = [used EXCEPT !["crash"] = @ + 1]
  /\ Exit(n)
  /\ call' = [x \in Node |->
       IF x = n THEN NoCall
       ELSE IF call[x].phase = "request" /\ call[x].peer = n
              THEN [call[x] EXCEPT !.phase = "broken"]
              ELSE call[x]]
  /\ stray' = {r \in LeftBehind(n) : r.peer # n}
  /\ UNCHANGED <<clock, started>>

Next ==
  \/ \E n \in Node : Start(n)
  \/ \E n \in Node : Serve(n)
  \/ \E n, p \in Node : Gossip(n, p)
  \/ \E n \in Node : HandleGossip(n)
  \/ \E r \in stray : HandleStray(r)
  \/ \E n \in Node : Answer(n)
  \/ \E n \in Node : GossipRefused(n)
  \/ \E n \in Node : GossipLost(n)
  \/ \E n \in Node : AnswerGarbled(n)
  \/ \E n \in Node : Crash(n)

Spec == Init /\ [][Next]_vars

(* The gossip loop picks a random peer at every tick, so it picks each peer *)
(* it keeps believing alive again and again; requests are handled, answers  *)
(* and errors are delivered, and a process that has joined gets to serve.   *)
(* Nothing obliges anybody to start a process.                              *)
Fairness ==
  /\ \A n \in Node : /\ WF_vars(Serve(n))
                     /\ WF_vars(HandleGossip(n) \/ Answer(n) \/ GossipRefused(n))
  /\ \A n \in Node : \A p \in Node \ {n} : SF_vars(Gossip(n, p))

FairSpec == Spec /\ Fairness

-----------------------------------------------------------------------------
(* Properties.                                                              *)

\* What two nodes hold about x is ordered: b is a at least as new.
AtLeast(b, a) == Known(a) => Known(b) /\ (b = a \/ IsNewer(b, a))

(* While a process runs, what it holds about any node is only replaced by   *)
(* newer news, whatever the order in which views and failures reach it      *)
(* (merge, markDead).                                                       *)
NewsNeverRegresses ==
  [][\A n, x \in Node :
       proc[n] # "down" /\ proc'[n] # "down" => AtLeast(view'[n][x], view[n][x])]_vars

(* Nobody but a node itself says that it is alive: every "alive" entry, held *)
(* or under way, carries an incarnation the node itself started with or an  *)
(* older one, never one a verdict has raised.                               *)
LifeIsNotForged ==
  \A n, x \in Node :
    /\ view[n][x].status = "alive" => view[n][x].inc <= started[x]
    /\ call[n].view[x].status = "alive" => call[n].view[x].inc <= started[x]
    /\ \A r \in stray : r.view[x].status = "alive" => r.view[x].inc <= started[x]

\* Every incarnation about x that is held by a node or under way.
Incarnations(x) == {view[n][x].inc : n \in Node} \cup {call[n].view[x].inc : n \in Node}
                   \cup {r.view[x].inc : r \in stray}

\* No incarnation is ahead of the clock.
IncarnationsBehindClock == \A x \in Node : \A i \in Incarnations(x) : i <= clock

\* Neither is the start of any process.
StartsBehindClock == \A n \in Node : started[n] <= clock

(* The inductive invariant: types, and that no incarnation held, under way  *)
(* or given out is ahead of the clock or of the life it claims.             *)
IndInv == TypeOK /\ LifeIsNotForged /\ IncarnationsBehindClock /\ StartsBehindClock

(* "A restarted node's 'I'm alive' always outranks whatever 'dead' verdict  *)
(* its peers held about it before" (Member): the incarnation of a process   *)
(* that starts is above every one about its node that is held or under way. *)
RestartOutranks ==
  [][\A n \in Node : proc[n] = "down" /\ proc'[n] # "down" =>
       \A i \in Incarnations(n) : i < started'[n]]_vars

(* Without faults and crashes the nodes that serve end up with the same     *)
(* view (Gossip, HandleGossip, merge), whatever false verdicts there were.  *)
ViewsConverge ==
  <>[](\A n, p \in Node :
         proc[n] = "serving" /\ proc[p] = "serving" =>
           view[n] = view[p])

\* The serving nodes that take themselves for the one to run the worker.
Leaders == {n \in Node : proc[n] = "serving" /\ IsScheduledCloseLeader(n)}

(* Without faults and crashes exactly one node ends up running the          *)
(* scheduled-close worker, unless none ever serves.                         *)
EventuallyOneLeader ==
  <>[](Cardinality(Leaders) = 1 \/ \A n \in Node : proc[n] # "serving")

=============================================================================
