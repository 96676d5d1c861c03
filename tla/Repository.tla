----------------------------- MODULE Repository -----------------------------
(***************************************************************************)
(* The voting repository (queel/repository.go, queel/model.go): texts,     *)
(* their rounds, the slots opened in a round, the fragments that compete   *)
(* for a slot, the votes for them and the subscriptions, and what deleting *)
(* a text or a user takes with it, as records under the keys of a          *)
(* key-value store.  Calls of several goroutines read and write the store  *)
(* without a lock: every Get, every Scan and every single operation of a   *)
(* WriteBatch is a step of its own, as it is over one Engine, and a batch  *)
(* can stop half-way.                                                      *)
(*                                                                         *)
(* Identifiers are numbers in the order of their creation, so that they    *)
(* also stand for CreatedAt.  A text is a sequence of runes; a rune is     *)
(* known by the text or fragment it was typed in and its place there.      *)
(***************************************************************************)
EXTENDS Integers, Sequences, SequencesExt

CONSTANTS
  Proc,     \* goroutines that serve requests
  User,
  Tag,
  TagSets,  \* the sets of tags that texts are created with
  Length,   \* the length of a text that is created
  Proposals,\* the ranges [start, end) that users select, each with the length
            \* of the content proposed for it
  Overlap,  \* whether one user may have several calls under way
  Bound     \* Bound[kind]: how many calls of a kind, ticks and failures
            \* there are, and calls and failures together ("event")

Kinds == {"create", "propose", "vote", "schedule", "close", "subscribe", "unsubscribe",
          "delete", "tick", "failure", "event"}

ASSUME TagsAssumption == TagSets \subseteq {set \in SUBSET Tag : IsFiniteSet(set)}
ASSUME LengthAssumption == Length \in Nat
ASSUME ProposalsAssumption == Proposals \subseteq [start : Int, end : Int, length : Nat]
ASSUME OverlapAssumption == Overlap \in BOOLEAN
ASSUME BoundAssumption == Bound \in [Kinds -> Nat]

VARIABLES
  db,          \* the store: what each key present in it holds
  call,        \* call[p]: the call p serves, and how far it is
  ops,         \* ops[p]: the operations of p's WriteBatch still to be done
  due,         \* texts the scheduled-close worker has listed and not closed yet
  nextID,      \* the next identifier
  outcomes,    \* outcomes[t]: the winners that the fork t was made of
  following,   \* users that followed a text, and have not left since
  interrupted, \* whether a batch has stopped half-way
  unclean,     \* whether a deletion has overlapped another call, or stopped half-way
  torn,        \* whether a deletion has begun when one of a subscription's two records was lost
  erased,      \* users deleted who have not acted since, and the texts
               \* that were deleted with the user who created them
  used         \* how many calls of each kind there have been

history == <<outcomes, following, interrupted>>
meta == <<unclean, torn, erased, used>>
vars == <<db, call, ops, due, nextID, history, meta>>

Seed == "seed"

\* The author that a seed is given is no user.
ASSUME SeedAssumption == Seed \notin User

\* A user's identifier is no text's.
ASSUME UserAssumption == \A u \in User : u \notin Nat

-----------------------------------------------------------------------------
(* The store.                                                               *)

Has(k) == k \in DOMAIN db

Put(k, v) == [key |-> k, tombstone |-> FALSE, val |-> v]
Delete(k) == [key |-> k, tombstone |-> TRUE]

\* What Op gives for each member of s, one after the other: as many for each.
Each(s, Op(_)) ==
  LET n == IF s = <<>> THEN 0 ELSE Len(Op(s[1]))
  IN  [i \in 1 .. n * Len(s) |-> Op(s[(i - 1) \div n + 1])[((i - 1) % n) + 1]]

\* The store after one operation.
After(o) ==
  IF o.tombstone
    THEN [k \in DOMAIN db \ {o.key} |-> db[k]]
    ELSE [k \in DOMAIN db \cup {o.key} |-> IF k = o.key THEN o.val ELSE db[k]]

Text(t) == <<"text", t>>
Round(r) == <<"round", r>>
CurrentRound(t) == <<"currentround", t>>
RoundCount(t) == <<"roundcount", t>>
RoundIndex(t, r) == <<"roundindex", t, r>>
SupersededBy(t) == <<"supersededby", t>>
Fragment(f) == <<"fragment", f>>
FragmentIndex(t, s, f) == <<"fragmentindex", t, s, f>>
Vote(f, u) == <<"vote", f, u>>
UserChoice(t, s, u) == <<"uservote", t, s, u>>
Subscription(t, u) == <<"subscription", t, u>>
SubscriptionIndex(u, t) == <<"subscriptionindex", u, t>>
TagIndex(g, t) == <<"tagindex", g, t>>

KeysOf(family) == {k \in DOMAIN db : k[1] = family}

Texts == {k[2] : k \in KeysOf("text")}

\* The users a scan of the subscriptions to t finds.
Subscribers(t) == {k[3] : k \in {k \in KeysOf("subscription") : k[2] = t}}

\* The fragments that a scan of the index of slot s of text t finds.
Fragments(t, s) == {k[4] : k \in {k \in KeysOf("fragmentindex") : k[2] = t /\ k[3] = s}}

VoteCount(f) == Cardinality({k \in KeysOf("vote") : k[2] = f})

-----------------------------------------------------------------------------
(* The listings.                                                            *)

\* Newest first.
SortedTexts(texts) ==
  [i \in 1 .. Cardinality(texts) |-> CHOOSE t \in texts : Cardinality({u \in texts : u > t}) = i - 1]

IsSuperseded(t) == Has(SupersededBy(t))

RecentTexts == SortedTexts({t \in Texts : ~IsSuperseded(t)})

\* The texts that the index lists under g.
Tagged(g) == {k[3] : k \in {k \in KeysOf("tagindex") : k[2] = g}}

\* Only the first label's index is scanned; an entry whose text is gone is passed over.
TextsByTags(tags) ==
  SortedTexts({t \in Tagged(Head(tags)) :
    Has(Text(t)) /\ (\A i \in DOMAIN Tail(tags) : Tail(tags)[i] \in db[Text(t)].tags) /\ ~IsSuperseded(t)})

\* How many current texts each label in use has.
TagCounts ==
  LET Current(g) == {t \in Tagged(g) : ~IsSuperseded(t)}
  IN  [g \in {g \in Tag : Current(g) # {}} |-> Cardinality(Current(g))]

\* The fragment that u has voted for in each slot of t.
UserVotes(t, u) ==
  [s \in {k[3] : k \in {k \in KeysOf("uservote") : k[2] = t /\ k[4] = u}} |-> db[UserChoice(t, s, u)]]

\* Mutant: only the previous versions are followed.
TextChainBackwards(t) ==
  LET back[i \in 0 .. Cardinality(Texts)] ==
        IF i = 0 THEN << t >>
        ELSE LET previous == db[Text(Head(back[i - 1]))].previous
             IN  IF Has(Text(previous)) THEN << previous >> \o back[i - 1] ELSE back[i - 1]
  IN  back[Cardinality(Texts)]

\* The versions of t, from the first to the current one, as far as they are there.
TextChain(t) ==
  LET n == Cardinality(Texts)
      back[i \in 0 .. n] ==
        IF i = 0 THEN << t >>
        ELSE LET previous == db[Text(Head(back[i - 1]))].previous
             IN  IF Has(Text(previous)) THEN << previous >> \o back[i - 1] ELSE back[i - 1]
      on[i \in 0 .. n] ==
        IF i = 0 THEN << t >>
        ELSE LET last == Last(on[i - 1])
             IN  IF Has(SupersededBy(last)) /\ Has(Text(db[SupersededBy(last)]))
                   THEN Append(on[i - 1], db[SupersededBy(last)]) ELSE on[i - 1]
  IN  back[n] \o Tail(on[n])

-----------------------------------------------------------------------------
(* Calls.                                                                   *)

Idle == [pc |-> "idle"]

\* The last writes of a call; when they are done it returns.
Final == {"created", "proposed", "voted", "scheduled", "closed", "subscribed", "unsubscribed",
          "deleted"}

Init ==
  /\ db = [k \in {} |-> 0]
  /\ call = [p \in Proc |-> Idle]
  /\ ops = [p \in Proc |-> <<>>]
  /\ due = {}
  /\ nextID = 1
  /\ outcomes = [t \in {} |-> 0]
  /\ following = {}
  /\ interrupted = FALSE
  /\ unclean = FALSE
  /\ torn = FALSE
  /\ erased = {}
  /\ used = [kind \in Kinds |-> 0]

Use(kind) ==
  /\ used[kind] < Bound[kind] /\ used["event"] < Bound["event"]
  /\ used' = [used EXCEPT ![kind] = @ + 1, !["event"] = @ + 1]

Quiet == \A p \in Proc : call[p].pc = "idle"

Busy(u) == \E p \in Proc : call[p].pc # "idle" /\ call[p].user = u

Deleting(q) == call[q].pc \in {"collect", "next", "deleted"}

\* Whether a call that begins meets a deletion, or is one and meets any call.
Meets(p, kind) ==
  \E q \in Proc \ {p} : call[q].pc # "idle" /\ (Deleting(q) \/ kind = "delete")

\* A subscription has lost its entry in the index of its user, or the other way round.
Halved ==
  \/ \E k \in KeysOf("subscription") : ~Has(SubscriptionIndex(k[3], k[2]))
  \/ \E k \in KeysOf("subscriptionindex") : ~Has(Subscription(k[3], k[2]))

\* A call of a kind arrives from user u and is served by p.
Arrives(p, u, kind) ==
  /\ call[p].pc = "idle"
  /\ ~Overlap => ~Busy(u)
  /\ Use(kind)
  /\ unclean' = (unclean \/ Meets(p, kind))
  /\ torn' = (torn \/ (kind = "delete" /\ Halved))
  /\ erased' = erased \ {u}

\* p has no write to do and is at a point of its call.
At(p, pc) == call[p].pc = pc /\ ops[p] = <<>>

Becomes(p, c) == call' = [call EXCEPT ![p] = c]

\* p goes on at pc once the batch b is written.
WriteBatch(p, pc, b) ==
  /\ ops' = [ops EXCEPT ![p] = b]
  /\ call' = [call EXCEPT ![p] = [@ EXCEPT !.pc = pc]]

Ends(p) == Becomes(p, Idle) /\ UNCHANGED ops

\* The call at p has returned: subscribing or creating a text makes one follow it.
Returned(p) ==
  following' = IF call[p].pc \in {"created", "subscribed"}
                 THEN following \cup {call[p].user} ELSE following

\* One operation of a batch.  The call returns with the last one.
ApplyOp(p) ==
  LET done == Tail(ops[p]) = <<>> /\ call[p].pc \in Final
  IN  /\ ops[p] # <<>>
      /\ db' = After(Head(ops[p]))
      /\ ops' = [ops EXCEPT ![p] = Tail(@)]
      /\ IF done THEN Becomes(p, Idle) /\ Returned(p) ELSE UNCHANGED <<call, following>>
      /\ UNCHANGED <<due, nextID, outcomes, interrupted, meta>>

(* The store fails, or the process ends, and what was written stays.  When  *)
(* that happens between two batches it is as if the second had not begun;   *)
(* before the first, as if the call had not been made.                      *)
Fails(p) ==
  /\ ops[p] # <<>>
  /\ Use("failure")
  /\ interrupted' = TRUE
  /\ ops' = [ops EXCEPT ![p] = <<>>]
  /\ Becomes(p, Idle)
  /\ unclean' = (unclean \/ Deleting(p))
  /\ UNCHANGED <<db, due, nextID, outcomes, following, torn, erased>>

-----------------------------------------------------------------------------
(* CreateText and openRound.                                                *)

\* Mutant: the pointer to the round is written before the round.
OpenRoundOpsPointerFirst(t, r, number) ==
  << Put(CurrentRound(t), r),
     Put(Round(r), [text |-> t, number |-> number, status |-> "open",
                    slots |-> <<>>, scheduled |-> FALSE]),
     Put(RoundCount(t), number),
     Put(RoundIndex(t, r), r) >>

\* openRoundOps: round r opens on text t.
OpenRoundOps(t, r, number) ==
  << Put(Round(r), [text |-> t, number |-> number, status |-> "open",
                    slots |-> <<>>, scheduled |-> FALSE]),
     Put(CurrentRound(t), r),
     Put(RoundCount(t), number),
     Put(RoundIndex(t, r), r) >>

\* The runes typed in the text or fragment with an identifier.
Typed(id, n) == [i \in 1 .. n |-> <<id, i>>]

TagOps(t, set) ==
  LET tags == SetToSeq(set) IN [i \in DOMAIN tags |-> Put(TagIndex(tags[i], t), t)]

CreateText(p, u, tags) ==
  LET t == nextID
      r == nextID + 1
  IN  /\ Arrives(p, u, "create")
      /\ Becomes(p, [pc |-> "created", user |-> u])
      /\ ops' = [ops EXCEPT ![p] =
           << Put(Text(t), [content |-> Typed(t, Length), previous |-> 0,
                            createdBy |-> u, tags |-> tags]),
              Put(Subscription(t, u), u), Put(SubscriptionIndex(u, t), t) >>
           \o OpenRoundOps(t, r, 1) \o TagOps(t, tags)]
      /\ nextID' = nextID + 2
      /\ UNCHANGED <<db, due, history>>

-----------------------------------------------------------------------------
(* CurrentRound, with which three calls begin: the pointer, then the round. *)

\* Without a round, a proposal goes on to open one and the other calls end.
NoRound(p) ==
  Becomes(p, IF call[p].for = "propose" THEN [call[p] EXCEPT !.pc = "superseded"] ELSE Idle)

ReadPointer(p) ==
  LET c == call[p]
  IN  /\ At(p, "pointer")
      /\ \/ /\ Has(CurrentRound(c.text))
            /\ Becomes(p, [c EXCEPT !.pc = "round", !.round = db[CurrentRound(c.text)]])
         \/ /\ ~Has(CurrentRound(c.text))
            /\ NoRound(p)
      /\ UNCHANGED <<db, ops, due, nextID, history, meta>>

\* The round was deleted since the pointer was read.
RoundGone(p) ==
  /\ At(p, "round")
  /\ ~Has(Round(call[p].round))
  /\ NoRound(p)
  /\ UNCHANGED <<db, ops, due, nextID, history, meta>>

\* The round is read.
AtRound(p, for) == At(p, "round") /\ call[p].for = for /\ Has(Round(call[p].round))

-----------------------------------------------------------------------------
(* ProposeEdit.                                                             *)

ValidRange(range, content) == 0 <= range.start /\ range.start < range.end /\ range.end <= Len(content)

\* The text is read and the range compared with its length.
ProposeEdit(p, u, t, range) ==
  /\ Arrives(p, u, "propose")
  /\ ValidRange(range, db[Text(t)].content)
  /\ Becomes(p, [pc |-> "pointer", for |-> "propose", user |-> u, text |-> t, round |-> 0,
                 content |-> db[Text(t)].content, range |-> range,
                 number |-> 0, slot |-> 0])
  /\ UNCHANGED <<db, ops, due, nextID, history>>

\* openRound: not on a text that a newer version has replaced.
CheckSuperseded(p) ==
  /\ At(p, "superseded")
  /\ Becomes(p, IF Has(SupersededBy(call[p].text)) THEN Idle
                ELSE [call[p] EXCEPT !.pc = "count"])
  /\ UNCHANGED <<db, ops, due, nextID, history, meta>>

OpenRound(p) ==
  LET t == call[p].text
      number == IF Has(RoundCount(t)) THEN db[RoundCount(t)] + 1 ELSE 1
  IN  /\ At(p, "count")
      /\ ops' = [ops EXCEPT ![p] = OpenRoundOps(t, nextID, number)]
      /\ Becomes(p, [call[p] EXCEPT !.pc = "opened", !.round = nextID, !.number = number])
      /\ nextID' = nextID + 1
      /\ UNCHANGED <<db, due, history, meta>>

\* addFragment.
AddFragment(p, s, id) ==
  /\ WriteBatch(p, "proposed",
       << Put(Fragment(id), [text |-> call[p].text, slot |-> s, author |-> call[p].user,
                             content |-> Typed(id, call[p].range.length)]),
          Put(FragmentIndex(call[p].text, s, id), id) >>)
  /\ nextID' = id + 1

\* Mutant: a range that ends inside a slot is let through.
TouchesEnd(slot, range) == range.start < slot.end /\ range.end >= slot.end

Touches(slot, range) == range.start < slot.end /\ range.end > slot.start

SameRange(slot, range) == slot.start = range.start /\ slot.end = range.end

\* Mutant: the round is written before the seed.
SeedOpsRoundFirst(t, content, range, s, seed, r, round) ==
  << Put(Round(r), [round EXCEPT !.slots =
       Append(@, [id |-> s, start |-> range.start, end |-> range.end, round |-> round.number])]),
     Put(Fragment(seed), [text |-> t, slot |-> s, author |-> Seed,
       content |-> SubSeq(content, range.start + 1, range.end)]),
     Put(FragmentIndex(t, s, seed), seed) >>

\* The new slot s of round r, and the fragment that keeps its text as it is.
SeedOps(t, content, range, s, seed, r, round) ==
  << Put(Fragment(seed), [text |-> t, slot |-> s, author |-> Seed,
       content |-> SubSeq(content, range.start + 1, range.end)]),
     Put(FragmentIndex(t, s, seed), seed),
     Put(Round(r), [round EXCEPT !.slots =
       Append(@, [id |-> s, start |-> range.start, end |-> range.end, round |-> round.number])]) >>

(* resolveSlot on the round r as p knows it: the first slot that the range  *)
(* touches is the one meant, if it is the same range, or refuses it.        *)
ResolveSlot(p, r, round) ==
  LET range == call[p].range
      touched == {i \in DOMAIN round.slots : Touches(round.slots[i], range)}
      first == round.slots[CHOOSE i \in touched : \A j \in touched : i <= j]
  IN  \/ /\ touched = {}
         /\ ops' = [ops EXCEPT ![p] =
              SeedOps(call[p].text, call[p].content, range, nextID, nextID + 1, r, round)]
         /\ Becomes(p, [call[p] EXCEPT !.pc = "seeded", !.round = r, !.slot = nextID])
         /\ nextID' = nextID + 2
      \/ /\ touched # {} /\ SameRange(first, range)
         /\ AddFragment(p, first.id, nextID)
      \/ /\ touched # {} /\ ~SameRange(first, range)
         /\ Ends(p) /\ UNCHANGED nextID

\* The round was found and is read.
ResolveCurrent(p) ==
  /\ AtRound(p, "propose")
  /\ ResolveSlot(p, call[p].round, db[Round(call[p].round)])
  /\ UNCHANGED <<db, due, history, meta>>

\* The round was opened by this call.
ResolveOpened(p) ==
  /\ At(p, "opened")
  /\ ResolveSlot(p, call[p].round,
       [text |-> call[p].text, number |-> call[p].number, status |-> "open",
        slots |-> <<>>, scheduled |-> FALSE])
  /\ UNCHANGED <<db, due, history, meta>>

AddFirstFragment(p) ==
  /\ At(p, "seeded")
  /\ AddFragment(p, call[p].slot, nextID)
  /\ UNCHANGED <<db, due, history, meta>>

-----------------------------------------------------------------------------
(* CastVote.  The round is not looked at.                                   *)

CastVote(p, u, f) ==
  /\ Arrives(p, u, "vote")
  /\ Has(Fragment(f))
  /\ Becomes(p, [pc |-> "choice", user |-> u, fragment |-> f,
                 text |-> db[Fragment(f)].text, slot |-> db[Fragment(f)].slot])
  /\ UNCHANGED <<db, ops, due, nextID, history>>

\* Mutant: the previous vote is not withdrawn.
VoteOpsKeeping(f, choice, u) == << Put(Vote(f, u), u), Put(choice, f) >>

\* The vote of u for f; choice is the key of the choice in f's slot.
VoteOps(f, choice, u) ==
  << Put(Vote(f, u), u), Put(choice, f) >>
  \o IF Has(choice) /\ db[choice] # f THEN << Delete(Vote(db[choice], u)) >> ELSE <<>>

ReadChoice(p) ==
  LET c == call[p]
  IN  /\ At(p, "choice")
      /\ WriteBatch(p, "voted", VoteOps(c.fragment, UserChoice(c.text, c.slot, c.user), c.user))
      /\ UNCHANGED <<db, due, nextID, history, meta>>

-----------------------------------------------------------------------------
(* ScheduleRoundClose, and the worker's tick.                               *)

ScheduleRoundClose(p, u, t) ==
  /\ Arrives(p, u, "schedule")
  /\ Becomes(p, [pc |-> "pointer", for |-> "schedule", user |-> u, text |-> t, round |-> 0])
  /\ UNCHANGED <<db, ops, due, nextID, history>>

\* A round without slots is refused; otherwise the whole record is put back.
Schedule(p) ==
  LET r == call[p].round
  IN  /\ AtRound(p, "schedule")
      /\ IF db[Round(r)].slots = <<>> THEN Ends(p)
         ELSE WriteBatch(p, "scheduled", << Put(Round(r), [db[Round(r)] EXCEPT !.scheduled = TRUE]) >>)
      /\ UNCHANGED <<db, due, nextID, history, meta>>

\* DueScheduledRounds: the texts whose current round is open and scheduled, of
\* which those whose date has passed are listed.
DueScheduledRounds ==
  {db[Round(db[k])].text : k \in
    {k \in KeysOf("currentround") : db[Round(db[k])].status = "open" /\ db[Round(db[k])].scheduled}}

\* The list is not made when one of the rounds is missing.
Tick ==
  /\ due = {}
  /\ \A k \in KeysOf("currentround") : Has(Round(db[k]))
  /\ used["tick"] < Bound["tick"]
  /\ used' = [used EXCEPT !["tick"] = @ + 1]
  /\ due' \in SUBSET DueScheduledRounds \ {{}}
  /\ UNCHANGED <<db, call, ops, nextID, history, unclean, torn, erased>>

-----------------------------------------------------------------------------
(* CloseRound.                                                              *)

StartClose(p, u, t) ==
  Becomes(p, [pc |-> "pointer", for |-> "close", user |-> u, text |-> t, round |-> 0])

\* By a user's request.
CloseRound(p, u, t) ==
  /\ Arrives(p, u, "close")
  /\ StartClose(p, u, t)
  /\ UNCHANGED <<db, ops, due, nextID, history>>

Worker == "worker"

\* By the worker, for a text on its list.
CloseDue(p, t) ==
  /\ call[p].pc = "idle"
  /\ t \in due
  /\ due' = due \ {t}
  /\ StartClose(p, Worker, t)
  /\ unclean' = (unclean \/ Meets(p, "close"))
  /\ UNCHANGED <<db, ops, nextID, history, torn, erased, used>>

\* A round without slots is refused.
ReadRound(p) ==
  LET c == call[p]
      round == db[Round(c.round)]
  IN  /\ AtRound(p, "close")
      /\ Becomes(p, IF round.slots = <<>> THEN Idle
                    ELSE [pc |-> "text", user |-> c.user, text |-> c.text, round |-> c.round,
                          read |-> round])
      /\ UNCHANGED <<db, ops, due, nextID, history, meta>>

ReadText(p) ==
  LET c == call[p]
  IN  /\ At(p, "text")
      /\ Becomes(p, IF ~Has(Text(c.text)) THEN Idle
                    ELSE [pc |-> "tally", user |-> c.user, text |-> c.text, round |-> c.round,
                          read |-> c.read, old |-> db[Text(c.text)], winners |-> <<>>])
      /\ UNCHANGED <<db, ops, due, nextID, history, meta>>

\* isBetter: more votes, or as many and proposed earlier.
IsBetter(f, g) ==
  VoteCount(f) > VoteCount(g) \/ (VoteCount(f) = VoteCount(g) /\ f < g)

(* WinningFragment for the next slot.  The close ends when an entry of the  *)
(* slot's index has no fragment, or the slot has none.                      *)
Tally(p) ==
  LET c == call[p]
      fragments == Fragments(c.text, c.read.slots[Len(c.winners) + 1].id)
  IN  /\ At(p, "tally")
      /\ Len(c.winners) < Len(c.read.slots)
      /\ \/ /\ fragments = {} \/ \E f \in fragments : ~Has(Fragment(f))
            /\ Becomes(p, Idle)
         \/ \E f \in fragments :
              /\ \A g \in fragments : Has(Fragment(g))
              /\ \A g \in fragments \ {f} : IsBetter(f, g)
              /\ Becomes(p, [c EXCEPT !.winners = Append(@, db[Fragment(f)].content)])
      /\ UNCHANGED <<db, ops, due, nextID, history, meta>>

\* Mutant: the slots are taken in the order in which they were opened.
UnsortedSlots(slots) == slots

\* The slots by their starts: the next has as many before it as have been taken.
SortedSlots(slots) ==
  LET Before(i) == {j \in DOMAIN slots : slots[j].start < slots[i].start}
  IN  [n \in DOMAIN slots |-> slots[CHOOSE i \in DOMAIN slots : Cardinality(Before(i)) = n - 1]]

(* spliceContent: the slots by their starts, each replaced by the content   *)
(* of its winner, and what lies between them.                               *)
SpliceContent(content, slots, contentOf) ==
  LET sorted == SortedSlots(slots)
      cursor(i) == IF i = 0 THEN 0 ELSE sorted[i].end
      upTo[i \in 0 .. Len(slots)] ==
        IF i = 0 THEN <<>>
        ELSE upTo[i - 1] \o SubSeq(content, cursor(i - 1) + 1, sorted[i].start)
                         \o contentOf[sorted[i].id]
  IN  upTo[Len(slots)] \o SubSeq(content, cursor(Len(slots)) + 1, Len(content))

\* The content that won each slot.
WinningContent(c) ==
  [s \in {c.read.slots[i].id : i \in DOMAIN c.read.slots} |->
     c.winners[CHOOSE i \in DOMAIN c.read.slots : c.read.slots[i].id = s]]

\* Mutant: the labels stay on the version they were given to.
KeepTagOps(set, t, new) == <<>>

MoveTagOps(set, t, new) ==
  LET tags == SetToSeq(set)
  IN  Each(tags, LAMBDA g : << Delete(TagIndex(g, t)), Put(TagIndex(g, new), new) >>)

\* Mutant: the subscriptions end with the version they were made to.
DropSubscriptionOps(users, t, new) ==
  Each(users, LAMBDA u : << Delete(Subscription(t, u)), Delete(SubscriptionIndex(u, t)) >>)

\* The users' subscriptions to t, in the order of the scan, become ones to new.
MoveSubscriptionOps(users, t, new) ==
  Each(users, LAMBDA u :
    << Delete(Subscription(t, u)), Delete(SubscriptionIndex(u, t)),
       Put(Subscription(new, u), u), Put(SubscriptionIndex(u, new), new) >>)

\* Mutant: the fork waits for its first proposal.
NoNextRoundOps(t, r, number) == <<>>

\* The fork's own round.
NextRoundOps(t, r, number) == OpenRoundOps(t, r, number)

\* All winners are known: the subscriptions are read and everything is written.
Fork(p) ==
  LET c == call[p]
      t == c.text
      new == nextID
      next == nextID + 1
  IN  /\ At(p, "tally")
      /\ Len(c.winners) = Len(c.read.slots)
      /\ \E users \in SetToSeqs(Subscribers(t)) : WriteBatch(p, "closed",
           << Put(Text(new), [c.old EXCEPT !.previous = t,
                                !.content = SpliceContent(@, c.read.slots, WinningContent(c))]),
              Put(Round(c.round), [c.read EXCEPT !.status = "closed"]),
              Delete(CurrentRound(t)),
              Put(SupersededBy(t), new) >>
           \o NextRoundOps(new, next, c.read.number + 1)
           \o MoveTagOps(c.old.tags, t, new)
           \o MoveSubscriptionOps(users, t, new))
      /\ nextID' = nextID + 2
      /\ outcomes' = [u \in DOMAIN outcomes \cup {new} |->
           IF u = new THEN [slots |-> c.read.slots, winners |-> c.winners] ELSE outcomes[u]]
      /\ UNCHANGED <<db, due, following, interrupted, meta>>

-----------------------------------------------------------------------------
(* Subscribe and Unsubscribe.                                               *)

Subscribe(p, u, t) ==
  /\ Arrives(p, u, "subscribe")
  /\ Becomes(p, [pc |-> "subscribed", user |-> u])
  /\ ops' = [ops EXCEPT ![p] =
       << Put(Subscription(t, u), u), Put(SubscriptionIndex(u, t), t) >>]
  /\ UNCHANGED <<db, due, nextID, history>>

Unsubscribe(p, u, t) ==
  /\ Arrives(p, u, "unsubscribe")
  /\ Becomes(p, [pc |-> "unsubscribed", user |-> u])
  /\ ops' = [ops EXCEPT ![p] =
       << Delete(Subscription(t, u)), Delete(SubscriptionIndex(u, t)) >>]
  /\ following' = following \ {u}
  /\ UNCHANGED <<db, due, nextID, outcomes, interrupted>>

-----------------------------------------------------------------------------
(* DeleteText, and DeleteUserTexts, DeleteUserFragments, DeleteUserVotes    *)
(* and DeleteUserSubscriptions, which follow one another when a user is     *)
(* deleted.  Each makes its scans, in an order, collects the keys to delete *)
(* and writes them in one batch.                                            *)

Scan(what, of) == [what |-> what, of |-> of]

\* The keys that a scan finds.
Found(scan) ==
  LET x == scan.of
  IN  CASE scan.what = "texts of user" -> {k \in KeysOf("text") : db[k].createdBy = x}
        [] scan.what = "rounds" -> {k \in KeysOf("round") : db[k].text \in x}
        [] scan.what = "fragments" -> {k \in KeysOf("fragmentindex") : k[2] = x}
        [] scan.what = "fragments of user" -> {k \in KeysOf("fragment") : db[k].author = x}
        [] scan.what \in {"votes", "ballots"} -> {k \in KeysOf("vote") : k[2] = x[4]}
        [] scan.what = "votes of user" -> {k \in KeysOf("vote") : k[3] = x}
        [] scan.what = "choices" -> {k \in KeysOf("uservote") : k[2] = x}
        [] scan.what = "choice" -> {k \in {UserChoice(x[2], x[3], x[5])} : Has(k) /\ db[k] = x[4]}
        [] scan.what = "choices of user" -> {k \in KeysOf("uservote") : k[4] = x}
        [] scan.what = "subscriptions" -> {k \in KeysOf("subscription") : k[2] = x}
        [] OTHER -> {k \in KeysOf("subscriptionindex") : k[2] = x}  \* "subscriptions of user"

\* A text itself.
TextOps(t) ==
  << Delete(Text(t)), Delete(CurrentRound(t)), Delete(RoundCount(t)), Delete(SupersededBy(t)) >>

\* Mutant: the index entry of a round is left.
RoundOpsUnindexed(t, r) == << Delete(Round(r)) >>

RoundOps(t, r) == << Delete(Round(r)), Delete(RoundIndex(t, r)) >>

\* The deletions for a key that a scan found.
OpsFor(scan, k) ==
  CASE scan.what = "texts of user" -> TextOps(k[2])
    [] scan.what = "rounds" -> RoundOps(db[k].text, k[2])
    [] scan.what \in {"fragments", "fragments of user", "ballots"} -> <<>>
    [] scan.what = "subscriptions" -> << Delete(k), Delete(SubscriptionIndex(k[3], k[2])) >>
    [] scan.what = "subscriptions of user" -> << Delete(k), Delete(Subscription(k[3], k[2])) >>
    [] OTHER -> << Delete(k) >>

\* The deletions that precede those: the fragment whose votes are scanned, the
\* vote whose voter's choice is read.
OpsBefore(scan) ==
  CASE scan.what = "votes" -> << Delete(scan.of), Delete(Fragment(scan.of[4])) >>
    [] scan.what = "ballots" -> << Delete(Fragment(scan.of[4])), Delete(scan.of) >>
    [] scan.what = "choice" -> << Delete(Vote(scan.of[4], scan.of[5])) >>
    [] OTHER -> <<>>

\* The scans to which the keys found lead.
ScansFor(scan, keys) ==
  CASE scan.what = "texts of user" /\ keys # <<>> ->
         << Scan("rounds", {keys[i][2] : i \in DOMAIN keys}) >>
         \o Each(keys, LAMBDA k : << Scan("fragments", k[2]), Scan("choices", k[2]) >>)
    [] scan.what = "fragments" -> Each(keys, LAMBDA k : << Scan("votes", k) >>)
    [] scan.what = "fragments of user" ->
         Each(keys, LAMBDA k : << Scan("ballots", FragmentIndex(db[k].text, db[k].slot, k[2])) >>)
    [] scan.what = "ballots" -> Each(keys, LAMBDA k : << Scan("choice", Append(scan.of, k[3])) >>)
    [] OTHER -> <<>>

\* The scans of each of the calls made for a user who is deleted, in order.
Cascade(u) ==
  << << Scan("texts of user", u) >>,
     << Scan("fragments of user", u) >>,
     << Scan("votes of user", u), Scan("choices of user", u) >>,
     << Scan("subscriptions of user", u) >> >>

StartDelete(p, u, target, batch, scans, then) ==
  /\ Arrives(p, u, "delete")
  /\ Becomes(p, [pc |-> "collect", user |-> u, target |-> target, batch |-> batch,
                 scans |-> scans, then |-> then])

DeleteText(p, u, t) ==
  LET tags == SetToSeq(db[Text(t)].tags)
  IN  /\ StartDelete(p, u, t, TextOps(t) \o [i \in DOMAIN tags |-> Delete(TagIndex(tags[i], t))],
                     << Scan("rounds", {t}), Scan("fragments", t), Scan("choices", t),
                        Scan("subscriptions", t) >>, <<>>)
      /\ following' = {}
      /\ UNCHANGED <<db, ops, due, nextID, outcomes, interrupted>>

\* An administrator does not delete their own account.
DeleteUser(p, u, victim) ==
  /\ u # victim
  /\ StartDelete(p, u, victim, <<>>, Cascade(victim)[1], Tail(Cascade(victim)))
  /\ following' = {}
  /\ UNCHANGED <<db, ops, due, nextID, outcomes, interrupted>>

\* One scan.  The batch is written after the last.
Collect(p) ==
  LET c == call[p]
      scan == Head(c.scans)
  IN  /\ At(p, "collect")
      /\ \E keys \in SetToSeqs(Found(scan)) :
           LET batch == c.batch \o OpsBefore(scan)
                        \o Each(keys, LAMBDA k : OpsFor(scan, k))
               scans == ScansFor(scan, keys) \o Tail(c.scans)
               after == IF c.target \in User THEN "next" ELSE "deleted"
           IN  /\ IF scans = <<>>
                    THEN /\ ops' = [ops EXCEPT ![p] = batch]
                         /\ Becomes(p, [c EXCEPT !.pc = after, !.batch = <<>>, !.scans = <<>>])
                    ELSE /\ Becomes(p, [c EXCEPT !.batch = batch, !.scans = scans])
                         /\ UNCHANGED ops
               /\ erased' = erased \cup
                    IF scan.what = "texts of user" THEN {keys[i][2] : i \in DOMAIN keys} ELSE {}
      /\ UNCHANGED <<db, due, nextID, history, unclean, torn, used>>

\* The batch of one of the calls for a user is written: the next one, or the end.
NextCascade(p) ==
  LET c == call[p]
  IN  /\ At(p, "next")
      /\ \/ /\ c.then # <<>>
            /\ Becomes(p, [c EXCEPT !.pc = "collect", !.scans = Head(c.then), !.then = Tail(@)])
            /\ UNCHANGED erased
         \/ /\ c.then = <<>>
            /\ Becomes(p, Idle)
            /\ erased' = erased \cup {c.target}
      /\ UNCHANGED <<db, ops, due, nextID, history, unclean, torn, used>>

-----------------------------------------------------------------------------

Calls ==
  \E p \in Proc, u \in User :
    \/ \E tags \in TagSets : CreateText(p, u, tags)
    \/ \E f \in {k[2] : k \in KeysOf("fragment")} : CastVote(p, u, f)
    \/ \E t \in Texts :
         \/ \E range \in Proposals : ProposeEdit(p, u, t, range)
         \/ ScheduleRoundClose(p, u, t)
         \/ CloseRound(p, u, t)
         \/ Subscribe(p, u, t)
         \/ DeleteText(p, u, t)
    \/ \E t \in Texts \cup {k[2] : k \in KeysOf("subscription")} : Unsubscribe(p, u, t)
    \/ \E victim \in User : DeleteUser(p, u, victim)

Steps ==
  \E p \in Proc :
    \/ ApplyOp(p)
    \/ Fails(p)
    \/ ReadPointer(p)
    \/ CheckSuperseded(p)
    \/ OpenRound(p)
    \/ ResolveCurrent(p)
    \/ ResolveOpened(p)
    \/ AddFirstFragment(p)
    \/ ReadChoice(p)
    \/ Schedule(p)
    \/ \E t \in due : CloseDue(p, t)
    \/ RoundGone(p)
    \/ ReadRound(p)
    \/ ReadText(p)
    \/ Tally(p)
    \/ Fork(p)
    \/ Collect(p)
    \/ NextCascade(p)

Next == Calls \/ Steps \/ Tick

Spec == Init /\ [][Next]_vars

-----------------------------------------------------------------------------
(* Properties.                                                              *)

(* "Slots within a round never overlap" (model.go), whichever proposals     *)
(* raced for them, and they lie within the text: spliceContent cuts the     *)
(* text at their bounds and would panic otherwise.                          *)
SlotsDisjoint ==
  \A k \in {k \in KeysOf("round") : Has(Text(db[k].text))} :
    LET slots == db[k].slots
    IN  \A i \in DOMAIN slots :
          /\ ValidRange(slots[i], db[Text(db[k].text)].content)
          /\ \A j \in DOMAIN slots \ {i} :
               slots[i].end <= slots[j].start \/ slots[j].end <= slots[i].start

(* "A slot always keeps at least its seed" (DeleteUserFragments), which     *)
(* "CloseRound/WinningFragment already rely on": also when the batch that   *)
(* opens the slot stops half-way or races with others, and whatever is      *)
(* deleted meanwhile, as long as the text is there.                         *)
SeedKept ==
  \A k \in {k \in KeysOf("round") : Has(Text(db[k].text))} :
    \A i \in DOMAIN db[k].slots :
      LET slot == db[k].slots[i]
      IN  \E f \in Fragments(db[k].text, slot.id) :
            /\ Has(Fragment(f))
            /\ db[Fragment(f)].author = Seed
            /\ db[Fragment(f)].content =
                 SubSeq(db[Text(db[k].text)].content, slot.start + 1, slot.end)

\* The pointers and the round index of a text that is there lead to its records.
PointersResolve ==
  /\ \A k \in KeysOf("currentround") : Has(Text(k[2])) =>
       Has(Round(db[k])) /\ db[Round(db[k])].text = k[2]
  /\ \A k \in KeysOf("roundindex") : Has(Text(k[2])) =>
       Has(Round(k[3])) /\ db[Round(k[3])].text = k[2]
  /\ \A k \in KeysOf("supersededby") : Has(Text(db[k])) => db[Text(db[k])].previous = k[2]

\* The indexes of fragments and of votes lead to fragments.
FragmentsResolve ==
  /\ \A k \in KeysOf("fragmentindex") : Has(Fragment(k[4])) /\ db[Fragment(k[4])].slot = k[3]
  /\ \A k \in KeysOf("vote") : Has(Fragment(k[2]))

(* Whatever stops half-way, no index or pointer leads to a record that is   *)
(* not there: DueScheduledRounds, Fragments, RoundsForText and TextsByTags  *)
(* fail as a whole, or lose a text, on the first that does.  For the        *)
(* pointers of a text that is there this holds whatever is deleted          *)
(* meanwhile; for fragments and votes, when no deletion is under way, has   *)
(* overlapped another call or has stopped half-way.                         *)
IndexesResolve ==
  /\ PointersResolve
  /\ ~unclean /\ ~(\E p \in Proc : Deleting(p)) => FragmentsResolve

(* A fork is its predecessor, rune by rune, with the range of each slot of  *)
(* the closed round replaced by the content that won it (spliceContent),    *)
(* and "CreatedBy carries forward" with it (DeleteUserTexts).               *)
ForkIsSplice ==
  \A t \in {t \in Texts : Has(Text(db[Text(t)].previous))} :
    LET old == db[Text(db[Text(t)].previous)].content
        slots == outcomes[t].slots
        Starting(i) == {s \in DOMAIN slots : slots[s].start = i - 1}
        Covered(i) == \E s \in DOMAIN slots : slots[s].start < i /\ i <= slots[s].end
        piece(i) ==
          IF Starting(i) # {} THEN outcomes[t].winners[CHOOSE s \in Starting(i) : TRUE]
            ELSE IF Covered(i) THEN <<>> ELSE << old[i] >>
    IN  /\ db[Text(t)].content = FlattenSeq([i \in 1 .. Len(old) |-> piece(i)])
        /\ db[Text(t)].createdBy = db[Text(db[Text(t)].previous)].createdBy

(* "A text is open for proposals from creation to its latest version        *)
(* without a gap" (CloseRound): when no call is under way and no batch has  *)
(* stopped half-way, every version that nothing supersedes has an open      *)
(* round, whatever closes, schedules, proposals and deletions raced before. *)
HeadIsOpen ==
  Quiet /\ ~interrupted =>
    \A t \in Texts :
      ~Has(SupersededBy(t)) =>
        Has(CurrentRound(t)) /\ db[Round(db[CurrentRound(t)])].status = "open"

(* Closing a round carries every subscriber forward: unless a batch has     *)
(* stopped half-way or a deletion has overlapped another call, a user who   *)
(* followed a text, and has not left it nor seen it deleted, follows some   *)
(* version, or is about to, whatever closes raced (CloseRound).             *)
NobodyLosesTheText ==
  ~interrupted /\ ~unclean =>
    \A u \in following :
      \/ \E k \in KeysOf("subscription") : k[3] = u
      \/ \E p \in Proc : \E i \in DOMAIN ops[p] :
           ops[p][i].key[1] = "subscription" /\ ops[p][i].key[3] = u /\ ~ops[p][i].tombstone

\* The fragments of slot s of text t that user u has a vote for.
VotesOf(t, s, u) ==
  {k[2] : k \in {k \in KeysOf("vote") :
                   k[3] = u /\ db[Fragment(k[2])].text = t /\ db[Fragment(k[2])].slot = s}}

(* A user whose calls do not overlap has, between them, exactly one vote in *)
(* each slot they have voted in, for the fragment that UserVotes gives for  *)
(* the slot, unless a batch has stopped half-way or a deletion has          *)
(* overlapped another call (CastVote, DeleteUserFragments).                 *)
VotesMatchChoice ==
  ~Overlap /\ ~interrupted /\ ~unclean /\ ~(\E p \in Proc : Deleting(p)) =>
    \A u \in User : ~Busy(u) =>
      \A k \in KeysOf("fragmentindex") :
        VotesOf(k[2], k[3], u) =
          IF k[3] \in DOMAIN UserVotes(k[2], u) THEN {UserVotes(k[2], u)[k[3]]} ELSE {}

\* The texts that a key, or what it holds, is about.
TextOf(k) ==
  CASE k[1] \in {"text", "currentround", "roundcount", "roundindex", "supersededby",
                 "fragmentindex", "uservote", "subscription"} -> k[2]
    [] k[1] \in {"tagindex", "subscriptionindex"} -> k[3]
    [] k[1] \in {"round", "fragment"} -> db[k].text
    [] k[1] = "vote" -> db[Fragment(k[2])].text

\* The user that a key, or what it holds, is of.
UserOf(k) ==
  CASE k[1] = "text" -> db[k].createdBy
    [] k[1] = "fragment" -> db[k].author
    [] k[1] \in {"vote", "subscription"} -> k[3]
    [] k[1] = "uservote" -> k[4]
    [] k[1] = "subscriptionindex" -> k[2]
    [] OTHER -> Seed

(* A deleted text leaves nothing: "itself, every round ever opened on it,   *)
(* every fragment proposed for any of those rounds' slots, every vote on    *)
(* those fragments, and every voter's current-choice pointer", the labels   *)
(* and the subscriptions (DeleteText), except the labels and subscriptions  *)
(* of a text deleted with its creator (DeleteUserTexts).  A deleted user    *)
(* leaves no text, fragment, vote, choice or subscription.  This is when    *)
(* no call is under way, no batch has stopped half-way and no deletion has  *)
(* overlapped another call.  A close that moves a subscription while its    *)
(* user subscribes again can leave only one of its two records; the         *)
(* deletions look for one and so pass over the other.                       *)
DeletionLeavesNothing ==
  Quiet /\ ~interrupted /\ ~unclean =>
    \A k \in DOMAIN db :
      /\ \/ Has(Text(TextOf(k)))
         \/ k[1] \in {"tagindex", "subscription", "subscriptionindex"} /\ TextOf(k) \in erased
         \/ k[1] \in {"subscription", "subscriptionindex"} /\ torn
      /\ UserOf(k) \notin User \cap erased \/ (k[1] \in {"subscription", "subscriptionindex"} /\ torn)

(* "A label offering three texts that resolve to two is a filter nobody can *)
(* trust" (Tags): a label counts as many texts as filtering by it finds,    *)
(* and the two labels of a crossing find the recent texts that carry both.  *)
(* The labels of texts deleted with their creator are counted and not       *)
(* found: DeleteUserTexts leaves them.                                      *)
TagsCountWhatTheyFind ==
  Quiet /\ ~interrupted /\ ~unclean =>
    \A g \in Tag :
      /\ (IF g \in DOMAIN TagCounts THEN TagCounts[g] ELSE 0) =
           Len(TextsByTags(<< g >>)) + Cardinality(Tagged(g) \cap erased)
      /\ \A h \in Tag : TextsByTags(<< g, h >>) =
           SortedTexts({t \in ToSet(RecentTexts) : {g, h} \subseteq db[Text(t)].tags})

(* "Any version's id is a valid entry point" to a text's history            *)
(* (historyHandler, TextChain): each version leads to the same chain, in    *)
(* the order of creation, unless two closes of one round forked it twice or *)
(* a version was deleted out of it (the previous one of a version, or the   *)
(* one of two forks that its predecessor leads to).                         *)
ChainFromAnyVersion ==
  Quiet /\ ~interrupted =>
    LET previous(t) == db[Text(t)].previous
        broken == \/ \E t \in Texts : previous(t) # 0 /\ ~Has(Text(previous(t)))
                  \/ \E t, u \in Texts : t # u /\ previous(t) = previous(u) /\ previous(t) # 0
                  \/ \E t \in Texts : LET k == SupersededBy(previous(t)) IN Has(k) /\ ~Has(Text(db[k]))
    IN  \/ broken
        \/ \A t \in Texts : \A i \in DOMAIN TextChain(t) :
             /\ TextChain(TextChain(t)[i]) = TextChain(t)
             /\ i > 1 => TextChain(t)[i - 1] < TextChain(t)[i]
=============================================================================
