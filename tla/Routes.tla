------------------------------- MODULE Routes -------------------------------
(***************************************************************************)
(* What the api's routes do around the repository (texts.go, slots.go,     *)
(* votes.go, subscriptions.go, search.go, notifications.go,                *)
(* devices.go, admin.go, scheduled_close.go, notify/): who may act on a    *)
(* text, what the search index holds, and who is told of what, in the      *)
(* inbox and on which devices.  How an inbox is read is module Inbox.      *)
(*                                                                         *)
(* A call of the repository is one step here (module Repository takes it   *)
(* apart); what lies between two calls of one handler, or of one delivery  *)
(* in the background, is not.  The deletions may stop half-way here too:   *)
(* the index depends on it.  What a creation, a proposal or a close leaves *)
(* that stops half-way is module Repository's.  Rights do not change       *)
(* (module Accounts), and somebody whose account was deleted still holds a *)
(* token and may act.                                                      *)
(***************************************************************************)
EXTENDS Integers, Sequences, FiniteSets

CONSTANTS
  Proc,     \* goroutines that serve requests
  Worker,   \* the goroutine of the scheduled-close worker
  User,
  Admin,    \* the user with the root right
  Rights,   \* Rights[u]: the actions u is allowed
  Device,   \* tokens of app installations
  Prune,    \* SEARCH_PRUNE_SUPERSEDED
  SearchLimit,  \* how many points a search asks the vector store for
  None,
  Bound     \* Bound[kind]: how many requests of a kind and faults there are,
            \* and of all of them together ("event")

Kinds == {"create", "propose", "vote", "close", "schedule", "tick", "subscribe", "leave",
          "delete", "deleteUser", "device", "fault", "event"}
Action == {"vote", "createText", "closeText", "editText", "subscribe"}
EventType == {"text.edit-proposed", "text.round-closed", "text.vote-cast"}

\* SeedAuthorID: the author of the fragment that keeps a slot as it was.
Seed == "seed"

ASSUME AdminAssumption == Admin \in User
ASSUME RightsAssumption == Rights \in [User -> SUBSET Action]
ASSUME WorkerAssumption == Worker \notin Proc
ASSUME LimitAssumption == SearchLimit \in Nat \ {0}
ASSUME BoundAssumption == Bound \in [Kinds -> Nat]

VARIABLES
  texts,      \* the texts ever created, deleted ones too; an id is a place in it
  fragments,  \* <<t, a>>: a fragment of author a competes on text t
  follows,    \* <<u, t>>: u subscribes to t
  accounts,   \* the rows of the users table
  inbox,      \* inbox[u]: u's rows of the notifications table
  devices,    \* the device_tokens table: whose device it is, or None
  index,      \* the texts with a point in the vector store
  due,        \* the rounds that the worker's current tick still has to close
  call,       \* call[p]: the request that p serves, and what it does next
  events,     \* the events so far, each with how far its delivery is
  used,       \* how many requests and faults of each kind there have been
  signedIn,   \* history: who is signed in on each device
  unserved,   \* history: devices that a failed call has left to somebody else
  astray      \* history: texts whose index entry a fault or a race left wrong

store == <<texts, fragments, follows>>
owners == <<devices, signedIn, unserved>>
tables == <<accounts, inbox, owners>>
search == <<index, astray>>
vars == <<store, tables, search, due, call, events, used>>

-----------------------------------------------------------------------------
(* The repository, as far as the routes see it.                             *)

Ids == 1 .. Len(texts)
Exists(t) == texts[t].exists

\* previous: the version it was forked from (0: none); next: supersededby;
\* slots: whether anything was proposed in its round; closeBy:
\* ScheduledCloseBy; asked: history, who asked for the scheduled close;
\* first: history, the first version.
NewText(previous, creator, first) ==
  [exists |-> TRUE, previous |-> previous, createdBy |-> creator, next |-> 0, slots |-> FALSE,
   closeBy |-> None, asked |-> None, first |-> first]

\* A deletion takes the supersededby mark with the text; one that stops
\* half-way may have left it.
Gone(t) == [t EXCEPT !.exists = FALSE, !.slots = FALSE, !.closeBy = None]
Deleted(t) == [Gone(t) EXCEPT !.next = 0]

\* A text has an open round until a close replaces it.
RoundOpen(t) == Exists(t) /\ texts[t].next = 0
IsSuperseded(t) == texts[t].next # 0

Followers(t) == {u \in User : <<u, t>> \in follows}

\* Mutant of TextChain: the version asked for alone.
TextChainOfOne(t) == {t}

\* TextChain: back along PreviousTextID and forward along supersededby, each
\* up to a version that is gone.
TextChain(t) ==
  LET Back[v \in Ids] == IF texts[v].previous # 0 /\ Exists(texts[v].previous)
                         THEN {v} \cup Back[texts[v].previous] ELSE {v}
      Ahead[v \in Ids] == IF texts[v].next # 0 /\ Exists(texts[v].next)
                          THEN {v} \cup Ahead[texts[v].next] ELSE {v}
  IN  Back[t] \cup Ahead[t]

\* History: the versions of one text.
Lineage(t) == {v \in Ids : texts[v].first = texts[t].first}

-----------------------------------------------------------------------------
(* Requests and gates (middleware.go).                                      *)

NoCall == [op |-> "none", by |-> None, text |-> 0, doer |-> None, texts |-> {}]
Request(op, u, t) == [NoCall EXCEPT !.op = op, !.by = u, !.text = t, !.doer = u]

Init ==
  /\ texts = <<>> /\ fragments = {} /\ follows = {}
  /\ accounts = User /\ inbox = [u \in User |-> {}]
  /\ devices = [d \in Device |-> None] /\ signedIn = [d \in Device |-> None] /\ unserved = {}
  /\ index = {} /\ astray = {}
  /\ due = {}
  /\ call = [p \in Proc \cup {Worker} |-> NoCall]
  /\ events = <<>>
  /\ used = [kind \in Kinds |-> 0]

Use(kind) ==
  /\ used[kind] < Bound[kind] /\ used["event"] < Bound["event"]
  /\ used' = [used EXCEPT ![kind] = @ + 1, !["event"] = @ + 1]

At(p, op) == call[p].op = op
Becomes(p, c) == call' = [call EXCEPT ![p] = c]
Returns(p) == Becomes(p, NoCall)
Goes(p, op) == Becomes(p, [call[p] EXCEPT !.op = op])
Arrives(p, kind, c) == p # Worker /\ call[p] = NoCall /\ Use(kind) /\ Becomes(p, c)

\* Claims.Allows: the root right passes every check.
Allows(u, a) == u = Admin \/ a \in Rights[u]

\* requireSubscription
MayActOn(u, t) == u = Admin \/ <<u, t>> \in follows

\* The part of a handler before its call of the repository.
Gate(p, kind, op, u, t, a) ==
  /\ Allows(u, a) /\ MayActOn(u, t)
  /\ Arrives(p, kind, Request(op, u, t))
  /\ UNCHANGED <<store, tables, search, due, events>>

-----------------------------------------------------------------------------
(* Events and their deliveries (notifications.go, notify/).                 *)

\* version, doer, owed, left and kept are history: the version that the event
\* is news of, who brought it about, who should hear of it, who left the text
\* while the delivery held their name, whose entry a failed clean-up kept (for
\* an account, only the deletion of its row takes them).
Event(type, t, version, by, doer, author, audience) ==
  [type |-> type, text |-> t, by |-> by, author |-> author,
   at |-> IF type = "text.vote-cast" THEN "resolve" ELSE "recipients",
   to |-> {}, tokens |-> {}, saved |-> FALSE, lost |-> FALSE,
   version |-> version, doer |-> doer, owed |-> audience \ {doer}, left |-> {}, kept |-> {}]

EditProposed(t, u) == Event("text.edit-proposed", t, t, u, u, None, Followers(t))

\* Mutant of RoundClosed: the event names the version the round was open on.
RoundClosedOnOld(t, by, doer) ==
  Event("text.round-closed", texts[t].previous, t, by, doer, None, Followers(t))

\* The event names the fork: the close has moved the subscriptions to it.
RoundClosed(t, by, doer) == Event("text.round-closed", t, t, by, doer, None, Followers(t))

VoteCast(t, a, u) == Event("text.vote-cast", t, t, u, u, a, Followers(t))

Goroutine(i, at) == i \in DOMAIN events /\ events[i].at = at
Delivery(i, e) == events' = [events EXCEPT ![i] = e]
GivenUp(e) == [e EXCEPT !.at = "done", !.lost = TRUE]

\* VoteCast's lookups of the fragment and of its text.
ResolveVote(i) ==
  /\ Goroutine(i, "resolve")
  /\ LET e == events[i]
     IN  Delivery(i, IF <<e.text, e.author>> \in fragments /\ Exists(e.text)
                     THEN [e EXCEPT !.at = "recipients"] ELSE GivenUp(e))
  /\ UNCHANGED <<store, tables, search, due, call, used>>

\* SubscribersForText; the dispatcher does nothing when nobody is left.
Recipients(i) ==
  /\ Goroutine(i, "recipients")
  /\ LET to == Followers(events[i].text) \ {events[i].by}
     IN  Delivery(i, [events[i] EXCEPT !.to = to, !.at = IF to = {} THEN "done" ELSE "addresses"])
  /\ UNCHANGED <<store, tables, search, due, call, used>>

\* DeviceTokensForUsers
Addresses(i) ==
  /\ Goroutine(i, "addresses")
  /\ Delivery(i, [events[i] EXCEPT !.at = "dispatch",
                                   !.tokens = {d \in Device : devices[d] \in events[i].to}])
  /\ UNCHANGED <<store, tables, search, due, call, used>>

\* The channels run side by side; Notify waits for all of them.
Ended(e) == IF e.saved /\ e.tokens = {} THEN [e EXCEPT !.at = "done"] ELSE e

\* A row: what it says is all in the event that it is about.
Row(i) == [event |-> i]

\* InboxChannel.Send and SaveNotifications: one INSERT for all recipients,
\* whose user_id references users(id), so that one missing account fails it.
SaveNotifications(i) ==
  /\ Goroutine(i, "dispatch") /\ ~events[i].saved
  /\ LET e == events[i]
         whole == e.to \subseteq accounts
     IN  /\ Delivery(i, Ended([e EXCEPT !.saved = TRUE, !.lost = ~whole]))
         /\ inbox' = [u \in User |->
              IF whole /\ u \in e.to THEN inbox[u] \cup {Row(i)} ELSE inbox[u]]
  /\ UNCHANGED <<store, accounts, owners, search, due, call, used>>

\* PushChannel.sendOne: sent, or refused and not tried again.
Push(i, d) ==
  /\ Goroutine(i, "dispatch") /\ d \in events[i].tokens
  /\ Delivery(i, Ended([events[i] EXCEPT !.tokens = @ \ {d}]))
  /\ UNCHANGED <<store, tables, search, due, call, used>>

\* FCM answers 404, the app is gone from the device: DeleteDeviceToken.
PushUnregistered(i, d) ==
  /\ Goroutine(i, "dispatch") /\ d \in events[i].tokens /\ Use("fault")
  /\ Delivery(i, Ended([events[i] EXCEPT !.tokens = @ \ {d}]))
  /\ devices' = [devices EXCEPT ![d] = None]
  /\ signedIn' = [signedIn EXCEPT ![d] = None]
  /\ UNCHANGED <<store, accounts, inbox, unserved, search, due, call>>

\* A lookup fails, which ends the delivery, or the INSERT, or notifyTimeout
\* has passed.
DeliveryFails(i) ==
  /\ i \in DOMAIN events /\ events[i].at # "done" /\ ~events[i].saved /\ Use("fault")
  /\ LET e == events[i]
     IN  Delivery(i, IF e.at = "dispatch" THEN Ended([e EXCEPT !.saved = TRUE, !.lost = TRUE])
                     ELSE GivenUp(e))
  /\ UNCHANGED <<store, tables, search, due, call>>

-----------------------------------------------------------------------------
(* Texts, edits and votes (texts.go, slots.go, votes.go).                   *)

\* createTextHandler: CreateText subscribes the author; IndexText comes next.
CreateText(p, u) ==
  LET t == Len(texts) + 1
  IN  /\ Allows(u, "createText")
      /\ Arrives(p, "create", Request("index", u, t))
      /\ texts' = Append(texts, NewText(0, u, t))
      /\ follows' = follows \cup {<<u, t>>}
      /\ UNCHANGED <<fragments, tables, search, due, events>>

\* The upsert of a text's point; one that follows the text's deletion stays.
Indexed(t) ==
  /\ index' = index \cup {t}
  /\ astray' = IF Exists(t) THEN astray ELSE astray \cup {t}

\* Embed or the upsert fails: it is logged.
NotIndexed(t) == Use("fault") /\ astray' = astray \cup {t} /\ UNCHANGED index

IndexText(p) ==
  /\ At(p, "index")
  /\ \/ Indexed(call[p].text) /\ UNCHANGED used
     \/ NotIndexed(call[p].text)
  /\ Returns(p)
  /\ UNCHANGED <<store, tables, due, events>>

\* proposeEditHandler
ProposeEditGate(p, u, t) == Gate(p, "propose", "propose", u, t, "editText")

\* ProposeEdit and EditProposed; a text that is gone or superseded refuses.
ProposeEdit(p) ==
  /\ At(p, "propose") /\ Returns(p)
  /\ LET t == call[p].text
         u == call[p].by
     IN  IF RoundOpen(t)
         THEN /\ texts' = [texts EXCEPT ![t].slots = TRUE]
              /\ fragments' = fragments \cup {<<t, u>>, <<t, Seed>>}
              /\ events' = Append(events, EditProposed(t, u))
         ELSE UNCHANGED <<texts, fragments, events>>
  /\ UNCHANGED <<follows, tables, search, due, used>>

\* castVoteHandler asks for no subscription, nor does CastVote for an open round.
CastVote(u, t, a) ==
  /\ Allows(u, "vote") /\ <<t, a>> \in fragments
  /\ Use("vote")
  /\ events' = Append(events, VoteCast(t, a, u))
  /\ UNCHANGED <<store, tables, search, due, call>>

-----------------------------------------------------------------------------
(* Closing (slots.go, scheduled_close.go).                                  *)

\* closeRoundHandler, scheduleCloseHandler
CloseRoundGate(p, u, t) == Gate(p, "close", "close", u, t, "closeText")
ScheduleCloseGate(p, u, t) == Gate(p, "schedule", "schedule", u, t, "closeText")

\* CloseRound forks the text and moves its subscriptions to the fork; a round
\* that is not open, or is empty, refuses.
CloseRound(p) ==
  LET t == call[p].text
      fork == Len(texts) + 1
  IN  /\ At(p, "close")
      /\ IF RoundOpen(t) /\ texts[t].slots
         THEN /\ texts' = Append([texts EXCEPT ![t].next = fork],
                                 NewText(t, texts[t].createdBy, texts[t].first))
              /\ follows' = {IF s[2] = t THEN <<s[1], fork>> ELSE s : s \in follows}
              /\ Becomes(p, [call[p] EXCEPT !.op = "indexFork", !.text = fork])
         ELSE UNCHANGED <<texts, follows>> /\ Returns(p)
      /\ UNCHANGED <<fragments, tables, search, due, events, used>>

Announces(p) ==
  events' = Append(events, RoundClosed(call[p].text, call[p].by, call[p].doer))

\* IndexFinalizedText, then RoundClosed whether it worked or not.
IndexFork(p) ==
  /\ At(p, "indexFork")
  /\ \/ Indexed(call[p].text) /\ Goes(p, "prune") /\ UNCHANGED <<used, events>>
     \/ NotIndexed(call[p].text) /\ Returns(p) /\ Announces(p)
  /\ UNCHANGED <<store, tables, due>>

\* With SEARCH_PRUNE_SUPERSEDED the replaced version's point is removed, or
\* stays and is logged.
PruneSuperseded(p) ==
  /\ At(p, "prune") /\ Returns(p) /\ Announces(p)
  /\ \/ index' = index \ {t \in {texts[call[p].text].previous} : Prune} /\ UNCHANGED used
     \/ Prune /\ Use("fault") /\ UNCHANGED index
  /\ UNCHANGED <<store, tables, astray, due>>

\* Mutant of ScheduleClose: the round does not keep who asked.
ScheduleCloseUnsigned(p) ==
  /\ At(p, "schedule") /\ Returns(p)
  /\ LET t == call[p].text
     IN  texts' = IF RoundOpen(t) /\ texts[t].slots
                  THEN [texts EXCEPT ![t].closeBy = "", ![t].asked = call[p].by] ELSE texts
  /\ UNCHANGED <<fragments, follows, tables, search, due, events, used>>

\* ScheduleRoundClose
ScheduleClose(p) ==
  /\ At(p, "schedule") /\ Returns(p)
  /\ LET t == call[p].text
     IN  texts' = IF RoundOpen(t) /\ texts[t].slots
                  THEN [texts EXCEPT ![t].closeBy = call[p].by, ![t].asked = call[p].by] ELSE texts
  /\ UNCHANGED <<fragments, follows, tables, search, due, events, used>>

\* A tick lists the scheduled rounds whose date has passed: any of them.
Tick ==
  /\ due = {} /\ call[Worker] = NoCall /\ Use("tick")
  /\ \E passed \in SUBSET {t \in Ids : RoundOpen(t) /\ texts[t].closeBy # None} \ {{}} :
       due' = {[text |-> t, by |-> texts[t].closeBy, doer |-> texts[t].asked] : t \in passed}
  /\ UNCHANGED <<store, tables, search, call, events>>

\* The worker closes the next one, as a request would, for whoever asked.
CloseDue ==
  /\ call[Worker] = NoCall
  /\ \E d \in due :
       /\ due' = due \ {d}
       /\ Becomes(Worker, [Request("close", d.by, d.text) EXCEPT !.doer = d.doer])
  /\ UNCHANGED <<store, tables, search, events, used>>

-----------------------------------------------------------------------------
(* Subscriptions (subscriptions.go).                                        *)

\* subscribeHandler; following a text again changes nothing and is left out.
Subscribe(u, t) ==
  /\ Allows(u, "subscribe") /\ Exists(t) /\ <<u, t>> \notin follows
  /\ Use("subscribe")
  /\ follows' = follows \cup {<<u, t>>}
  /\ UNCHANGED <<texts, fragments, tables, search, due, call, events>>

\* History: u is owed no news of t's versions any more; a delivery that has
\* looked up its recipients may still write to u.
LeavesEvent(e, u, t) ==
  IF e.version \in Lineage(t)
  THEN [e EXCEPT !.owed = @ \ {u}, !.left = IF u \in e.to /\ ~e.saved THEN @ \cup {u} ELSE @]
  ELSE e

\* unsubscribeHandler: no right is asked for, and Unsubscribe removes the
\* subscription to the very version that is named.
Unsubscribe(p, u, t) ==
  /\ Arrives(p, "leave", Request("chain", u, t))
  /\ follows' = follows \ {<<u, t>>}
  /\ events' = [i \in DOMAIN events |-> LeavesEvent(events[i], u, t)]
  /\ UNCHANGED <<texts, fragments, tables, search, due>>

\* forgetNotifications: the versions whose entries go; of a text that is gone,
\* its id alone.
ReadChain(p) ==
  /\ At(p, "chain")
  /\ LET t == call[p].text
     IN  Becomes(p, [call[p] EXCEPT !.op = "forget",
                                    !.texts = IF Exists(t) THEN TextChain(t) ELSE {t}])
  /\ UNCHANGED <<store, tables, search, due, events, used>>

\* DeleteNotificationsForTexts, whose failure is logged.  (History: what it
\* takes is owed no more, also when u has come back in the meantime.)
ForgetNotifications(p) ==
  /\ At(p, "forget") /\ Returns(p)
  /\ LET u == call[p].by
         about == {i \in DOMAIN events : events[i].text \in call[p].texts}
     IN  \/ /\ inbox' = [inbox EXCEPT ![u] = {row \in @ : row.event \notin about}]
            /\ events' = [i \in DOMAIN events |->
                 IF i \in about THEN [events[i] EXCEPT !.owed = @ \ {u}] ELSE events[i]]
            /\ UNCHANGED used
         \/ /\ Use("fault") /\ UNCHANGED inbox
            /\ events' = [i \in DOMAIN events |->
                 IF i \in about THEN [events[i] EXCEPT !.kept = @ \cup {u}] ELSE events[i]]
  /\ UNCHANGED <<store, accounts, owners, search, due>>

-----------------------------------------------------------------------------
(* Deletions (texts.go, admin.go).                                          *)

\* deleteTextHandler: the right to create is the right to delete.
DeleteTextGate(p, u, t) == Gate(p, "delete", "delete", u, t, "createText")

FragmentsOf(t) == {f \in fragments : f[1] = t}
SubscriptionsTo(t) == {s \in follows : s[2] = t}

\* DeleteText takes the text, its fragments and its subscriptions; of a text
\* that is gone it finds nothing, whatever an earlier call has left of it.
DeleteText(p) ==
  LET t == call[p].text
  IN  /\ At(p, "delete") /\ Goes(p, "unindex")
      /\ IF Exists(t)
         THEN /\ texts' = [texts EXCEPT ![t] = Deleted(@)]
              /\ fragments' = fragments \ FragmentsOf(t)
              /\ follows' = follows \ SubscriptionsTo(t)
         ELSE UNCHANGED store
      /\ UNCHANGED <<tables, search, due, events, used>>

\* The text is gone when the batch of the deletion stops, or answers an error:
\* then the mark, the fragments and the subscriptions, in this order, as far as
\* it got.  The handler answers 500 before it comes to the index.
DeleteTextHalfway(p) ==
  LET t == call[p].text
  IN  /\ At(p, "delete") /\ Exists(t) /\ Use("fault") /\ Returns(p)
      /\ \/ texts' = [texts EXCEPT ![t] = Gone(@)] /\ UNCHANGED <<fragments, follows>>
         \/ /\ texts' = [texts EXCEPT ![t] = Deleted(@)]
            /\ \/ \E fs \in SUBSET FragmentsOf(t) : fragments' = fragments \ fs /\ UNCHANGED follows
               \/ \E ss \in SUBSET SubscriptionsTo(t) :
                    fragments' = fragments \ FragmentsOf(t) /\ follows' = follows \ ss
      /\ astray' = astray \cup {t}
      /\ UNCHANGED <<tables, index, due, events>>

\* Mutant of Removed: nothing is removed.
RemovedNothing(t) == UNCHANGED search

\* RemoveText: the point goes, if there is one; it also ends what a race left.
Removed(t) == index' = index \ {t} /\ astray' = astray \ {t}
NotRemoved(t) == Use("fault") /\ astray' = astray \cup {t} /\ UNCHANGED index

\* RemoveText, also when the text was already gone.
RemoveText(p) ==
  /\ At(p, "unindex") /\ Returns(p)
  /\ \/ Removed(call[p].text) /\ UNCHANGED used
     \/ NotRemoved(call[p].text)
  /\ UNCHANGED <<store, tables, due, events>>

CreatedBy(u) == {t \in Ids : Exists(t) /\ texts[t].createdBy = u}

\* deleteUserHandler, for root and not for oneself: DeleteUserTexts takes the
\* texts and their fragments and leaves the subscriptions to them.
DeleteUser(p, u) ==
  /\ u # Admin /\ u \in accounts
  /\ Arrives(p, "deleteUser", [Request("purge", u, 0) EXCEPT !.texts = CreatedBy(u)])
  /\ texts' = [t \in Ids |-> IF t \in CreatedBy(u) THEN Deleted(texts[t]) ELSE texts[t]]
  /\ fragments' = {f \in fragments : f[1] \notin CreatedBy(u)}
  /\ UNCHANGED <<follows, tables, search, due, events>>

\* The batch stops or answers an error with the texts ts gone, the last of them
\* perhaps with its mark, and only when all are gone some of their fragments:
\* the handler answers 500, and comes neither to the index nor to the row.
DeleteUserHalfway(u) ==
  /\ u # Admin /\ u \in accounts /\ Use("fault")
  /\ \E ts \in SUBSET CreatedBy(u) \ {{}} :
       /\ \/ \E last \in ts \cup {0} :
              /\ texts' = [t \in Ids |-> IF t = last THEN Gone(texts[t])
                                         ELSE IF t \in ts THEN Deleted(texts[t]) ELSE texts[t]]
              /\ UNCHANGED fragments
          \/ /\ ts = CreatedBy(u)
             /\ texts' = [t \in Ids |-> IF t \in ts THEN Deleted(texts[t]) ELSE texts[t]]
             /\ \E fs \in SUBSET {f \in fragments : f[1] \in ts} : fragments' = fragments \ fs
       /\ astray' = astray \cup ts
  /\ UNCHANGED <<follows, tables, index, due, call, events>>

\* RemoveText of each text that went.
PurgeText(p) ==
  /\ At(p, "purge")
  /\ \E t \in call[p].texts :
       /\ Becomes(p, [call[p] EXCEPT !.texts = @ \ {t}])
       /\ \/ Removed(t) /\ UNCHANGED used
          \/ NotRemoved(t)
  /\ UNCHANGED <<store, tables, due, events>>

\* DeleteUserFragments and DeleteUserVotes; the batch may stop half-way.
DeleteUserFragments(p) ==
  LET hers == {f \in fragments : f[2] = call[p].by}
  IN  /\ At(p, "purge") /\ call[p].texts = {}
      /\ \/ fragments' = fragments \ hers /\ Goes(p, "unfollow") /\ UNCHANGED used
         \/ \E fs \in SUBSET hers : fragments' = fragments \ fs /\ Use("fault") /\ Returns(p)
      /\ UNCHANGED <<texts, follows, tables, search, due, events>>

\* The subscriptions; the batch may stop half-way.
DeleteUserSubscriptions(p) ==
  LET hers == {s \in follows : s[1] = call[p].by}
  IN  /\ At(p, "unfollow")
      /\ \/ follows' = follows \ hers /\ Goes(p, "row") /\ UNCHANGED used
         \/ \E ss \in SUBSET hers \ {{}} : follows' = follows \ ss /\ Use("fault") /\ Returns(p)
      /\ events' = [i \in DOMAIN events |->
           [events[i] EXCEPT !.owed = @ \ {call[p].by}, !.kept = @ \cup {call[p].by}]]
      /\ UNCHANGED <<texts, fragments, tables, search, due>>

\* The table of the devices after u gave up the devices ds.
GivesUp(table, u, ds) == [d \in Device |-> IF d \in ds /\ table[d] = u THEN None ELSE table[d]]

\* store.DeleteUser: the row, and with it the rows that reference it.
DeleteRow(p) ==
  LET u == call[p].by
  IN  /\ At(p, "row") /\ Returns(p)
      /\ accounts' = accounts \ {u}
      /\ inbox' = [inbox EXCEPT ![u] = {}]
      /\ devices' = GivesUp(devices, u, Device)
      /\ signedIn' = GivesUp(signedIn, u, Device)
      /\ UNCHANGED <<store, unserved, search, due, events, used>>

\* A call of the repository or of the store fails before it has written
\* anything, which ends the request: the deletion of an account then stays
\* half-way, with the account's row.
CallFails(p) ==
  /\ call[p].op \in {"propose", "close", "schedule", "delete", "unfollow", "row"}
  /\ Use("fault") /\ Returns(p)
  /\ UNCHANGED <<store, tables, search, due, events>>

-----------------------------------------------------------------------------
(* The devices (devices.go).                                                *)

\* registerDeviceHandler: a token moves to whoever signs in on its device.
RegisterDevice(u, d) ==
  /\ u \in accounts /\ Use("device")
  /\ devices' = [devices EXCEPT ![d] = u]
  /\ signedIn' = [signedIn EXCEPT ![d] = u]
  /\ unserved' = unserved \ {d}
  /\ UNCHANGED <<store, accounts, inbox, search, due, call, events>>

\* The upsert runs under the request's context: when it fails the app is signed
\* in and its token stays whose it was.  (One that is applied all the same is
\* RegisterDevice.)
RegisterDeviceFails(u, d) ==
  /\ u \in accounts /\ Use("fault")
  /\ signedIn' = [signedIn EXCEPT ![d] = u]
  /\ unserved' = unserved \cup ({d} \ {e \in Device : devices[e] = u})
  /\ UNCHANGED <<store, accounts, inbox, devices, search, due, call, events>>

\* The app signs out and asks for the token to be forgotten.
SignOut(p, d) ==
  /\ signedIn[d] # None
  /\ Arrives(p, "device", [Request("unregister", signedIn[d], 0) EXCEPT !.texts = {d}])
  /\ signedIn' = [signedIn EXCEPT ![d] = None]
  /\ UNCHANGED <<store, accounts, inbox, devices, unserved, search, due, events>>

\* Mutant of UnregisterDevice: whoever's device it has become.
UnregisterDeviceUnscoped(p) ==
  /\ At(p, "unregister") /\ Returns(p)
  /\ devices' = [d \in Device |-> IF d \in call[p].texts THEN None ELSE devices[d]]
  /\ signedIn' = GivesUp(signedIn, call[p].by, call[p].texts)
  /\ UNCHANGED <<store, accounts, inbox, unserved, search, due, events, used>>

\* unregisterDeviceHandler: only if the token still belongs to the caller.
\* (History: a sign-out served late, after its user has signed in again,
\* leaves the device silent until it registers anew.)
UnregisterDevice(p) ==
  /\ At(p, "unregister") /\ Returns(p)
  /\ devices' = GivesUp(devices, call[p].by, call[p].texts)
  /\ signedIn' = GivesUp(signedIn, call[p].by, call[p].texts)
  /\ UNCHANGED <<store, accounts, inbox, unserved, search, due, events, used>>

\* The DELETE runs under the request's context too.
UnregisterFails(p) ==
  /\ At(p, "unregister") /\ Use("fault") /\ Returns(p)
  /\ unserved' = unserved \cup {d \in call[p].texts : signedIn[d] # devices[d]}
  /\ UNCHANGED <<store, accounts, inbox, devices, signedIn, search, due, events>>

-----------------------------------------------------------------------------
(* The search (slots.go).                                                   *)

\* The points a search comes back with: all there are, or the SearchLimit that
\* are closest to what was asked, which may be any.
Hits ==
  IF Cardinality(index) <= SearchLimit THEN {index}
  ELSE {hits \in SUBSET index : Cardinality(hits) = SearchLimit}

\* searchTextsHandler: of these, those that nothing supersedes.
SearchResults(hits) == {t \in hits : ~IsSuperseded(t)}

-----------------------------------------------------------------------------
Serves(p) ==
  \/ IndexText(p) \/ ProposeEdit(p) \/ CloseRound(p) \/ IndexFork(p) \/ PruneSuperseded(p)
  \/ ScheduleClose(p) \/ ReadChain(p) \/ ForgetNotifications(p) \/ DeleteText(p) \/ DeleteTextHalfway(p)
  \/ RemoveText(p) \/ PurgeText(p) \/ DeleteUserFragments(p) \/ DeleteUserSubscriptions(p)
  \/ DeleteRow(p) \/ UnregisterDevice(p) \/ UnregisterFails(p) \/ CallFails(p)

Asks(p, u) ==
  \/ CreateText(p, u) \/ DeleteUser(p, u)
  \/ \E t \in Ids : \/ ProposeEditGate(p, u, t) \/ CloseRoundGate(p, u, t)
                    \/ ScheduleCloseGate(p, u, t) \/ Unsubscribe(p, u, t)
                    \/ DeleteTextGate(p, u, t)

Does(u) ==
  \/ \E f \in fragments : CastVote(u, f[1], f[2])
  \/ \E t \in Ids : Subscribe(u, t)
  \/ \E d \in Device : RegisterDevice(u, d) \/ RegisterDeviceFails(u, d)
  \/ DeleteUserHalfway(u)

Delivers(i) ==
  \/ ResolveVote(i) \/ Recipients(i) \/ Addresses(i) \/ SaveNotifications(i) \/ DeliveryFails(i)
  \/ \E d \in Device : Push(i, d) \/ PushUnregistered(i, d)

Next ==
  \/ \E p \in Proc \cup {Worker} : Serves(p)
  \/ \E p \in Proc, u \in User : Asks(p, u)
  \/ \E u \in User : Does(u)
  \/ \E p \in Proc, d \in Device : SignOut(p, d)
  \/ Tick \/ CloseDue
  \/ \E i \in DOMAIN events : Delivers(i)

Spec == Init /\ [][Next]_vars

-----------------------------------------------------------------------------
(* Properties.                                                              *)

\* Under way: a request of u, or a deletion of u's account.
Serving(u) == \E p \in Proc : call[p].by = u
Quiet == \A p \in Proc \cup {Worker} : call[p] = NoCall

\* Whoever followed a text when it was edited, voted on or closed, and has
\* kept following it since, finds the news in the inbox once its delivery has
\* ended, though the followers are looked up after the response was sent.  It
\* may go missing when a lookup or the INSERT fails, for everybody at once
\* when one of the recipients has no account any more, and when a later round
\* or a deletion has moved the followers away before the lookup.
FollowersHear ==
  \A i \in DOMAIN events :
    LET e == events[i]
    IN  (e.at = "done" /\ ~e.lost /\ Exists(e.version) /\ ~IsSuperseded(e.version)) =>
          \A u \in e.owed \cap accounts :
            \E row \in inbox[u] : row.event = i

\* Nobody finds news of their own doing in the inbox, nor is their device
\* addressed: not of an edit, a vote or a close, and not of a close that they
\* scheduled and that the worker carried out much later.
NotToldOfOwnDoing ==
  /\ \A u \in User : \A row \in inbox[u] : events[row.event].doer # u
  /\ \A i \in DOMAIN events : events[i].doer \notin events[i].to

\* An inbox holds entries about a text only while its owner follows some
\* version of it: leaving clears those of every version, also of versions
\* that a round has replaced.  Left out are a delivery that had looked up its
\* recipients before they left, a clean-up or the deletion of an account that
\* failed, and texts of which a version was deleted, whose entries nothing
\* removes.
LeftMeansLeft ==
  \A u \in User : \A row \in inbox[u] :
    LET e == events[row.event]
    IN  \/ \E v \in Lineage(e.text) : <<u, v>> \in follows \/ ~Exists(v)
        \/ u \in e.left \cup e.kept
        \/ Serving(u)

\* With no request under way a search offers nothing that was replaced or
\* deleted, and as long as the index holds no more than a search asks for it
\* finds the latest version of every text: across creations, closes by hand and
\* by the worker, pruning, and deletions of texts and of accounts.  Left out are
\* the texts of which the index refused a call, was told after their deletion,
\* or was told nothing because the deletion stopped half-way.  In a larger index
\* the versions that were not pruned may take the places of the latest ones,
\* since the limit comes before the filter.
SearchFindsCurrent ==
  Quiet => \A hits \in Hits :
    /\ SearchResults(hits) \ astray \subseteq {t \in Ids : RoundOpen(t)}
    /\ Cardinality(index) <= SearchLimit =>
         {t \in Ids : RoundOpen(t)} \ astray \subseteq SearchResults(hits)

\* A sign-out that is still to be served, of the user whose device d is.
SigningOut(d) ==
  \E p \in Proc : At(p, "unregister") /\ d \in call[p].texts /\ call[p].by = devices[d]

\* The user signed in on a device is the one who is reached on it: not whoever
\* was before, and not nobody because somebody else's sign-out came late.  Once
\* every sign-out was served nothing is sent to a device where nobody is
\* signed in.  Left out is a device that a registration or a sign-out which
\* failed has left to its former user, until one succeeds in registering it.
DeviceReachesItsUser ==
  \A d \in Device \ unserved :
    IF signedIn[d] # None THEN devices[d] = signedIn[d]
    ELSE devices[d] = None \/ SigningOut(d)
=============================================================================
