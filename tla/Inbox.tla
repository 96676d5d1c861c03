-------------------------------- MODULE Inbox --------------------------------
(***************************************************************************)
(* How one reader's inbox is listed (notifications_inbox.go), while its    *)
(* rows and the texts they are about change: by deliveries, by the reader  *)
(* on another device, by leaving a text, by closes and by deletions.  Who  *)
(* gets a row at all is module Routes.                                     *)
(*                                                                         *)
(* The handler makes two queries and then looks up the texts one by one;   *)
(* each is a step.  A listing changes nothing, so that one at a time shows *)
(* all there is.  Rows are in the order of their serial ids: created_at is *)
(* taken to grow with them.  Every row is about a text.  The marks of what *)
(* the reader has voted on are left out: they change neither the page nor  *)
(* the badge.                                                              *)
(***************************************************************************)
EXTENDS Integers, FiniteSets

CONSTANTS
  Text,       \* the versions that rows are about
  Limit,      \* how many rows the reader asks for: at least one
  MaxRows,    \* bound: how many rows are ever inserted
  MaxChanges  \* bound: how many other changes of rows and texts there are

Type == {"text.edit-proposed", "text.vote-cast"}

\* latestRoundOverfetch
Overfetch == 3

VARIABLES
  rows,     \* the reader's rows of the notifications table
  lastId,   \* the serial id that was given last
  version,  \* version[t]: whether t is the latest, was replaced, or is gone
  changes,  \* how many changes there were
  list      \* the listing under way, or its answer

table == <<rows, lastId>>
vars == <<table, version, changes, list>>

NoList == [at |-> "none", types |-> {}, stored |-> {}, unread |-> {}, todo |-> {}, current |-> {},
           all |-> TRUE, changed |-> {}, old |-> {}]

Init ==
  /\ rows = {} /\ lastId = 0
  /\ version = [t \in Text |-> "latest"]
  /\ changes = 0
  /\ list = NoList

-----------------------------------------------------------------------------
(* What changes the inbox and the texts meanwhile.                          *)

\* History: the rows that change between the two queries of a listing.
Changes(ids) ==
  list' = IF list.at = "count" THEN [list EXCEPT !.changed = @ \cup ids] ELSE list

Change == changes < MaxChanges /\ changes' = changes + 1

\* SaveNotifications; a delivery may come late, about any version.
SaveNotification(t, type) ==
  /\ lastId < MaxRows
  /\ lastId' = lastId + 1
  /\ rows' = rows \cup {[id |-> lastId', type |-> type, text |-> t, read |-> FALSE]}
  /\ Changes({lastId'})
  /\ UNCHANGED <<version, changes>>

\* setNotificationReadHandler, either way; what it leaves as it was is left out.
SetNotificationRead(row, read) ==
  /\ Change
  /\ rows' = (rows \ {row}) \cup {[row EXCEPT !.read = read]}
  /\ Changes({row.id})
  /\ UNCHANGED <<lastId, version>>

MarkAllNotificationsRead ==
  /\ Change
  /\ rows' = {[row EXCEPT !.read = TRUE] : row \in rows}
  /\ Changes({row.id : row \in {r \in rows : ~r.read}})
  /\ UNCHANGED <<lastId, version>>

\* DeleteNotificationsForTexts, of the versions of a text that the reader left.
DeleteNotifications(texts) ==
  /\ Change
  /\ rows' = {row \in rows : row.text \notin texts}
  /\ Changes({row.id : row \in rows \ rows'})
  /\ UNCHANGED <<lastId, version>>

\* CloseRound marks the version that it replaces.
CloseRound(t) ==
  /\ version[t] = "latest" /\ Change
  /\ version' = [version EXCEPT ![t] = "replaced"]
  /\ UNCHANGED <<table, list>>

\* DeleteText takes the mark with the version; the rows about it stay.
DeleteText(t) ==
  /\ version[t] # "gone" /\ Change
  /\ version' = [version EXCEPT ![t] = "gone"]
  /\ UNCHANGED <<table, list>>

-----------------------------------------------------------------------------
(* The listing.                                                             *)

\* The n rows with the greatest ids.
Newest(n, some) == {row \in some : Cardinality({newer \in some : newer.id > row.id}) < n}

RowsOf(types) == {row \in rows : row.type \in types}

\* ListNotifications reads further than the page.  (History: whether that was
\* all there is, and which versions had been replaced by then.)
ListNotifications(types) ==
  /\ list.at \in {"none", "answer"}
  /\ LET mine == RowsOf(types)
     IN  list' = [NoList EXCEPT !.at = "count", !.types = types, !.stored = Newest(Limit * Overfetch, mine),
                                !.all = Cardinality(mine) <= Limit * Overfetch,
                                !.old = {t \in Text : version[t] = "replaced"}]
  /\ UNCHANGED <<table, version, changes>>

\* UnreadNotificationTexts
UnreadNotificationTexts ==
  /\ list.at = "count"
  /\ LET unread == {row \in RowsOf(list.types) : ~row.read}
     IN  list' = [list EXCEPT !.at = "lookup", !.unread = unread,
                              !.todo = {row.text : row \in list.stored \cup unread}]
  /\ UNCHANGED <<table, version, changes>>

IsSuperseded(t) == version[t] = "replaced"

\* keepLatestRound: one text after the other.  A text that was replaced is
\* looked up again for the next row about it, and the last lookup counts: it may
\* come at any time before the answer.
KeepLatestRound ==
  /\ list.at = "lookup"
  /\ \E t \in list.todo :
       list' = [list EXCEPT !.todo = @ \ {t}, !.current = IF IsSuperseded(t) THEN @ ELSE @ \cup {t}]
  /\ UNCHANGED <<table, version, changes>>

Respond ==
  /\ list.at = "lookup" /\ list.todo = {}
  /\ list' = [list EXCEPT !.at = "answer"]
  /\ UNCHANGED <<table, version, changes>>

\* A query or a lookup fails: the answer is 500, and shows nothing.
ListFails ==
  /\ list.at \in {"count", "lookup"}
  /\ list' = NoList
  /\ UNCHANGED <<table, version, changes>>

\* Mutant of Page: the limit comes before the filter.
PageOfFirst == {row \in Newest(Limit, list.stored) : row.text \in list.current}

\* The newest rows without those of replaced versions.
Page == Newest(Limit, {row \in list.stored : row.text \in list.current})

\* Mutant of Badge: the rows that the page hides are counted.
BadgeUnfiltered == list.unread

\* The unread rows, through the same filter.
Badge == {row \in list.unread : row.text \in list.current}

-----------------------------------------------------------------------------
Next ==
  \/ \E t \in Text, type \in Type : SaveNotification(t, type)
  \/ \E row \in rows : SetNotificationRead(row, ~row.read)
  \/ MarkAllNotificationsRead
  \/ \E texts \in SUBSET Text : DeleteNotifications(texts)
  \/ \E t \in Text : CloseRound(t) \/ DeleteText(t)
  \/ \E types \in SUBSET Type \ {{}} : ListNotifications(types)
  \/ UnreadNotificationTexts \/ KeepLatestRound \/ Respond \/ ListFails

Spec == Init /\ [][Next]_vars

-----------------------------------------------------------------------------
(* Properties.                                                              *)

Full == Cardinality(Page) = Limit

\* The badge and the page of an answer agree row by row, though they come from
\* two queries and a filter that is asked while rounds close and texts go: an
\* unread row on the page is counted, and a row that is counted is on the page,
\* unread, unless the page is full or there was more than the listing reads
\* ahead.  Left out are the rows that came, went, or were read or unread between
\* the two queries, of which the answer may say one thing and count another.
BadgeMatchesList ==
  list.at = "answer" =>
    LET shown == {row.id : row \in {r \in Page : ~r.read}}
        counted == {row.id : row \in Badge}
    IN  /\ shown \ list.changed \subseteq counted
        /\ counted \ list.changed \subseteq shown \/ Full \/ ~list.all

\* A page is about the latest versions, as of some moment while it was made: it
\* shows no row about a version that was replaced before, unless the version
\* was deleted since (its mark goes with it), and it leaves out no row that it
\* had read about a version that is still the latest, unless it is full.
PageIsCurrent ==
  list.at = "answer" =>
    /\ \A row \in Page : row.text \in list.old => version[row.text] = "gone"
    /\ \A row \in list.stored : version[row.text] = "latest" => row \in Page \/ Full
=============================================================================
