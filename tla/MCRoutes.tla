------------------------------ MODULE MCRoutes ------------------------------
(***************************************************************************)
(* An instance of Routes: an administrator, two users with every right, one *)
(* device; and beside it one of Inbox, the listing of a reader's entries.   *)
(***************************************************************************)
EXTENDS Routes, TLC

CONSTANTS p1, p2, w, root, u1, u2, d1,
  Events, Creates, Proposes, Votes, Closes, Schedules, Ticks, Subscribes, Leaves, Deletes,
  DeleteUsers, Registrations, Faults

MCBound ==
  [event |-> Events, create |-> Creates, propose |-> Proposes, vote |-> Votes, close |-> Closes,
   schedule |-> Schedules, tick |-> Ticks, subscribe |-> Subscribes, leave |-> Leaves,
   delete |-> Deletes, deleteUser |-> DeleteUsers, device |-> Registrations, fault |-> Faults]

MCRights == [u \in User |-> Action]

\* A bound: deliveries take place one after the other.  They share nothing
\* but the order of their rows.
OneDelivery == Cardinality({i \in DOMAIN events : events[i].at # "done"}) <= 1

Symmetry == Permutations(User \ {Admin}) \cup Permutations(Proc)

-----------------------------------------------------------------------------
(* Who gets an entry (Routes) and how entries are listed (Inbox) have no    *)
(* variable in common.  One run looks at both: one of them moves while the  *)
(* other has not begun.                                                     *)

CONSTANTS v1, v2, Limit, MaxRows, MaxChanges

VARIABLES rows, lastId, version, changes, list

listing == <<rows, lastId, version, changes, list>>

I == INSTANCE Inbox WITH Text <- {v1, v2}

BothInit == Init /\ I!Init
BothNext ==
  \/ I!Init /\ Next /\ UNCHANGED listing
  \/ Init /\ I!Next /\ UNCHANGED vars
BothSpec == BothInit /\ [][BothNext]_<<vars, listing>>

\* See Inbox.
PageIsCurrent == I!PageIsCurrent

\* See Inbox.
BadgeMatchesList == I!BadgeMatchesList

\* Bounds: the versions and the types are each other's equals, so that the first
\* row is about one of them and nobody asks for the other type alone; with the
\* last row there is one change.
OneOfEach ==
  /\ \A row \in rows : row.id = 1 => row.text = v1
  /\ list.types # {"text.edit-proposed"}
  /\ lastId = MaxRows => changes < MaxChanges
=============================================================================
