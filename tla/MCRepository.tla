---------------------------- MODULE MCRepository ----------------------------
(***************************************************************************)
(* Instances of Repository: a text of three runes, two users.              *)
(***************************************************************************)
EXTENDS Repository

CONSTANTS u1, u2, p1, p2, g1,
  Events, Creates, Proposes, Votes, Schedules, Closes, Ticks, Subscribes, Unsubscribes,
  Deletes, Failures

MCBound ==
  [event |-> Events, create |-> Creates, propose |-> Proposes, vote |-> Votes, schedule |-> Schedules,
   close |-> Closes, tick |-> Ticks, subscribe |-> Subscribes, unsubscribe |-> Unsubscribes,
   delete |-> Deletes, failure |-> Failures]

\* Two ranges that touch at a bound, and one that overlaps them both: one is to
\* grow, one to be cut out.
MCProposals ==
  {[start |-> r[1], end |-> r[2], length |-> r[3]] : r \in {<<0, 1, 2>>, <<1, 3, 0>>, <<0, 2, 1>>}}

\* Every text is created with all the tags.
MCTagSets == {Tag}

\* A bound: a text is worked on when the call that creates it has ended.
CreatedFirst ==
  (\E p \in Proc : call[p].pc = "created") =>
    Cardinality({p \in Proc : call[p].pc # "idle"}) = 1

Symmetry == Permutations(Proc) \cup Permutations(User)
=============================================================================
