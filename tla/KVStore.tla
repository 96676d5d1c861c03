------------------------------ MODULE KVStore ------------------------------
(***************************************************************************)
(* What a single-node store promises its callers, whatever files it keeps: *)
(* a map from keys to values in which a write that was acknowledged stays, *)
(* and a write that was called but not acknowledged (an error was returned *)
(* or the process died) may surface later, but only until a later write of *)
(* the same key is acknowledged.                                           *)
(***************************************************************************)
CONSTANTS Keys,    \* the keys in use
          Vals,    \* the values in use
          Absent   \* what a read of a key that is not there returns

VARIABLES store,   \* what a read of each key returns
          limbo    \* values called for a key since its last acknowledged write

kvVars == <<store, limbo>>

Visible == Vals \cup {Absent}

Init ==
  /\ store = [k \in Keys |-> Absent]
  /\ limbo = [k \in Keys |-> {}]

\* A caller asks for k to become v (v = Absent: to be deleted).
Call(k, v) ==
  /\ limbo' = [limbo EXCEPT ![k] = @ \cup {v}]
  /\ UNCHANGED store

\* Some called, unacknowledged writes take effect.
Settle ==
  /\ store' \in [Keys -> Visible]
  /\ \A k \in Keys : store'[k] = store[k] \/ store'[k] \in limbo[k]
  /\ UNCHANGED limbo

\* The write of v to k is acknowledged: it is what a read returns now, and no
\* older write of k can surface any more.
Ack(k, v) ==
  /\ v \in limbo[k]
  /\ store' = [store EXCEPT ![k] = v]
  /\ limbo' = [limbo EXCEPT ![k] = {}]

Next ==
  \/ \E k \in Keys, v \in Visible : Call(k, v) \/ Ack(k, v)
  \/ Settle

Spec == Init /\ [][Next]_kvVars
=============================================================================
