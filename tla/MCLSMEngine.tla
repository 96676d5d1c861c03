---------------------------- MODULE MCLSMEngine ----------------------------
(***************************************************************************)
(* Two keys, two values of different lengths, two callers.                 *)
(***************************************************************************)
EXTENDS LSMEngine, TLC

CONSTANTS v1, v2

MCKeyLen == [k \in Keys |-> 1]
MCValLen == [v \in Vals |-> IF v = v1 THEN 1 ELSE 2]

Put(k, v) == [key |-> k, val |-> v]
Delete(k) == [key |-> k, val |-> Tombstone]

\* Single Puts and Deletes, and one batch that writes one key and deletes the other.
MCBatches == {<<o>> : o \in {Put(1, v1), Put(1, v2), Put(2, v2), Delete(1)}}
             \cup {<<Put(2, v1), Delete(1)>>}

\* The callers are interchangeable.
Symmetry == Permutations(Clients)
=============================================================================
