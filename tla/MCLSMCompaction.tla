-------------------------- MODULE MCLSMCompaction --------------------------
(***************************************************************************)
(* Compaction with a memtable that every write overflows, so that each one *)
(* makes an SSTable (as the repository's own compaction test does).        *)
(***************************************************************************)
EXTENDS LSMCompaction

CONSTANTS v1, v2

MCKeyLen == [k \in Keys |-> 1]
MCValLen == [v \in Vals |-> 1]

MCPuts == {<<[key |-> k, val |-> v]>> : k \in Keys, v \in Vals}
MCWrites == MCPuts \cup {<<[key |-> k, val |-> Tombstone]>> : k \in Keys}
=============================================================================
