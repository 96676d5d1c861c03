--------------------------- MODULE LSMCompaction ---------------------------
(***************************************************************************)
(* The engine with Engine.Compact (compaction.go).  The server never calls *)
(* it ("Callers decide when to run this"); this module adds it to the      *)
(* engine's own steps.  Compact holds e.mu throughout: merge, write the    *)
(* merged table under the next sequence number, then remove the old files. *)
(***************************************************************************)
EXTENDS LSMEngine

VARIABLES
  merged,   \* Compact's local: the table it is writing
  doomed    \* Compact's oldPaths still to remove, newest first

cvars == <<vars, merged, doomed>>

\* Mutant of MergeSSTables: the oldest record of each key wins.
MergeOldestWins ==
  [k \in Keys |-> IF ScanHits(k) = {} THEN Absent
                  ELSE Client(files[tables[Max(ScanHits(k))].seq].entries[k])]

\* mergeSSTables: the newest record of each key in the loaded tables, without
\* the tombstones.  Like Scan, it reads the files and not the indexes.
MergeSSTables ==
  [k \in Keys |-> IF ScanHits(k) = {} THEN Absent
                  ELSE Client(files[tables[Min(ScanHits(k))].seq].entries[k])]

CompactInit == Init /\ merged = EmptyTable /\ doomed = <<>>

\* Compact takes e.mu, merges, and creates the file of the merged table.
StartCompact ==
  /\ engine = "open" /\ pc = "idle" /\ Len(tables) >= 2
  /\ merged' = MergeSSTables
  /\ \E f \in PartialFiles(merged') : files' = SetFile(nextSSTableSeq, f)
  /\ doomed' = [i \in DOMAIN tables |-> tables[i].seq]
  /\ pc' = "compacting"
  /\ UNCHANGED <<wal, walTorn, memory, engine, cur, queue, history, used>>

\* The merged table is complete and replaces every other one in memory.
FinishCompact ==
  /\ pc = "compacting"
  /\ files' = SetFile(nextSSTableSeq, [entries |-> merged, torn |-> FALSE])
  /\ tables' = <<[seq |-> nextSSTableSeq, index |-> Present(merged)]>>
  /\ nextSSTableSeq' = nextSSTableSeq + 1
  /\ pc' = "removing"
  /\ UNCHANGED <<wal, walTorn, memtable, size, walBroken, engine, cur, queue,
                 history, used, merged, doomed>>

\* os.Remove of the next old file; after the last one Compact returns.
RemoveOld ==
  /\ pc = "removing" /\ doomed # <<>>
  /\ files' = [s \in DOMAIN files \ {Head(doomed)} |-> files[s]]
  /\ doomed' = Tail(doomed)
  /\ pc' = IF Tail(doomed) = <<>> THEN "idle" ELSE "removing"
  /\ UNCHANGED <<wal, walTorn, memory, engine, cur, queue, history, used, merged>>

\* Writing the merged table, or removing an old one, fails: Compact returns.
CompactFails ==
  /\ pc \in {"compacting", "removing"} /\ Spend("faults", MaxFaults)
  /\ pc' = "idle" /\ doomed' = <<>>
  /\ UNCHANGED <<disk, memory, engine, cur, queue, history, merged>>

CompactNext ==
  \/ Next /\ UNCHANGED <<merged, doomed>>
  \/ StartCompact \/ FinishCompact \/ RemoveOld \/ CompactFails

CompactSpec == CompactInit /\ [][CompactNext]_cvars

-----------------------------------------------------------------------------
(* Properties.                                                             *)

\* As long as the process lives, only applying a write changes what a key reads
\* as, and only for that key: no compaction does, neither by the swap to the
\* merged table, nor by any removal, nor by a failure of either, and no flush
\* before or after one, finished or failed (Engine.Compact's contract: "just the
\* merge").  A restart after a compaction is another matter: see SSTablesImmutable
\* under CompactSpec.
CompactPreservesReads ==
  [][engine = "open" /\ engine' = "open" =>
       \/ View' = View
       \/ pc = "appending" /\ View' = [View EXCEPT ![op.key] = Client(op.val)]]_cvars

=============================================================================
