----------------------------- MODULE LSMEngine -----------------------------
(***************************************************************************)
(* The storage engine of api/queel (engine.go, wal.go, memtable.go,        *)
(* sstable.go) as the server runs it: writes are appended to a write-ahead *)
(* log and fsynced, applied to a memtable, and a memtable that grew past   *)
(* its limit is flushed to a new numbered SSTable, after which the log is  *)
(* truncated.  The engine can crash between any two of these steps, each   *)
(* file operation can fail, and Open rebuilds the memory from the files.   *)
(*                                                                         *)
(* Every write holds e.mu from its first step to its last, so one write is *)
(* under way at a time and reads (which take the read lock) only see the   *)
(* memory while no write is.                                               *)
(***************************************************************************)
EXTENDS Integers, Sequences, FiniteSets, FiniteSetsExt

CONSTANTS
  Keys,               \* keys, ordered as bytes.Compare orders them
  Vals,               \* values
  Tombstone,          \* the record of a deletion
  Absent,             \* no record at all / "not found"
  Clients,            \* goroutines calling the engine
  Nobody,             \* no goroutine holds e.mu
  Batches,            \* the op sequences a caller passes (a Put or Delete is one op)
  KeyLen, ValLen,     \* lengths in bytes
  MemtableSizeLimit,  \* memtableSizeLimit
  MaxCalls,           \* bound: calls of Put, Delete or WriteBatch
  MaxCrashes,         \* bound: crashes
  MaxCloses,          \* bound: clean shutdowns
  MaxFaults           \* bound: failing file operations

Records == Vals \cup {Tombstone}
Op == [key : Keys, val : Records]

ASSUME EngineAssumption ==
  /\ Keys \subseteq Int
  /\ Absent \notin Records
  /\ Tombstone \notin Vals
  /\ Nobody \notin Clients
  /\ Batches \subseteq Seq(Op)
  /\ <<>> \notin Batches
  /\ KeyLen \in [Keys -> Nat]
  /\ ValLen \in [Vals -> Nat]
  /\ MemtableSizeLimit \in Nat \ {0}
  /\ MaxCalls \in Nat /\ MaxCrashes \in Nat /\ MaxCloses \in Nat /\ MaxFaults \in Nat

VARIABLES
  (* on disk *)
  wal,       \* wal.log: the complete records, oldest first
  walTorn,   \* wal.log ends in the middle of a record
  files,     \* the sstable-<seq>.db files, by seq
  (* in the process *)
  engine,    \* "closed", "open", or "refused": Open returned an error
  memtable,  \* what the memtable records for each key
  size,      \* Memtable.size, kept incrementally
  tables,    \* Engine.sstables, newest first: path (seq) and index of each
  nextSSTableSeq,
  walBroken, \* the log's bufio.Writer holds a sticky write error
  pc,        \* where the write that holds e.mu stands
  cur,       \* the goroutine that holds e.mu
  queue,     \* ops each caller still has to run
  (* history *)
  acked,     \* what the last acknowledged write of each key wrote
  limbo,     \* what later, unacknowledged writes of each key wrote
  used       \* how much of each bound is used up

disk == <<wal, walTorn, files>>
memory == <<memtable, size, tables, nextSSTableSeq, walBroken>>
control == <<engine, pc, cur, queue>>
history == <<acked, limbo>>
vars == <<disk, memory, control, history, used>>

-----------------------------------------------------------------------------
(* Memtables, SSTables and the log as maps from keys to records.           *)

Table == [Keys -> Records \cup {Absent}]
EmptyTable == [k \in Keys |-> Absent]
Present(t) == {k \in Keys : t[k] # Absent}

\* An SSTable file: its complete records, and whether it ends inside one.
File == [entries : Table, torn : BOOLEAN]

\* What a caller sees of a record.
Client(r) == IF r = Tombstone THEN Absent ELSE r

Length(r) == IF r = Tombstone THEN 0 ELSE ValLen[r]

\* Replaying the log: the last record of a key wins.
RecordsOf(w, k) == {i \in DOMAIN w : w[i].key = k}
\* Mutant of Replay: the first record of a key wins.
ReplayFirst(w) == [k \in Keys |->
                     IF RecordsOf(w, k) = {} THEN Absent
                     ELSE w[Min(RecordsOf(w, k))].val]
Replay(w) == [k \in Keys |->
                IF RecordsOf(w, k) = {} THEN Absent
                ELSE w[Max(RecordsOf(w, k))].val]

\* The bytes a memtable counts: its keys and its values.
Bytes(t) == MapThenSumSet(LAMBDA k : KeyLen[k] + Length(t[k]), Present(t))

\* Engine.Get over the SSTables: the first one, in list order, whose index has
\* the key; the record itself is read from the file.
Hits(ts, k) == {i \in DOMAIN ts : k \in ts[i].index}
\* Mutant of Lookup: the oldest table wins.
LookupOldest(fs, ts, k) ==
  IF Hits(ts, k) = {} THEN Absent
  ELSE fs[ts[Max(Hits(ts, k))].seq].entries[k]
Lookup(fs, ts, k) ==
  IF Hits(ts, k) = {} THEN Absent
  ELSE fs[ts[Min(Hits(ts, k))].seq].entries[k]

\* The newest file, by sequence number, that has a record of the key.
SeqsWith(fs, k) == {s \in DOMAIN fs : fs[s].entries[k] # Absent}
Newest(fs, k) ==
  IF SeqsWith(fs, k) = {} THEN Absent
  ELSE fs[Max(SeqsWith(fs, k))].entries[k]

\* Engine.Get: the memtable first, then the SSTables.
Get(k) == Client(IF memtable[k] # Absent THEN memtable[k]
                 ELSE Lookup(files, tables, k))

\* Engine.Scan: the SSTables read in full, oldest to newest, then the memtable,
\* each overwriting what came before.  It does not use the index.
ScanHits(k) == {i \in DOMAIN tables : files[tables[i].seq].entries[k] # Absent}
Scan(k) == Client(IF memtable[k] # Absent THEN memtable[k]
                  ELSE IF ScanHits(k) = {} THEN Absent
                  ELSE files[tables[Min(ScanHits(k))].seq].entries[k])

\* What the files hold for a key: the log over the SSTables.
OnDisk(k) == Client(IF Replay(wal)[k] # Absent THEN Replay(wal)[k]
                    ELSE Newest(files, k))

\* What the store holds: the process's view while it runs, the files' otherwise.
View == [k \in Keys |-> IF engine = "open" THEN Get(k) ELSE OnDisk(k)]

-----------------------------------------------------------------------------
Kinds == {"calls", "crashes", "closes", "faults"}

Init ==
  /\ wal = <<>> /\ walTorn = FALSE /\ files = [s \in {} |-> EmptyTable]
  /\ engine = "closed"
  /\ memtable = EmptyTable /\ size = 0 /\ tables = <<>> /\ nextSSTableSeq = 0
  /\ walBroken = FALSE
  /\ pc = "idle" /\ cur = Nobody /\ queue = [c \in Clients |-> <<>>]
  /\ acked = [k \in Keys |-> Absent] /\ limbo = [k \in Keys |-> {}]
  /\ used = [what \in Kinds |-> 0]

\* One more step of a bounded kind.
Spend(what, bound) ==
  /\ used[what] < bound
  /\ used' = [used EXCEPT ![what] = @ + 1]

\* The op the goroutine holding the lock is running.
op == Head(queue[cur])

\* The op returns nil; a WriteBatch goes on with its next op.
Return ==
  /\ pc' = "idle" /\ cur' = Nobody
  /\ queue' = [queue EXCEPT ![cur] = Tail(@)]
  /\ UNCHANGED engine

\* The op returns an error; a WriteBatch stops there.
ReturnError ==
  /\ pc' = "idle" /\ cur' = Nobody
  /\ queue' = [queue EXCEPT ![cur] = <<>>]
  /\ UNCHANGED engine

Acknowledge ==
  /\ acked' = [acked EXCEPT ![op.key] = Client(op.val)]
  /\ limbo' = [limbo EXCEPT ![op.key] = {}]

-----------------------------------------------------------------------------
(* Writes.                                                                 *)

\* Put, Delete or WriteBatch is called.
WriteBatch(c, ops) ==
  /\ engine = "open" /\ queue[c] = <<>>
  /\ Spend("calls", MaxCalls)
  /\ queue' = [queue EXCEPT ![c] = ops]
  /\ UNCHANGED <<disk, memory, engine, pc, cur, history>>

\* One op takes e.mu and starts WAL.Append.
StartAppend(c) ==
  /\ engine = "open" /\ pc = "idle" /\ queue[c] # <<>> /\ ~walBroken
  /\ pc' = "appending" /\ cur' = c
  /\ limbo' = [limbo EXCEPT ![Head(queue[c]).key] =
                 @ \cup {Client(Head(queue[c]).val)}]
  /\ UNCHANGED <<disk, memory, engine, queue, acked, used>>

\* WAL.Append on a writer that failed before: the sticky error comes straight
\* back and nothing reaches the file.
AppendRefused(c) ==
  /\ engine = "open" /\ pc = "idle" /\ queue[c] # <<>> /\ walBroken
  /\ queue' = [queue EXCEPT ![c] = <<>>]
  /\ UNCHANGED <<disk, memory, engine, pc, cur, history, used>>

\* What a write of the current record that did not complete can leave in the
\* file: nothing, a part of the record, or all of it.
PartialAppend ==
  \/ UNCHANGED <<wal, walTorn>>
  \/ walTorn' = TRUE /\ UNCHANGED wal
  \/ wal' = Append(wal, op) /\ UNCHANGED walTorn

\* Memtable.Put's bookkeeping: a new key counts its key and value, an overwrite
\* only the difference of the values.
\* Mutant of Grown: an overwrite counts the key again.
GrownKeyAgain(k, r) ==
  size + Length(r) + KeyLen[k]
       - IF memtable[k] = Absent THEN 0 ELSE Length(memtable[k])
Grown(k, r) ==
  size + Length(r) + IF memtable[k] = Absent THEN KeyLen[k]
                     ELSE - Length(memtable[k])

\* The record is flushed and fsynced; Memtable.Put applies it and maybeFlush
\* compares the size with the limit.
Apply ==
  /\ pc = "appending"
  /\ wal' = Append(wal, op)
  /\ memtable' = [memtable EXCEPT ![op.key] = op.val]
  /\ size' = Grown(op.key, op.val)
  /\ \/ /\ size' < MemtableSizeLimit
        /\ Acknowledge /\ Return
     \/ /\ size' >= MemtableSizeLimit
        /\ pc' = "full" /\ UNCHANGED <<engine, cur, queue, history>>
  /\ UNCHANGED <<walTorn, files, tables, nextSSTableSeq, walBroken, used>>

\* The log's buffered writer cannot write the record: Append returns the error,
\* and the writer keeps it.
AppendFails ==
  /\ pc = "appending" /\ Spend("faults", MaxFaults)
  /\ PartialAppend /\ walBroken' = TRUE
  /\ ReturnError
  /\ UNCHANGED <<files, memtable, size, tables, nextSSTableSeq, history>>

\* The record is in the file but fsync fails: Append returns the error, the
\* memtable is not touched, and later writes go on.
SyncFails ==
  /\ pc = "appending" /\ Spend("faults", MaxFaults)
  /\ wal' = Append(wal, op)
  /\ ReturnError
  /\ UNCHANGED <<walTorn, files, memory, history>>

-----------------------------------------------------------------------------
(* maybeFlush.                                                             *)

SetFile(s, f) == [t \in DOMAIN files \cup {s} |-> IF t = s THEN f ELSE files[t]]

\* What a write of table t that did not complete can leave in its file: the
\* records of the keys up to some key, and perhaps part of the next one.
KeyPrefixes(t) == {{}} \cup {{k \in Present(t) : k <= m} : m \in Present(t)}
PartialFiles(t) ==
  {f \in {[entries |-> [k \in Keys |-> IF k \in kept THEN t[k] ELSE Absent],
           torn |-> b] : kept \in KeyPrefixes(t), b \in BOOLEAN} :
     f.torn => f.entries # t}

\* Mutant of StartFlush: the log is truncated before the table is durable.
StartFlushTruncating ==
  /\ pc = "full"
  /\ \E f \in PartialFiles(memtable) : files' = SetFile(nextSSTableSeq, f)
  /\ pc' = "flushing" /\ wal' = <<>>
  /\ UNCHANGED <<walTorn, memory, engine, cur, queue, history, used>>

\* WriteSSTable creates (or truncates) sstable-<nextSSTableSeq>.db and writes
\* the memtable's entries in key order.
StartFlush ==
  /\ pc = "full"
  /\ \E f \in PartialFiles(memtable) : files' = SetFile(nextSSTableSeq, f)
  /\ pc' = "flushing"
  /\ UNCHANGED <<wal, walTorn, memory, engine, cur, queue, history, used>>

\* The file is complete and fsynced: it becomes the newest table, and the
\* memtable starts over.
FinishFlush ==
  /\ pc = "flushing"
  /\ files' = SetFile(nextSSTableSeq, [entries |-> memtable, torn |-> FALSE])
  /\ tables' = <<[seq |-> nextSSTableSeq, index |-> Present(memtable)]>> \o tables
  /\ nextSSTableSeq' = nextSSTableSeq + 1
  /\ memtable' = EmptyTable /\ size' = 0
  /\ pc' = "flushed"
  /\ UNCHANGED <<wal, walTorn, walBroken, engine, cur, queue, history, used>>

\* WriteSSTable fails, before or after it created the file: the op that
\* triggered the flush returns the error, memtable and log stay.
FlushFails ==
  /\ pc \in {"full", "flushing"} /\ Spend("faults", MaxFaults)
  /\ ReturnError
  /\ UNCHANGED <<disk, memory, history>>

\* WAL.Reset truncates the log, and the op returns.
Reset ==
  /\ pc = "flushed"
  /\ wal' = <<>>
  /\ Acknowledge /\ Return
  /\ UNCHANGED <<walTorn, files, memory, used>>

\* The truncation fails, or the seek that follows it: the op returns the error,
\* and the log keeps its records or is empty.
ResetFails ==
  /\ pc = "flushed" /\ Spend("faults", MaxFaults)
  /\ wal' = wal \/ wal' = <<>>
  /\ ReturnError
  /\ UNCHANGED <<walTorn, files, memory, history>>

-----------------------------------------------------------------------------
(* Stopping and starting.                                                  *)

\* What is in the process is gone; its callers get no answer.
Vanish ==
  /\ engine' = "closed" /\ pc' = "idle" /\ cur' = Nobody
  /\ queue' = [c \in Clients |-> <<>>]
  /\ memtable' = EmptyTable /\ size' = 0 /\ tables' = <<>>
  /\ nextSSTableSeq' = 0 /\ walBroken' = FALSE

\* The process dies, in the middle of an append or elsewhere.
Crash ==
  /\ engine = "open" /\ Spend("crashes", MaxCrashes)
  /\ IF pc = "appending" THEN PartialAppend ELSE UNCHANGED <<wal, walTorn>>
  /\ Vanish
  /\ UNCHANGED <<files, history>>

\* Engine.Close waits for e.mu and closes the log.
Close ==
  /\ engine = "open" /\ pc = "idle" /\ Spend("closes", MaxCloses)
  /\ Vanish
  /\ UNCHANGED <<disk, history>>

\* Open's next sequence number: the number of SSTable files.
\* Mutant of NextSeq: the number of the newest file.
NextSeqOfNewest == IF DOMAIN files = {} THEN 0 ELSE Max(DOMAIN files)
NextSeq == Cardinality(DOMAIN files)

\* The seq of the i-th newest SSTable file.
\* Mutant of Nth: the i-th oldest.
NthOldest(i) == CHOOSE s \in DOMAIN files :
                  Cardinality({t \in DOMAIN files : t < s}) = i - 1
Nth(i) == CHOOSE s \in DOMAIN files :
            Cardinality({t \in DOMAIN files : t > s}) = i - 1

\* Open: index every SSTable file, replay the log into a new memtable.
Open ==
  /\ engine = "closed"
  /\ ~walTorn /\ \A s \in DOMAIN files : ~files[s].torn
  /\ tables' = [i \in 1..Cardinality(DOMAIN files) |->
                  [seq |-> Nth(i), index |-> Present(files[Nth(i)].entries)]]
  /\ nextSSTableSeq' = NextSeq
  /\ memtable' = Replay(wal) /\ size' = Bytes(Replay(wal))
  /\ engine' = "open"
  /\ UNCHANGED <<disk, walBroken, pc, cur, queue, history, used>>

\* Open returns an error: an SSTable or the log ends inside a record.
OpenFails ==
  /\ engine = "closed"
  /\ walTorn \/ \E s \in DOMAIN files : files[s].torn
  /\ engine' = "refused"
  /\ UNCHANGED <<disk, memory, pc, cur, queue, history, used>>

Next ==
  \/ \E c \in Clients : StartAppend(c) \/ AppendRefused(c)
                        \/ \E ops \in Batches : WriteBatch(c, ops)
  \/ Apply \/ AppendFails \/ SyncFails
  \/ StartFlush \/ FinishFlush \/ FlushFails \/ Reset \/ ResetFails
  \/ Crash \/ Close \/ Open \/ OpenFails

Spec == Init /\ [][Next]_vars
-----------------------------------------------------------------------------
(* Properties.                                                             *)

Handle == [seq : Nat, index : SUBSET Keys]

\* Every variable has its type.
TypeOK ==
  /\ wal \in Seq(Op) /\ walTorn \in BOOLEAN
  /\ DOMAIN files \subseteq Nat /\ IsFiniteSet(DOMAIN files)
  /\ files \in [DOMAIN files -> File]
  /\ engine \in {"closed", "open", "refused"}
  /\ memtable \in Table
  /\ tables \in Seq(Handle) /\ nextSSTableSeq \in Nat
  /\ walBroken \in BOOLEAN
  /\ pc \in {"idle", "appending", "full", "flushing", "flushed"}
  /\ cur \in Clients \cup {Nobody}
  /\ queue \in [Clients -> Seq(Op)]
  /\ acked \in [Keys -> Vals \cup {Absent}]
  /\ limbo \in [Keys -> SUBSET (Vals \cup {Absent})]
  /\ used \in [Kinds -> Nat]

\* No acknowledged write is ever lost or shadowed by an older one, across
\* flushes, failed file operations, crashes and restarts: a key holds what its
\* last acknowledged write wrote, or what a later write wrote whose caller got
\* an error or no answer (WAL's promise, wal.go).
AckedSurvives == \A k \in Keys : View[k] \in {acked[k]} \cup limbo[k]

\* Get, which trusts the in-memory index of every SSTable, and Scan, which reads
\* the files in full, return the same for every key.
GetAgreesWithScan == engine = "open" => \A k \in Keys : Get(k) = Scan(k)

\* Memtable.size, kept incrementally over inserts, overwrites, deletes and the
\* replay, is what its keys and values add up to, so the flush threshold means
\* what it says.
SizeExact == engine = "open" => size = Bytes(memtable)

\* An SSTable is immutable: no step rewrites or removes a file that the running
\* engine reads from.
SSTablesImmutable ==
  [][engine = "open" =>
       \A i \in DOMAIN tables :
         /\ tables[i].seq \in DOMAIN files'
         /\ files'[tables[i].seq] = files[tables[i].seq]]_vars

\* The engine implements the abstract store.
KV == INSTANCE KVStore WITH store <- View
ImplementsKVStore == KV!Spec

(* What makes AckedSurvives inductive.                                     *)

\* The SSTable files are numbered from 0 without gaps.  The running engine has
\* loaded all of them, newest first, under the right index; there may be one
\* more, left by a flush that has not finished or has failed.
TablesMatchFiles ==
  /\ DOMAIN files = 0..(Cardinality(DOMAIN files) - 1)
  /\ engine = "open" =>
       /\ Len(tables) = nextSSTableSeq
       /\ DOMAIN files \in {0..(nextSSTableSeq - 1), 0..nextSSTableSeq}
       /\ \A i \in DOMAIN tables :
            /\ tables[i].seq = nextSSTableSeq - i
            /\ tables[i].index = Present(files[tables[i].seq].entries)
  /\ pc = "flushed" => DOMAIN files = 0..(nextSSTableSeq - 1)

\* Every key of the memtable, and of an unfinished SSTable, is in the log.
LogCoversMemtable ==
  engine = "open" =>
    /\ Present(memtable) \subseteq Present(Replay(wal))
    /\ nextSSTableSeq \in DOMAIN files =>
         Present(files[nextSSTableSeq].entries) \subseteq Present(Replay(wal))

\* The files hold what the process reads, or a write nobody acknowledged.
DiskMatchesMemory ==
  engine = "open" =>
    \A k \in Keys : OnDisk(k) = Get(k) \/ OnDisk(k) \in limbo[k]

\* The write under way is unacknowledged, and once applied it is what is read.
CurrentOp ==
  /\ pc = "idle" <=> cur = Nobody
  /\ pc # "idle" =>
       /\ engine = "open" /\ queue[cur] # <<>>
       /\ Client(op.val) \in limbo[op.key]
  /\ pc \in {"full", "flushing", "flushed"} => Get(op.key) = Client(op.val)
  /\ pc = "flushed" => memtable = EmptyTable

IndInv == /\ TypeOK /\ TablesMatchFiles /\ LogCoversMemtable
          /\ DiskMatchesMemory /\ CurrentOp /\ AckedSurvives

\* wal.go: "a crash can never lose an acknowledged write - replaying this file
\* rebuilds whatever the memtable hadn't flushed": a store that holds an
\* acknowledged write can be opened again.
RestartSucceeds == engine = "refused" => \A k \in Keys : acked[k] = Absent
=============================================================================
