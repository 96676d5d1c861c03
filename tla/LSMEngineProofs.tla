-------------------------- MODULE LSMEngineProofs --------------------------
(***************************************************************************)
(* Proofs about the storage engine, for every set of keys, values and      *)
(* callers and every bound: its types, and that no acknowledged write is   *)
(* lost or shadowed, whatever crashes and whatever fails.  Then what its   *)
(* callers may rely on: Get and Scan agree, SSTables are never rewritten,  *)
(* and the engine, with its log, memtable, SSTables, crashes and restarts, *)
(* is an implementation of the abstract store (module KVStore).  Last, the *)
(* size that decides on flushes is what the memtable adds up to.           *)
(***************************************************************************)
EXTENDS LSMEngine, FiniteSetTheorems, SequenceTheorems, TLAPS

-----------------------------------------------------------------------------
(* Minima and maxima of sets of numbers.                                   *)

\* Every non-empty set of naturals has a least element, and Min is it.
LEMMA MinNat ==
  ASSUME NEW S \in SUBSET Nat, S # {}
  PROVE  Min(S) \in S /\ \A y \in S : Min(S) <= y
<1> DEFINE Down(x) == 0..x
           T == {Down(x) : x \in S}
<1>1. T \subseteq FiniteSubsetsOf(Nat) /\ T # {}
  <2>1. ASSUME NEW x \in S PROVE Down(x) \in FiniteSubsetsOf(Nat)
    <3>1. x \in Int /\ Down(x) \subseteq Nat
      OBVIOUS
    <3>2. IsFiniteSet(Down(x))
      BY <3>1, FS_Interval
    <3>3. QED
      BY <3>1, <3>2 DEF FiniteSubsetsOf
  <2>2. QED
    BY <2>1
<1>2. PICK d \in T : \A e \in T : ~(<<e, d>> \in StrictSubsetOrdering(Nat))
  BY <1>1, WFMin, FS_StrictSubsetOrderingWellFounded
<1>3. PICK x \in S : d = Down(x)
  OBVIOUS
<1>4. ASSUME NEW y \in S, y < x PROVE FALSE
  <2>1. Down(y) \in T /\ Down(y) \subseteq Down(x) /\ x \notin Down(y) /\ x \in Down(x)
    BY <1>4
  <2>2. <<Down(y), Down(x)>> \in StrictSubsetOrdering(Nat)
    BY <2>1 DEF StrictSubsetOrdering
  <2>3. QED
    BY <2>1, <2>2, <1>2, <1>3
<1>5. \A y \in S : x <= y
  BY <1>4
<1>6. QED
  BY <1>5 DEF Min

\* Every non-empty set of naturals below a bound has a greatest element, and Max
\* is it.
LEMMA MaxNat ==
  ASSUME NEW n \in Nat, NEW S \in SUBSET (0..n), S # {}
  PROVE  Max(S) \in S /\ \A y \in S : Max(S) >= y
<1> DEFINE T == {n - s : s \in S}
<1>1. T \in SUBSET Nat /\ T # {}
  <2>1. \A s \in S : n - s \in Nat
    OBVIOUS
  <2>2. QED
    BY <2>1
<1>2. PICK t \in T : \A u \in T : t <= u
  BY <1>1, MinNat
<1>3. n - t \in S /\ \A y \in S : n - t >= y
  BY <1>2
<1>4. QED
  BY <1>3 DEF Max

-----------------------------------------------------------------------------
(* The log.                                                                *)

\* Replaying a log with one more record: that record wins for its key, and
\* nothing changes for the others.
LEMMA ReplayAppend ==
  ASSUME NEW w \in Seq(Op), NEW o \in Op
  PROVE  Replay(Append(w, o)) = [Replay(w) EXCEPT ![o.key] = o.val]
<1> DEFINE v == Append(w, o)
<1>1. /\ DOMAIN v = 1..(Len(w) + 1) /\ DOMAIN w = 1..Len(w) /\ Len(w) \in Nat
      /\ v[Len(w) + 1] = o /\ \A i \in 1..Len(w) : v[i] = w[i]
  OBVIOUS
<1>2. ASSUME NEW k \in Keys
      PROVE  Replay(v)[k] = IF k = o.key THEN o.val ELSE Replay(w)[k]
  <2>1. CASE k = o.key
    <3>1. RecordsOf(v, k) \in SUBSET (0..(Len(w) + 1)) /\ Len(w) + 1 \in RecordsOf(v, k)
      BY <1>1, <2>1 DEF RecordsOf
    <3>2. Max(RecordsOf(v, k)) = Len(w) + 1
      <4> DEFINE n == Len(w) + 1
      <4>0. n \in Nat /\ RecordsOf(v, k) \in SUBSET (0..n) /\ RecordsOf(v, k) # {}
        BY <3>1, <1>1
      <4> HIDE DEF n
      <4>1. /\ Max(RecordsOf(v, k)) \in RecordsOf(v, k)
            /\ \A y \in RecordsOf(v, k) : Max(RecordsOf(v, k)) >= y
        BY <4>0, MaxNat
      <4>2. QED
        BY <4>1, <3>1, <1>1
    <3>3. QED
      BY <3>1, <3>2, <1>1, <2>1 DEF Replay
  <2>2. CASE k # o.key
    <3>1. RecordsOf(v, k) = RecordsOf(w, k)
      BY <1>1, <2>2 DEF RecordsOf
    <3>2. CASE RecordsOf(w, k) = {}
      BY <3>1, <3>2, <2>2 DEF Replay
    <3>3. CASE RecordsOf(w, k) # {}
      <4>1. RecordsOf(w, k) \in SUBSET (0..Len(w)) /\ RecordsOf(w, k) \subseteq 1..Len(w)
        BY <1>1 DEF RecordsOf
      <4>2. Max(RecordsOf(w, k)) \in 1..Len(w)
        BY <4>1, <3>3, <1>1, MaxNat
      <4>3. QED
        BY <4>2, <3>1, <3>3, <2>2, <1>1 DEF Replay
    <3>4. QED
      BY <3>2, <3>3
  <2>3. QED
    BY <2>1, <2>2
<1>3. QED
  BY <1>2 DEF Replay

\* A replayed log is a table.
LEMMA ReplayType ==
  ASSUME NEW w \in Seq(Op)
  PROVE  Replay(w) \in Table
<1>1. ASSUME NEW k \in Keys, RecordsOf(w, k) # {}
      PROVE  w[Max(RecordsOf(w, k))].val \in Records
  <2>1. /\ Len(w) \in Nat /\ RecordsOf(w, k) \in SUBSET (0..Len(w))
        /\ RecordsOf(w, k) \subseteq 1..Len(w)
    BY DEF RecordsOf
  <2>2. Max(RecordsOf(w, k)) \in 1..Len(w)
    BY <2>1, <1>1, MaxNat
  <2>3. w[Max(RecordsOf(w, k))] \in Op
    BY <2>2
  <2>4. QED
    BY <2>3 DEF Op
<1>2. QED
  BY <1>1 DEF Replay, Table

\* An empty log replays to nothing.
LEMMA ReplayEmpty == Replay(<<>>) = EmptyTable
BY DEF Replay, EmptyTable, RecordsOf

-----------------------------------------------------------------------------
(* The list of SSTables.                                                   *)

\* A lookup reads only the files of the list.
LEMMA LookupAgree ==
  ASSUME NEW fs, NEW gs, NEW ts \in Seq(Handle), NEW k \in Keys,
         \A i \in DOMAIN ts : gs[ts[i].seq] = fs[ts[i].seq]
  PROVE  Lookup(gs, ts, k) = Lookup(fs, ts, k)
<1>1. CASE Hits(ts, k) = {}
  BY <1>1 DEF Lookup
<1>2. CASE Hits(ts, k) # {}
  <2>1. Hits(ts, k) \in SUBSET Nat /\ Hits(ts, k) \subseteq DOMAIN ts
    BY DEF Hits
  <2>2. Min(Hits(ts, k)) \in DOMAIN ts
    BY <2>1, <1>2, MinNat
  <2>3. QED
    BY <1>2, <2>2 DEF Lookup
<1>3. QED
  BY <1>1, <1>2

\* A table put in front of the list answers for the keys of its index.
LEMMA LookupPrepend ==
  ASSUME NEW fs, NEW ts \in Seq(Handle), NEW h \in Handle, NEW k \in Keys
  PROVE  Lookup(fs, <<h>> \o ts, k) =
           IF k \in h.index THEN fs[h.seq].entries[k] ELSE Lookup(fs, ts, k)
<1> DEFINE us == <<h>> \o ts
<1>1. /\ DOMAIN us = 1..(Len(ts) + 1) /\ DOMAIN ts = 1..Len(ts) /\ Len(ts) \in Nat
      /\ us[1] = h /\ \A i \in 1..Len(ts) : us[i + 1] = ts[i]
  OBVIOUS
<1>2. Hits(us, k) \in SUBSET Nat /\ Hits(ts, k) \in SUBSET Nat
  BY <1>1 DEF Hits
<1>3. CASE k \in h.index
  <2>1. 1 \in Hits(us, k) /\ \A i \in Hits(us, k) : i >= 1
    BY <1>1, <1>3 DEF Hits
  <2>2. Min(Hits(us, k)) = 1
    BY <2>1, <1>2, MinNat
  <2>3. QED
    BY <2>1, <2>2, <1>1, <1>3 DEF Lookup
<1>4. CASE k \notin h.index
  <2>1. /\ \A i \in Hits(ts, k) : i + 1 \in Hits(us, k)
        /\ \A j \in Hits(us, k) : j - 1 \in Hits(ts, k)
    <3>1. \A i \in Hits(ts, k) : i + 1 \in Hits(us, k)
      BY <1>1 DEF Hits
    <3>2. ASSUME NEW j \in Hits(us, k) PROVE j - 1 \in Hits(ts, k)
      <4>1. j \in 1..(Len(ts) + 1) /\ k \in us[j].index /\ j # 1
        BY <1>1, <1>4 DEF Hits
      <4>2. j - 1 \in 1..Len(ts) /\ us[(j - 1) + 1] = ts[j - 1] /\ (j - 1) + 1 = j
        BY <4>1, <1>1
      <4>3. QED
        BY <4>1, <4>2, <1>1 DEF Hits
    <3>3. QED
      BY <3>1, <3>2
  <2>2. CASE Hits(ts, k) = {}
    BY <2>1, <2>2, <1>4 DEF Lookup
  <2>3. CASE Hits(ts, k) # {}
    <3>1. Hits(us, k) # {}
      BY <2>1, <2>3
    <3>2. /\ Min(Hits(ts, k)) \in Hits(ts, k)
          /\ \A i \in Hits(ts, k) : Min(Hits(ts, k)) <= i
      BY <2>3, <1>2, MinNat
    <3>3. /\ Min(Hits(us, k)) \in Hits(us, k)
          /\ \A i \in Hits(us, k) : Min(Hits(us, k)) <= i
      BY <3>1, <1>2, MinNat
    <3>4. Min(Hits(us, k)) = Min(Hits(ts, k)) + 1
      <4>1. Min(Hits(us, k)) <= Min(Hits(ts, k)) + 1
        BY <3>2, <3>3, <2>1
      <4>2. Min(Hits(ts, k)) <= Min(Hits(us, k)) - 1
        BY <3>2, <3>3, <2>1
      <4>3. Min(Hits(us, k)) \in Nat /\ Min(Hits(ts, k)) \in Nat
        BY <3>2, <3>3, <1>2
      <4>4. QED
        BY <4>1, <4>2, <4>3
    <3>5. Min(Hits(ts, k)) \in 1..Len(ts)
      BY <3>2, <1>1 DEF Hits
    <3>6. us[Min(Hits(us, k))] = ts[Min(Hits(ts, k))]
      BY <3>4, <3>5, <1>1
    <3>7. QED
      BY <3>1, <3>6, <2>3, <1>4 DEF Lookup
  <2>4. QED
    BY <2>2, <2>3
<1>5. QED
  BY <1>3, <1>4

\* A list that holds the files 0..n-1 newest first answers as the newest file
\* that has the key.
LEMMA ListIsNewest ==
  ASSUME NEW n \in Nat, NEW fs, DOMAIN fs = 0..(n - 1),
         NEW ts \in Seq(Handle), Len(ts) = n,
         \A i \in DOMAIN ts : /\ ts[i].seq = n - i
                             /\ ts[i].index = Present(fs[ts[i].seq].entries),
         NEW k \in Keys
  PROVE  Lookup(fs, ts, k) = Newest(fs, k)
<1> DEFINE H == Hits(ts, k)
           S == SeqsWith(fs, k)
<1>1. DOMAIN ts = 1..n /\ H \subseteq 1..n /\ S \subseteq 0..(n - 1)
  BY DEF Hits, SeqsWith
<1>2. \A i \in 1..n : i \in H <=> n - i \in S
  <2> SUFFICES ASSUME NEW i \in 1..n PROVE i \in H <=> n - i \in S
    OBVIOUS
  <2>1. i \in DOMAIN ts /\ n - i \in DOMAIN fs
    BY <1>1
  <2>2. ts[i].index = Present(fs[n - i].entries)
    BY <2>1
  <2>3. QED
    BY <2>1, <2>2, Zenon DEF Hits, SeqsWith, Present
<1>3. CASE H = {}
  <2>1. ASSUME NEW s \in S PROVE FALSE
    <3>1. n - s \in 1..n /\ n - (n - s) = s
      BY <1>1
    <3>2. QED
      BY <3>1, <1>2, <1>3
  <2>2. QED
    BY <2>1, <1>3 DEF Lookup, Newest
<1>4. CASE H # {}
  <2>1. H \in SUBSET Nat
    BY <1>1
  <2>2. Min(H) \in H /\ \A y \in H : Min(H) <= y
    BY <2>1, <1>4, MinNat
  <2>3. PICK m \in 1..n : m = Min(H)
    BY <2>2, <1>1
  <2>4. n - m \in S
    BY <2>2, <2>3, <1>2
  <2>5. ASSUME NEW s \in S PROVE n - m >= s
    <3>1. n - s \in 1..n /\ n - (n - s) = s
      BY <1>1
    <3>2. n - s \in H
      BY <3>1, <1>2
    <3>3. m <= n - s
      BY <3>2, <2>2, <2>3
    <3>4. QED
      BY <3>1, <3>3, <1>1
  <2>6. S \in SUBSET (0..n) /\ S # {}
    BY <1>1, <2>4
  <2>7. Max(S) \in S /\ \A y \in S : Max(S) >= y
    BY <2>6, MaxNat
  <2>8. Max(S) = n - m
    BY <2>4, <2>5, <2>7, <1>1
  <2>9. ts[m].seq = n - m
    BY <1>1
  <2>10. QED
    BY <2>3, <2>6, <2>8, <2>9, <1>4 DEF Lookup, Newest
<1>5. QED
  BY <1>3, <1>4

\* Files that record the same for a key have the same newest record of it.
LEMMA NewestAgree ==
  ASSUME NEW n \in Nat, NEW fs, NEW gs, NEW k \in Keys,
         DOMAIN fs \subseteq 0..n,
         SeqsWith(gs, k) = SeqsWith(fs, k),
         \A s \in SeqsWith(fs, k) : gs[s].entries[k] = fs[s].entries[k]
  PROVE  Newest(gs, k) = Newest(fs, k)
<1>1. CASE SeqsWith(fs, k) = {}
  BY <1>1 DEF Newest
<1>2. CASE SeqsWith(fs, k) # {}
  <2>1. SeqsWith(fs, k) \in SUBSET (0..n)
    BY DEF SeqsWith
  <2>2. Max(SeqsWith(fs, k)) \in SeqsWith(fs, k)
    BY <2>1, <1>2, MaxNat
  <2>3. QED
    BY <1>2, <2>2 DEF Newest
<1>3. QED
  BY <1>1, <1>2

-----------------------------------------------------------------------------
(* Types.                                                                  *)

LEMMA PartialFilesType ==
  ASSUME NEW t \in Table, NEW f \in PartialFiles(t)
  PROVE  f \in File /\ Present(f.entries) \subseteq Present(t)
BY DEF PartialFiles, File, Table, Present

LEMMA SetFileType ==
  ASSUME DOMAIN files \subseteq Nat, files \in [DOMAIN files -> File],
         NEW s \in Nat, NEW f \in File
  PROVE  /\ DOMAIN SetFile(s, f) \subseteq Nat
         /\ SetFile(s, f) \in [DOMAIN SetFile(s, f) -> File]
BY DEF SetFile

LEMMA ClientType ==
  ASSUME NEW r \in Records
  PROVE  Client(r) \in Vals \cup {Absent}
BY DEF Client, Records

LEMMA OpType ==
  ASSUME TypeOK, CurrentOp, pc # "idle"
  PROVE  /\ cur \in Clients /\ queue[cur] \in Seq(Op)
         /\ op \in Op /\ op.key \in Keys /\ op.val \in Records
         /\ Tail(queue[cur]) \in Seq(Op)
<1>1. cur \in Clients /\ queue[cur] \in Seq(Op) /\ queue[cur] # <<>>
  BY DEF TypeOK, CurrentOp
<1>2. op \in Op /\ Tail(queue[cur]) \in Seq(Op)
  BY <1>1 DEF op
<1>3. QED
  BY <1>1, <1>2 DEF Op

LEMMA UsedType ==
  ASSUME TypeOK, NEW what \in Kinds, NEW bound, Spend(what, bound)
  PROVE  used' \in [Kinds -> Nat]
BY DEF TypeOK, Spend

-----------------------------------------------------------------------------
(* The invariant holds initially.                                          *)

LEMMA InitIndInv == Init => IndInv
<1> SUFFICES ASSUME Init PROVE IndInv
  OBVIOUS
<1>1. TypeOK
  <2>1. /\ DOMAIN files \subseteq Nat /\ files \in [DOMAIN files -> File]
        /\ IsFiniteSet(DOMAIN files)
    BY FS_EmptySet DEF Init
  <2>2. used \in [Kinds -> Nat]
    BY DEF Init
  <2>3. /\ memtable \in Table /\ acked \in [Keys -> Vals \cup {Absent}]
        /\ limbo \in [Keys -> SUBSET (Vals \cup {Absent})]
        /\ queue \in [Clients -> Seq(Op)]
    BY DEF Init, Table, EmptyTable
  <2>4. walTorn \in BOOLEAN /\ walBroken \in BOOLEAN /\ cur \in Clients \cup {Nobody}
    BY Zenon DEF Init
  <2>5. wal \in Seq(Op) /\ tables \in Seq(Handle) /\ nextSSTableSeq \in Nat
    BY DEF Init
  <2>6. QED
    BY <2>1, <2>2, <2>3, <2>4, <2>5, Zenon DEF Init, TypeOK
<1>2. TablesMatchFiles
  <2>1. DOMAIN files = {} /\ Cardinality({}) = 0
    BY FS_EmptySet DEF Init
  <2>2. DOMAIN files = 0..(Cardinality(DOMAIN files) - 1)
    BY <2>1
  <2>3. QED
    BY <2>2 DEF Init, TablesMatchFiles
<1>3. LogCoversMemtable /\ DiskMatchesMemory /\ CurrentOp
  BY EngineAssumption DEF Init, LogCoversMemtable, DiskMatchesMemory, CurrentOp
<1>4. AckedSurvives
  <2>1. ASSUME NEW k \in Keys PROVE OnDisk(k) = Absent
    <3>1. Replay(wal)[k] = Absent /\ Newest(files, k) = Absent
      BY ReplayEmpty DEF Init, EmptyTable, Newest, SeqsWith
    <3>2. QED
      BY <3>1 DEF OnDisk, Client
  <2>2. QED
    BY <2>1 DEF Init, AckedSurvives, View
<1>5. QED
  BY <1>1, <1>2, <1>3, <1>4 DEF IndInv

-----------------------------------------------------------------------------
(* Every step preserves it.                                                *)

LEMMA WriteBatchInd ==
  ASSUME IndInv, NEW c \in Clients, NEW ops \in Batches, WriteBatch(c, ops)
  PROVE  IndInv'
<1> USE DEF IndInv, WriteBatch, disk, memory, history
<1>1. TypeOK'
  <2>1. used' \in [Kinds -> Nat]
    BY UsedType DEF Kinds
  <2>2. queue' \in [Clients -> Seq(Op)]
    BY EngineAssumption DEF TypeOK
  <2>3. QED
    BY <2>1, <2>2 DEF TypeOK
<1>2. /\ \A k \in Keys : Get(k)' = Get(k) /\ OnDisk(k)' = OnDisk(k)
      /\ View' = View
  BY DEF Get, OnDisk, View
<1>3. TablesMatchFiles'
  BY DEF TablesMatchFiles
<1>4. LogCoversMemtable'
  BY DEF LogCoversMemtable
<1>5. DiskMatchesMemory'
  BY <1>2 DEF DiskMatchesMemory
<1>6. CurrentOp'
  <2>1. pc # "idle" => queue'[cur] = queue[cur] /\ op' = op
    BY OpType DEF CurrentOp, op, TypeOK
  <2>2. pc # "idle" => op.key \in Keys
    BY OpType
  <2>3. QED
    BY <2>1, <2>2, <1>2 DEF CurrentOp
<1>7. AckedSurvives'
  BY <1>2 DEF AckedSurvives
<1>8. QED
  BY <1>1, <1>3, <1>4, <1>5, <1>6, <1>7

LEMMA StartAppendInd ==
  ASSUME IndInv, NEW c \in Clients, StartAppend(c)
  PROVE  IndInv'
<1> USE DEF IndInv, StartAppend, disk, memory
<1> DEFINE o == Head(queue[c])
<1>1. o \in Op /\ o.key \in Keys /\ o.val \in Records
  <2>1. queue[c] \in Seq(Op) /\ queue[c] # <<>>
    BY DEF TypeOK
  <2>2. o \in Op
    BY <2>1
  <2>3. QED
    BY <2>2 DEF Op
<1>2. Client(o.val) \in Vals \cup {Absent}
  BY <1>1, ClientType
<1>3. /\ limbo' \in [Keys -> SUBSET (Vals \cup {Absent})]
      /\ Client(o.val) \in limbo'[o.key]
      /\ \A k \in Keys : limbo[k] \subseteq limbo'[k]
  BY <1>1, <1>2 DEF TypeOK
<1>4. TypeOK'
  BY <1>3 DEF TypeOK
<1>5. /\ \A k \in Keys : Get(k)' = Get(k) /\ OnDisk(k)' = OnDisk(k)
      /\ View' = View
  BY DEF Get, OnDisk, View
<1>6. TablesMatchFiles'
  BY DEF TablesMatchFiles
<1>7. LogCoversMemtable'
  BY DEF LogCoversMemtable
<1>8. DiskMatchesMemory'
  BY <1>3, <1>5 DEF DiskMatchesMemory
<1>9. CurrentOp'
  <2>1. op' = o
    BY DEF op
  <2>2. QED
    BY <2>1, <1>3, EngineAssumption DEF CurrentOp
<1>10. AckedSurvives'
  BY <1>3, <1>5 DEF AckedSurvives
<1>11. QED
  BY <1>4, <1>6, <1>7, <1>8, <1>9, <1>10

LEMMA AppendRefusedInd ==
  ASSUME IndInv, NEW c \in Clients, AppendRefused(c)
  PROVE  IndInv'
<1> USE DEF IndInv, AppendRefused, disk, memory, history
<1>1. TypeOK'
  <2>1. queue' \in [Clients -> Seq(Op)]
    BY DEF TypeOK
  <2>2. QED
    BY <2>1 DEF TypeOK
<1>2. /\ \A k \in Keys : Get(k)' = Get(k) /\ OnDisk(k)' = OnDisk(k)
      /\ View' = View
  BY DEF Get, OnDisk, View
<1>3. TablesMatchFiles' /\ LogCoversMemtable'
  BY DEF TablesMatchFiles, LogCoversMemtable
<1>4. DiskMatchesMemory' /\ AckedSurvives'
  BY <1>2 DEF DiskMatchesMemory, AckedSurvives
<1>5. CurrentOp'
  BY DEF CurrentOp
<1>6. QED
  BY <1>1, <1>3, <1>4, <1>5

\* One more record in the log, the SSTables as they were: the files hold that
\* record for its key, and for every other key what they held.
LEMMA LogGrows ==
  ASSUME TypeOK, CurrentOp, pc # "idle", wal' = Append(wal, op), files' = files
  PROVE  /\ wal' \in Seq(Op)
         /\ Replay(wal') = [Replay(wal) EXCEPT ![op.key] = op.val]
         /\ Present(Replay(wal')) = Present(Replay(wal)) \cup {op.key}
         /\ \A k \in Keys : OnDisk(k)' = IF k = op.key THEN Client(op.val)
                                        ELSE OnDisk(k)
<1>1. op \in Op /\ op.key \in Keys /\ op.val \in Records /\ wal \in Seq(Op)
  BY OpType DEF TypeOK
<1>2. wal' \in Seq(Op) /\ Replay(wal') = [Replay(wal) EXCEPT ![op.key] = op.val]
  BY <1>1, ReplayAppend
<1>3. Replay(wal) \in Table /\ op.val # Absent
  BY <1>1, ReplayType, EngineAssumption
<1>4. Present(Replay(wal')) = Present(Replay(wal)) \cup {op.key}
  BY <1>1, <1>2, <1>3 DEF Present, Table
<1>5. ASSUME NEW k \in Keys
      PROVE  OnDisk(k)' = IF k = op.key THEN Client(op.val) ELSE OnDisk(k)
  <2>1. Replay(wal')[k] = IF k = op.key THEN op.val ELSE Replay(wal)[k]
    BY <1>2, <1>3 DEF Table
  <2>2. QED
    BY <2>1, <1>3 DEF OnDisk
<1>6. QED
  BY <1>2, <1>4, <1>5

\* The parts of the invariant about a write that returned an error.
LEMMA ReturnErrorInd ==
  ASSUME TypeOK, CurrentOp, pc # "idle", ReturnError
  PROVE  /\ queue' \in [Clients -> Seq(Op)]
         /\ pc' = "idle" /\ cur' = Nobody /\ engine' = engine
         /\ engine = "open" /\ CurrentOp'
<1>1. queue' \in [Clients -> Seq(Op)]
  BY OpType DEF TypeOK, ReturnError
<1>2. QED
  BY <1>1 DEF ReturnError, CurrentOp

\* A log that may have got the record of the write under way.
LEMMA PartialAppendInd ==
  ASSUME TypeOK, CurrentOp, pc # "idle", PartialAppend, files' = files
  PROVE  /\ wal' \in Seq(Op) /\ walTorn' \in BOOLEAN
         /\ Present(Replay(wal)) \subseteq Present(Replay(wal'))
         /\ \A k \in Keys : OnDisk(k)' = OnDisk(k) \/ OnDisk(k)' \in limbo[k]
<1>1. CASE wal' = wal
  <2>1. walTorn' \in BOOLEAN
    <3>1. walTorn \in BOOLEAN
      BY DEF TypeOK
    <3>2. walTorn' = walTorn \/ walTorn' = TRUE
      BY DEF PartialAppend
    <3>3. QED
      BY <3>1, <3>2
  <2>2. QED
    BY <1>1, <2>1 DEF OnDisk, TypeOK
<1>2. CASE wal' = Append(wal, op) /\ UNCHANGED walTorn
  <2>1. Client(op.val) \in limbo[op.key] /\ op.key \in Keys
    BY OpType DEF CurrentOp
  <2>2. QED
    BY <1>2, <2>1, LogGrows DEF TypeOK
<1>3. QED
  BY <1>1, <1>2 DEF PartialAppend

LEMMA AppendFailsInd ==
  ASSUME IndInv, AppendFails
  PROVE  IndInv'
<1> USE DEF IndInv, AppendFails, history
<1>1. /\ wal' \in Seq(Op) /\ walTorn' \in BOOLEAN
      /\ Present(Replay(wal)) \subseteq Present(Replay(wal'))
      /\ \A k \in Keys : OnDisk(k)' = OnDisk(k) \/ OnDisk(k)' \in limbo[k]
  BY PartialAppendInd
<1>2. /\ queue' \in [Clients -> Seq(Op)]
      /\ pc' = "idle" /\ cur' = Nobody /\ engine' = engine
      /\ engine = "open" /\ CurrentOp'
  BY ReturnErrorInd
<1>3. TypeOK'
  <2>1. used' \in [Kinds -> Nat]
    BY UsedType DEF Kinds
  <2>2. walBroken' \in BOOLEAN
    OBVIOUS
  <2>3. QED
    BY <1>1, <1>2, <2>1, <2>2 DEF TypeOK
<1>4. (\A k \in Keys : Get(k)' = Get(k)) /\ View' = View
  BY <1>2 DEF Get, View
<1>5. TablesMatchFiles'
  BY <1>2 DEF TablesMatchFiles
<1>6. LogCoversMemtable'
  BY <1>1, <1>2 DEF LogCoversMemtable
<1>7. DiskMatchesMemory' /\ AckedSurvives'
  BY <1>1, <1>2, <1>4 DEF DiskMatchesMemory, AckedSurvives
<1>8. QED
  BY <1>2, <1>3, <1>5, <1>6, <1>7

LEMMA SyncFailsInd ==
  ASSUME IndInv, SyncFails
  PROVE  IndInv'
<1> USE DEF IndInv, SyncFails, history, memory
<1>1. /\ wal' \in Seq(Op)
      /\ Present(Replay(wal)) \subseteq Present(Replay(wal'))
      /\ \A k \in Keys : OnDisk(k)' = OnDisk(k) \/ OnDisk(k)' \in limbo[k]
  BY PartialAppendInd DEF PartialAppend
<1>2. /\ queue' \in [Clients -> Seq(Op)]
      /\ pc' = "idle" /\ cur' = Nobody /\ engine' = engine
      /\ engine = "open" /\ CurrentOp'
  BY ReturnErrorInd
<1>3. TypeOK'
  <2>1. used' \in [Kinds -> Nat]
    BY UsedType DEF Kinds
  <2>2. QED
    BY <1>1, <1>2, <2>1 DEF TypeOK
<1>4. (\A k \in Keys : Get(k)' = Get(k)) /\ View' = View
  BY <1>2 DEF Get, View
<1>5. TablesMatchFiles'
  BY <1>2 DEF TablesMatchFiles
<1>6. LogCoversMemtable'
  BY <1>1, <1>2 DEF LogCoversMemtable
<1>7. DiskMatchesMemory' /\ AckedSurvives'
  BY <1>1, <1>2, <1>4 DEF DiskMatchesMemory, AckedSurvives
<1>8. QED
  BY <1>2, <1>3, <1>5, <1>6, <1>7

LEMMA ApplyInd ==
  ASSUME IndInv, Apply
  PROVE  IndInv'
<1> USE DEF IndInv, Apply
<1>0. /\ op \in Op /\ op.key \in Keys /\ op.val \in Records /\ cur \in Clients
      /\ op.val # Absent /\ Client(op.val) \in limbo[op.key] /\ engine = "open"
  BY OpType, EngineAssumption DEF CurrentOp
<1>1. /\ wal' \in Seq(Op)
      /\ Present(Replay(wal')) = Present(Replay(wal)) \cup {op.key}
      /\ \A k \in Keys : OnDisk(k)' = IF k = op.key THEN Client(op.val) ELSE OnDisk(k)
  BY LogGrows
<1>2. /\ memtable' \in Table
      /\ Present(memtable') = Present(memtable) \cup {op.key}
      /\ \A k \in Keys : Get(k)' = IF k = op.key THEN Client(op.val) ELSE Get(k)
  <2>1. \A k \in Keys : memtable'[k] = IF k = op.key THEN op.val ELSE memtable[k]
    BY DEF TypeOK, Table
  <2>2. memtable' \in Table
    BY <1>0 DEF TypeOK, Table
  <2>3. Present(memtable') = Present(memtable) \cup {op.key}
    BY <2>1, <1>0 DEF Present
  <2>4. \A k \in Keys : Get(k)' = IF k = op.key THEN Client(op.val) ELSE Get(k)
    BY <2>1, <1>0 DEF Get
  <2>5. QED
    BY <2>2, <2>3, <2>4
<1>3. engine' = engine
  BY DEF Return
<1>4. TablesMatchFiles'
  BY <1>0, <1>3 DEF TablesMatchFiles, Return
<1>5. LogCoversMemtable'
  BY <1>0, <1>1, <1>2, <1>3 DEF LogCoversMemtable
<1>6. \A k \in Keys : View'[k] = IF k = op.key THEN Client(op.val) ELSE View[k]
  BY <1>0, <1>2, <1>3 DEF View
<1>7. CASE Acknowledge /\ Return
  <2>1. Acknowledge /\ Return
    BY <1>7
  <2>2. /\ acked' \in [Keys -> Vals \cup {Absent}]
        /\ limbo' \in [Keys -> SUBSET (Vals \cup {Absent})]
        /\ \A k \in Keys :
             /\ acked'[k] = IF k = op.key THEN Client(op.val) ELSE acked[k]
             /\ limbo'[k] = IF k = op.key THEN {} ELSE limbo[k]
    BY <2>1, <1>0, ClientType DEF Acknowledge, TypeOK
  <2>3. queue' \in [Clients -> Seq(Op)]
    BY <2>1, <1>0, OpType DEF Return, TypeOK
  <2>4. TypeOK'
    BY <2>1, <2>2, <2>3, <1>1, <1>2 DEF TypeOK, Return
  <2>5. DiskMatchesMemory'
    BY <2>2, <1>0, <1>1, <1>2, <1>3 DEF DiskMatchesMemory
  <2>6. AckedSurvives'
    BY <2>2, <1>6 DEF AckedSurvives
  <2>7. CurrentOp'
    BY <2>1 DEF CurrentOp, Return
  <2>8. QED
    BY <2>4, <2>5, <2>6, <2>7, <1>4, <1>5
<1>8. CASE pc' = "full" /\ UNCHANGED <<engine, cur, queue, history>>
  <2>1. TypeOK'
    BY <1>8, <1>1, <1>2 DEF TypeOK, history
  <2>2. DiskMatchesMemory'
    BY <1>8, <1>0, <1>1, <1>2, <1>3 DEF DiskMatchesMemory, history
  <2>3. AckedSurvives'
    BY <1>8, <1>0, <1>6 DEF AckedSurvives, history
  <2>4. CurrentOp'
    <3>1. op' = op
      BY <1>8 DEF op
    <3>2. QED
      BY <3>1, <1>8, <1>0, <1>2 DEF CurrentOp, history
  <2>5. QED
    BY <2>1, <2>2, <2>3, <2>4, <1>4, <1>5
<1>9. QED
  BY <1>7, <1>8

\* While the file of the next table is being written, what the engine reads and
\* what the files hold stay as they are, provided the log covers its keys.
LEMMA NextFileHidden ==
  ASSUME IndInv, engine = "open", NEW f \in File,
         Present(f.entries) \subseteq Present(Replay(wal)),
         files' = SetFile(nextSSTableSeq, f), wal' = wal
  PROVE  /\ DOMAIN files' = 0..nextSSTableSeq
         /\ IsFiniteSet(DOMAIN files')
         /\ Cardinality(DOMAIN files') = nextSSTableSeq + 1
         /\ files' \in [DOMAIN files' -> File]
         /\ files'[nextSSTableSeq] = f
         /\ \A i \in DOMAIN tables : files'[tables[i].seq] = files[tables[i].seq]
         /\ \A k \in Keys : /\ Lookup(files', tables, k) = Lookup(files, tables, k)
                            /\ OnDisk(k)' = OnDisk(k)
<1> USE DEF IndInv
<1> DEFINE n == nextSSTableSeq
<1>1. /\ n \in Nat /\ DOMAIN files \in {0..(n - 1), 0..n} /\ Len(tables) = n
      /\ tables \in Seq(Handle) /\ files \in [DOMAIN files -> File]
      /\ \A i \in DOMAIN tables : tables[i].seq = n - i
  BY DEF TypeOK, TablesMatchFiles
<1>2. DOMAIN files' = 0..n
  <2>1. DOMAIN files' = DOMAIN files \cup {n}
    BY DEF SetFile
  <2>2. QED
    BY <1>1, <2>1
<1>3. IsFiniteSet(DOMAIN files') /\ Cardinality(DOMAIN files') = n + 1
  <2>1. 0 \in Int /\ n \in Int /\ ~(0 > n)
    BY <1>1
  <2>2. IsFiniteSet(0..n) /\ Cardinality(0..n) = n - 0 + 1
    BY <2>1, FS_Interval
  <2>3. QED
    BY <1>1, <1>2, <2>2
<1>4. /\ files' \in [DOMAIN files' -> File] /\ files'[n] = f
      /\ \A s \in 0..(n - 1) : s \in DOMAIN files /\ files'[s] = files[s]
  BY <1>1, <1>2 DEF SetFile
<1>5. \A i \in DOMAIN tables : files'[tables[i].seq] = files[tables[i].seq]
  <2>1. ASSUME NEW i \in DOMAIN tables PROVE n - i \in 0..(n - 1)
    BY <1>1
  <2>2. QED
    BY <2>1, <1>1, <1>4
<1>6. ASSUME NEW k \in Keys
      PROVE  Lookup(files', tables, k) = Lookup(files, tables, k)
  BY <1>1, <1>5, LookupAgree
<1>7. ASSUME NEW k \in Keys
      PROVE  OnDisk(k)' = OnDisk(k)
  <2>1. CASE Replay(wal)[k] # Absent
    BY <2>1 DEF OnDisk
  <2>2. CASE Replay(wal)[k] = Absent
    <3>1. f.entries[k] = Absent /\ (n \in DOMAIN files => files[n].entries[k] = Absent)
      BY <2>2 DEF Present, LogCoversMemtable
    <3>2. SeqsWith(files', k) = SeqsWith(files, k)
      <4>1. \A s \in 0..n : s = n \/ s \in 0..(n - 1)
        BY <1>1
      <4>2. \A s \in SeqsWith(files', k) : s \in 0..(n - 1)
        BY <1>2, <1>4, <3>1, <4>1 DEF SeqsWith
      <4>3. \A s \in SeqsWith(files, k) : s \in 0..(n - 1)
        BY <1>1, <3>1, <4>1 DEF SeqsWith
      <4>4. \A s \in 0..(n - 1) : s \in DOMAIN files'
        BY <1>1, <1>2
      <4>5. QED
        BY <4>2, <4>3, <4>4, <1>4 DEF SeqsWith
    <3>3. \A s \in SeqsWith(files, k) : files'[s].entries[k] = files[s].entries[k]
      BY <1>1, <1>4, <3>1 DEF SeqsWith
    <3>4. DOMAIN files \subseteq 0..n
      BY <1>1
    <3>5. Newest(files', k) = Newest(files, k)
      BY <1>1, <3>2, <3>3, <3>4, NewestAgree
    <3>6. QED
      BY <3>5, <2>2 DEF OnDisk
  <2>3. QED
    BY <2>1, <2>2
<1>8. QED
  BY <1>2, <1>3, <1>4, <1>5, <1>6, <1>7

LEMMA StartFlushInd ==
  ASSUME IndInv, StartFlush
  PROVE  IndInv'
<1> USE DEF IndInv, StartFlush, memory, history
<1>1. engine = "open"
  BY DEF CurrentOp
<1>2. PICK f \in PartialFiles(memtable) : files' = SetFile(nextSSTableSeq, f)
  OBVIOUS
<1>3. f \in File /\ Present(f.entries) \subseteq Present(Replay(wal))
  BY <1>1, <1>2, PartialFilesType DEF TypeOK, LogCoversMemtable
<1>4. /\ DOMAIN files' = 0..nextSSTableSeq
      /\ IsFiniteSet(DOMAIN files')
      /\ Cardinality(DOMAIN files') = nextSSTableSeq + 1
      /\ files' \in [DOMAIN files' -> File]
      /\ files'[nextSSTableSeq] = f
      /\ \A i \in DOMAIN tables : files'[tables[i].seq] = files[tables[i].seq]
      /\ \A k \in Keys : /\ Lookup(files', tables, k) = Lookup(files, tables, k)
                         /\ OnDisk(k)' = OnDisk(k)
  BY <1>1, <1>2, <1>3, NextFileHidden
<1>5. nextSSTableSeq \in Nat
  BY DEF TypeOK
<1>6. TypeOK'
  <2>1. DOMAIN files' \subseteq Nat
    BY <1>4, <1>5
  <2>2. QED
    BY <1>4, <2>1 DEF TypeOK
<1>7. (\A k \in Keys : Get(k)' = Get(k)) /\ View' = View
  BY <1>1, <1>4 DEF Get, View
<1>8. TablesMatchFiles'
  BY <1>1, <1>4, <1>5 DEF TablesMatchFiles
<1>9. LogCoversMemtable'
  BY <1>1, <1>3, <1>4 DEF LogCoversMemtable
<1>10. DiskMatchesMemory' /\ AckedSurvives'
  BY <1>1, <1>4, <1>7 DEF DiskMatchesMemory, AckedSurvives
<1>11. CurrentOp'
  <2>1. op' = op /\ op.key \in Keys
    BY OpType DEF op
  <2>2. QED
    BY <2>1, <1>7 DEF CurrentOp
<1>12. QED
  BY <1>6, <1>8, <1>9, <1>10, <1>11

LEMMA FinishFlushInd ==
  ASSUME IndInv, FinishFlush
  PROVE  IndInv'
<1> USE DEF IndInv, FinishFlush, history
<1> DEFINE n == nextSSTableSeq
           f == [entries |-> memtable, torn |-> FALSE]
           h == [seq |-> n, index |-> Present(memtable)]
<1>1. engine = "open" /\ n \in Nat /\ tables \in Seq(Handle) /\ Len(tables) = n
      /\ memtable \in Table
  BY DEF CurrentOp, TypeOK, TablesMatchFiles
<1>2. f \in File /\ Present(f.entries) \subseteq Present(Replay(wal))
  BY <1>1 DEF File, LogCoversMemtable
<1>3. /\ DOMAIN files' = 0..n
      /\ IsFiniteSet(DOMAIN files')
      /\ Cardinality(DOMAIN files') = n + 1
      /\ files' \in [DOMAIN files' -> File]
      /\ files'[n] = f
      /\ \A i \in DOMAIN tables : files'[tables[i].seq] = files[tables[i].seq]
      /\ \A k \in Keys : /\ Lookup(files', tables, k) = Lookup(files, tables, k)
                         /\ OnDisk(k)' = OnDisk(k)
  BY <1>1, <1>2, NextFileHidden
<1>4. h \in Handle
  BY <1>1 DEF Handle, Present
<1>5. /\ tables' \in Seq(Handle) /\ Len(tables') = n + 1
      /\ DOMAIN tables' = 1..(n + 1) /\ DOMAIN tables = 1..n
      /\ tables'[1] = h /\ \A i \in 1..n : tables'[i + 1] = tables[i]
  BY <1>1, <1>4
<1>6. nextSSTableSeq' = n + 1 /\ (n + 1) - 1 = n /\ n + 1 \in Nat /\ n + 1 \notin 0..n
  BY <1>1
<1>7. EmptyTable \in Table /\ Present(EmptyTable) = {}
  BY DEF EmptyTable, Table, Present
<1>8. TypeOK'
  <2>0. 0..n \subseteq Nat
    BY <1>1
  <2>1. DOMAIN files' \subseteq Nat
    BY <1>3, <2>0, Zenon
  <2>2. QED
    BY <1>3, <1>5, <1>6, <1>7, <2>1, Zenon DEF TypeOK
<1>9. TablesMatchFiles'
  <2>1. DOMAIN files' = 0..(Cardinality(DOMAIN files') - 1)
    BY <1>3, <1>6
  <2>2. DOMAIN files' = 0..(nextSSTableSeq' - 1)
    BY <1>3, <1>6
  <2>3. ASSUME NEW i \in DOMAIN tables'
        PROVE  /\ tables'[i].seq = nextSSTableSeq' - i
               /\ tables'[i].index = Present(files'[tables'[i].seq].entries)
    <3>1. CASE i = 1
      BY <3>1, <1>3, <1>5, <1>6
    <3>2. CASE i # 1
      <4>1. i - 1 \in 1..n /\ (i - 1) + 1 = i /\ n - (i - 1) = n + 1 - i
        BY <1>1, <1>5, <3>2
      <4>2. tables'[i] = tables[i - 1]
        BY <4>1, <1>5
      <4>3. /\ tables[i - 1].seq = n - (i - 1)
            /\ tables[i - 1].index = Present(files[tables[i - 1].seq].entries)
        BY <4>1, <1>1, <1>5 DEF TablesMatchFiles
      <4>4. files'[tables[i - 1].seq] = files[tables[i - 1].seq]
        BY <4>1, <1>3, <1>5
      <4>5. QED
        BY <4>1, <4>2, <4>3, <4>4, <1>6
    <3>3. QED
      BY <3>1, <3>2
  <2>4. QED
    BY <2>1, <2>2, <2>3, <1>5, <1>6 DEF TablesMatchFiles
<1>10. LogCoversMemtable'
  BY <1>3, <1>6, <1>7 DEF LogCoversMemtable
<1>11. ASSUME NEW k \in Keys PROVE Get(k)' = Get(k)
  <2>0. tables' = <<h>> \o tables
    OBVIOUS
  <2> HIDE DEF h
  <2>1. Lookup(files', tables', k) =
          IF k \in h.index THEN files'[h.seq].entries[k] ELSE Lookup(files', tables, k)
    BY <2>0, <1>1, <1>4, LookupPrepend, SMTT(60)
  <2> USE DEF h
  <2>2. Lookup(files', tables', k) =
          IF memtable[k] # Absent THEN memtable[k] ELSE Lookup(files, tables, k)
    <3>1. h.index = Present(memtable) /\ h.seq = n /\ f.entries = memtable
      OBVIOUS
    <3>2. files'[h.seq].entries = memtable
      BY <3>1, <1>3
    <3>3. k \in h.index <=> memtable[k] # Absent
      BY <3>1 DEF Present
    <3>4. QED
      BY <2>1, <3>2, <3>3, <1>3
  <2>3. memtable'[k] = Absent
    BY DEF EmptyTable
  <2>4. QED
    BY <2>2, <2>3 DEF Get
<1>12. View' = View
  BY <1>1, <1>11 DEF View
<1>13. DiskMatchesMemory' /\ AckedSurvives'
  BY <1>1, <1>3, <1>11, <1>12 DEF DiskMatchesMemory, AckedSurvives
<1>14. CurrentOp'
  <2>1. op' = op /\ op.key \in Keys
    BY OpType DEF op
  <2>2. QED
    BY <2>1, <1>11 DEF CurrentOp
<1>15. QED
  BY <1>8, <1>9, <1>10, <1>13, <1>14

LEMMA FlushFailsInd ==
  ASSUME IndInv, FlushFails
  PROVE  IndInv'
<1> USE DEF IndInv, FlushFails, disk, memory, history
<1>1. /\ queue' \in [Clients -> Seq(Op)]
      /\ pc' = "idle" /\ cur' = Nobody /\ engine' = engine
      /\ engine = "open" /\ CurrentOp'
  BY ReturnErrorInd
<1>2. TypeOK'
  <2>1. used' \in [Kinds -> Nat]
    BY UsedType DEF Kinds
  <2>2. QED
    BY <1>1, <2>1 DEF TypeOK
<1>3. /\ \A k \in Keys : Get(k)' = Get(k) /\ OnDisk(k)' = OnDisk(k)
      /\ View' = View
  BY <1>1 DEF Get, OnDisk, View
<1>4. TablesMatchFiles' /\ LogCoversMemtable'
  BY <1>1 DEF TablesMatchFiles, LogCoversMemtable
<1>5. DiskMatchesMemory' /\ AckedSurvives'
  BY <1>1, <1>3 DEF DiskMatchesMemory, AckedSurvives
<1>6. QED
  BY <1>1, <1>2, <1>4, <1>5

\* A log emptied after its memtable became a table: the files hold what is read.
LEMMA EmptyLogInd ==
  ASSUME IndInv, pc = "flushed", wal' = <<>>, files' = files, UNCHANGED memory,
         engine' = engine, pc' = "idle"
  PROVE  /\ \A k \in Keys : Get(k)' = Get(k)
         /\ View' = View
         /\ TablesMatchFiles' /\ LogCoversMemtable' /\ DiskMatchesMemory'
<1> USE DEF IndInv, memory
<1>1. engine = "open" /\ memtable = EmptyTable
  BY DEF CurrentOp
<1>2. (\A k \in Keys : Get(k)' = Get(k)) /\ View' = View
  BY <1>1 DEF Get, View
<1>3. TablesMatchFiles'
  BY DEF TablesMatchFiles
<1>4. LogCoversMemtable'
  <2>1. Present(memtable) = {}
    BY <1>1 DEF Present, EmptyTable
  <2>2. nextSSTableSeq \notin DOMAIN files
    BY DEF TablesMatchFiles, TypeOK
  <2>3. QED
    BY <2>1, <2>2 DEF LogCoversMemtable
<1>5. ASSUME NEW k \in Keys PROVE OnDisk(k)' = Get(k)'
  <2>1. Replay(wal')[k] = Absent /\ memtable'[k] = Absent
    BY <1>1, ReplayEmpty DEF EmptyTable
  <2>2. Lookup(files, tables, k) = Newest(files, k)
    <3>1. /\ nextSSTableSeq \in Nat /\ tables \in Seq(Handle)
          /\ DOMAIN files = 0..(nextSSTableSeq - 1) /\ Len(tables) = nextSSTableSeq
          /\ \A i \in DOMAIN tables :
               /\ tables[i].seq = nextSSTableSeq - i
               /\ tables[i].index = Present(files[tables[i].seq].entries)
      BY <1>1 DEF TypeOK, TablesMatchFiles
    <3>2. QED
      BY <3>1, ListIsNewest
  <2>3. QED
    BY <2>1, <2>2 DEF OnDisk, Get
<1>6. DiskMatchesMemory'
  BY <1>5 DEF DiskMatchesMemory
<1>7. QED
  BY <1>2, <1>3, <1>4, <1>6

LEMMA ResetInd ==
  ASSUME IndInv, Reset
  PROVE  IndInv'
<1> USE DEF IndInv, Reset, memory
<1>1. /\ engine = "open" /\ memtable = EmptyTable
      /\ op.key \in Keys /\ op.val \in Records /\ cur \in Clients
      /\ Get(op.key) = Client(op.val)
  BY OpType DEF CurrentOp
<1>2. /\ acked' \in [Keys -> Vals \cup {Absent}]
      /\ limbo' \in [Keys -> SUBSET (Vals \cup {Absent})]
      /\ \A k \in Keys :
           /\ acked'[k] = IF k = op.key THEN Client(op.val) ELSE acked[k]
           /\ limbo'[k] = IF k = op.key THEN {} ELSE limbo[k]
  BY <1>1, ClientType DEF Acknowledge, TypeOK
<1>3. /\ queue' \in [Clients -> Seq(Op)] /\ pc' = "idle" /\ cur' = Nobody
      /\ engine' = engine
  BY <1>1, OpType DEF Return, TypeOK
<1>4. TypeOK'
  <2>1. wal' \in Seq(Op)
    OBVIOUS
  <2>2. QED
    BY <1>2, <1>3, <2>1, Zenon DEF TypeOK
<1>5. /\ View' = View
      /\ TablesMatchFiles' /\ LogCoversMemtable' /\ DiskMatchesMemory'
  BY <1>3, EmptyLogInd
<1>6. AckedSurvives'
  BY <1>1, <1>2, <1>5 DEF AckedSurvives, View
<1>7. CurrentOp'
  BY <1>3 DEF CurrentOp
<1>8. QED
  BY <1>4, <1>5, <1>6, <1>7

LEMMA ResetFailsInd ==
  ASSUME IndInv, ResetFails
  PROVE  IndInv'
<1> USE DEF IndInv, ResetFails, memory, history
<1>1. /\ queue' \in [Clients -> Seq(Op)]
      /\ pc' = "idle" /\ cur' = Nobody /\ engine' = engine
      /\ engine = "open" /\ CurrentOp'
  BY ReturnErrorInd
<1>2. TypeOK'
  <2>1. used' \in [Kinds -> Nat]
    BY UsedType DEF Kinds
  <2>2. wal' \in Seq(Op)
    <3>1. wal \in Seq(Op) /\ <<>> \in Seq(Op)
      BY DEF TypeOK
    <3>2. QED
      BY <3>1
  <2>3. cur' \in Clients \cup {Nobody}
    BY <1>1
  <2>4. QED
    BY <1>1, <2>1, <2>2, <2>3, Zenon DEF TypeOK
<1>3. /\ View' = View
      /\ TablesMatchFiles' /\ LogCoversMemtable' /\ DiskMatchesMemory'
  <2>1. CASE wal' = wal
    <3>1. /\ \A k \in Keys : Get(k)' = Get(k) /\ OnDisk(k)' = OnDisk(k)
          /\ View' = View
      BY <1>1, <2>1 DEF Get, OnDisk, View
    <3>2. TablesMatchFiles' /\ LogCoversMemtable'
      BY <1>1, <2>1 DEF TablesMatchFiles, LogCoversMemtable
    <3>3. QED
      BY <1>1, <3>1, <3>2 DEF DiskMatchesMemory
  <2>2. CASE wal' = <<>>
    BY <1>1, <2>2, EmptyLogInd
  <2>3. QED
    BY <2>1, <2>2
<1>4. AckedSurvives'
  BY <1>3 DEF AckedSurvives
<1>5. QED
  BY <1>1, <1>2, <1>3, <1>4

\* A process that is gone, over files that hold for every key what it read or
\* something unacknowledged.
LEMMA VanishInd ==
  ASSUME IndInv, engine = "open", Vanish, UNCHANGED history, files' = files,
         wal' \in Seq(Op), walTorn' \in BOOLEAN, used' \in [Kinds -> Nat],
         \A k \in Keys : OnDisk(k)' = OnDisk(k) \/ OnDisk(k)' \in limbo[k]
  PROVE  IndInv'
<1> USE DEF IndInv, Vanish, history
<1>1. /\ EmptyTable \in Table /\ <<>> \in Seq(Handle) /\ 0 \in Nat
      /\ [c \in Clients |-> <<>>] \in [Clients -> Seq(Op)]
  BY DEF EmptyTable, Table
<1>2. TypeOK'
  <2>1. walBroken' \in BOOLEAN /\ cur' \in Clients \cup {Nobody}
    BY Zenon
  <2>2. QED
    BY <1>1, <2>1, Zenon DEF TypeOK
<1>3. TablesMatchFiles' /\ LogCoversMemtable' /\ DiskMatchesMemory'
  BY DEF TablesMatchFiles, LogCoversMemtable, DiskMatchesMemory
<1>4. CurrentOp'
  BY DEF CurrentOp
<1>5. AckedSurvives'
  <2>1. ASSUME NEW k \in Keys PROVE View'[k] \in {acked[k]} \cup limbo[k]
    <3>1. View'[k] = OnDisk(k)'
      BY DEF View
    <3>2. Get(k) \in {acked[k]} \cup limbo[k]
      BY DEF AckedSurvives, View
    <3>3. OnDisk(k) = Get(k) \/ OnDisk(k) \in limbo[k]
      BY DEF DiskMatchesMemory
    <3>4. QED
      BY <3>1, <3>2, <3>3
  <2>2. QED
    BY <2>1 DEF AckedSurvives
<1>6. QED
  BY <1>2, <1>3, <1>4, <1>5

LEMMA CrashInd ==
  ASSUME IndInv, Crash
  PROVE  IndInv'
<1> USE DEF IndInv, Crash
<1>1. used' \in [Kinds -> Nat]
  BY UsedType DEF Kinds
<1>2. CASE pc = "appending"
  <2>1. /\ wal' \in Seq(Op) /\ walTorn' \in BOOLEAN
        /\ \A k \in Keys : OnDisk(k)' = OnDisk(k) \/ OnDisk(k)' \in limbo[k]
    BY <1>2, PartialAppendInd
  <2>2. QED
    BY <1>1, <2>1, VanishInd
<1>3. CASE pc # "appending"
  <2>1. wal' = wal /\ walTorn' = walTorn /\ files' = files
    BY <1>3
  <2>2. /\ wal' \in Seq(Op) /\ walTorn' \in BOOLEAN
        /\ \A k \in Keys : OnDisk(k)' = OnDisk(k)
    BY <2>1 DEF TypeOK, OnDisk
  <2>3. QED
    BY <1>1, <2>2, VanishInd
<1>4. QED
  BY <1>2, <1>3

LEMMA CloseInd ==
  ASSUME IndInv, Close
  PROVE  IndInv'
<1> USE DEF IndInv, Close, disk
<1>1. used' \in [Kinds -> Nat]
  BY UsedType DEF Kinds
<1>2. /\ wal' \in Seq(Op) /\ walTorn' \in BOOLEAN
      /\ \A k \in Keys : OnDisk(k)' = OnDisk(k)
  BY DEF TypeOK, OnDisk
<1>3. QED
  BY <1>1, <1>2, VanishInd

\* Open numbers the tables it loads newest first.
LEMMA NthNewest ==
  ASSUME NEW n \in Nat, DOMAIN files = 0..(n - 1), NEW i \in 1..n
  PROVE  Nth(i) = n - i
<1>1. ASSUME NEW s \in 0..(n - 1)
      PROVE  Cardinality({t \in DOMAIN files : t > s}) = n - 1 - s
  <2>1. {t \in DOMAIN files : t > s} = (s + 1)..(n - 1)
    <3>1. \A t : t \in 0..(n - 1) /\ t > s <=> t \in (s + 1)..(n - 1)
      OBVIOUS
    <3>2. QED
      BY <3>1
  <2>2. s + 1 \in Int /\ n - 1 \in Int
    OBVIOUS
  <2>3. Cardinality((s + 1)..(n - 1)) =
          IF s + 1 > n - 1 THEN 0 ELSE (n - 1) - (s + 1) + 1
    BY <2>2, FS_Interval
  <2>4. (IF s + 1 > n - 1 THEN 0 ELSE (n - 1) - (s + 1) + 1) = n - 1 - s
    OBVIOUS
  <2>5. QED
    BY <2>1, <2>3, <2>4
<1>2. /\ n - i \in DOMAIN files
      /\ Cardinality({t \in DOMAIN files : t > n - i}) = i - 1
  BY <1>1
<1>3. ASSUME NEW s \in DOMAIN files,
             Cardinality({t \in DOMAIN files : t > s}) = i - 1
      PROVE  s = n - i
  BY <1>1, <1>3
<1>4. QED
  BY <1>2, <1>3 DEF Nth

LEMMA OpenInd ==
  ASSUME IndInv, Open
  PROVE  IndInv'
<1> USE DEF IndInv, Open, disk, history
<1> DEFINE n == Cardinality(DOMAIN files)
<1>1. DOMAIN files = 0..(n - 1) /\ n \in Nat
  <2>1. DOMAIN files = 0..(n - 1)
    BY DEF TablesMatchFiles
  <2>3. IsFiniteSet(DOMAIN files)
    BY DEF TypeOK
  <2>4. QED
    BY <2>1, <2>3, FS_CardinalityType
<1>2. n = nextSSTableSeq' /\ tables' = [i \in 1..n |->
         [seq |-> Nth(i), index |-> Present(files[Nth(i)].entries)]]
  BY DEF NextSeq
<1> HIDE DEF n
<1>3. ASSUME NEW i \in 1..n
      PROVE  tables'[i] = [seq |-> n - i, index |-> Present(files[n - i].entries)]
  BY <1>1, <1>2, NthNewest
<1>4. tables' \in Seq(Handle) /\ Len(tables') = n /\ DOMAIN tables' = 1..n
  <2>1. ASSUME NEW i \in 1..n PROVE tables'[i] \in Handle
    <3>1. n - i \in Nat /\ Present(files[n - i].entries) \in SUBSET Keys
      BY <1>1 DEF Present
    <3>2. [seq |-> n - i, index |-> Present(files[n - i].entries)] \in Handle
      BY <3>1 DEF Handle
    <3>3. QED
      BY <3>2, <1>3
  <2>2. tables' \in [1..n -> Handle]
    <3> DEFINE h(i) == [seq |-> Nth(i), index |-> Present(files[Nth(i)].entries)]
    <3>1. tables' = [i \in 1..n |-> h(i)]
      BY <1>2
    <3>2. ASSUME NEW i \in 1..n PROVE h(i) \in Handle
      BY <2>1, <3>1
    <3> HIDE DEF h
    <3>3. QED
      BY <3>1, <3>2
  <2>3. DOMAIN tables' = 1..n
    BY <2>2
  <2>4. tables' \in Seq(Handle)
    BY <1>1, <2>2, SeqDef, Zenon
  <2>5. Len(tables') = n
    <3> DEFINE m == Len(tables')
    <3>1. m \in Nat /\ 1..m = 1..n
      BY <2>3, <2>4, LenProperties
    <3> HIDE DEF m
    <3>2. m > n => m \in 1..m /\ m \notin 1..n
      BY <1>1, <3>1
    <3>3. n > m => n \in 1..n /\ n \notin 1..m
      BY <1>1, <3>1
    <3>4. m = n
      BY <1>1, <3>1, <3>2, <3>3
    <3>5. QED
      BY <3>4 DEF m
  <2>6. QED
    BY <2>3, <2>4, <2>5
<1>5. TypeOK'
  BY <1>1, <1>2, <1>4, ReplayType DEF TypeOK
<1>6. \A i \in DOMAIN tables' :
        /\ tables'[i].seq = n - i
        /\ tables'[i].index = Present(files[tables'[i].seq].entries)
  BY <1>3, <1>4
<1>7. TablesMatchFiles'
  BY <1>1, <1>2, <1>4, <1>6 DEF TablesMatchFiles, CurrentOp
<1>8. LogCoversMemtable'
  <2>1. nextSSTableSeq' \notin DOMAIN files
    BY <1>1, <1>2
  <2>2. QED
    BY <2>1 DEF LogCoversMemtable
<1>9. ASSUME NEW k \in Keys PROVE Get(k)' = OnDisk(k) /\ OnDisk(k)' = OnDisk(k)
  <2>1. Lookup(files, tables', k) = Newest(files, k)
    BY <1>1, <1>4, <1>6, ListIsNewest
  <2>2. QED
    BY <2>1 DEF Get, OnDisk
<1>10. View' = View
  BY <1>9 DEF View
<1>11. DiskMatchesMemory' /\ AckedSurvives'
  BY <1>9, <1>10 DEF DiskMatchesMemory, AckedSurvives
<1>12. CurrentOp'
  BY DEF CurrentOp
<1>13. QED
  BY <1>5, <1>7, <1>8, <1>11, <1>12

LEMMA OpenFailsInd ==
  ASSUME IndInv, OpenFails
  PROVE  IndInv'
<1> USE DEF IndInv, OpenFails, disk, memory, history
<1>1. TypeOK'
  BY DEF TypeOK
<1>2. View' = View
  BY DEF View, OnDisk
<1>3. TablesMatchFiles' /\ LogCoversMemtable' /\ DiskMatchesMemory'
  BY DEF TablesMatchFiles, LogCoversMemtable, DiskMatchesMemory
<1>4. CurrentOp' /\ AckedSurvives'
  BY <1>2 DEF CurrentOp, AckedSurvives
<1>5. QED
  BY <1>1, <1>3, <1>4

LEMMA StutterInd ==
  ASSUME IndInv, UNCHANGED vars
  PROVE  IndInv'
<1> USE DEF vars, disk, memory, control, history
<1>1. (\A k \in Keys : Get(k)' = Get(k) /\ OnDisk(k)' = OnDisk(k)) /\ View' = View
  BY DEF Get, OnDisk, View
<1>2. TypeOK' /\ TablesMatchFiles' /\ LogCoversMemtable'
  BY DEF IndInv, TypeOK, TablesMatchFiles, LogCoversMemtable
<1>3. DiskMatchesMemory' /\ AckedSurvives'
  BY <1>1 DEF IndInv, DiskMatchesMemory, AckedSurvives
<1>4. CurrentOp'
  <2>1. op' = op /\ (pc # "idle" => op.key \in Keys)
    BY OpType DEF op, IndInv
  <2>2. QED
    BY <2>1, <1>1 DEF IndInv, CurrentOp
<1>5. QED
  BY <1>2, <1>3, <1>4 DEF IndInv

LEMMA NextIndInv == IndInv /\ [Next]_vars => IndInv'
<1> SUFFICES ASSUME IndInv, [Next]_vars PROVE IndInv'
  OBVIOUS
<1>1. CASE UNCHANGED vars
  BY <1>1, StutterInd
<1>2. ASSUME NEW c \in Clients, StartAppend(c) \/ AppendRefused(c)
      PROVE  IndInv'
  BY <1>2, StartAppendInd, AppendRefusedInd
<1>3. ASSUME NEW c \in Clients, NEW ops \in Batches, WriteBatch(c, ops)
      PROVE  IndInv'
  BY <1>3, WriteBatchInd
<1>4. CASE Apply \/ AppendFails \/ SyncFails
  BY <1>4, ApplyInd, AppendFailsInd, SyncFailsInd
<1>5. CASE StartFlush \/ FinishFlush \/ FlushFails \/ Reset \/ ResetFails
  BY <1>5, StartFlushInd, FinishFlushInd, FlushFailsInd, ResetInd, ResetFailsInd
<1>6. CASE Crash \/ Close \/ Open \/ OpenFails
  BY <1>6, CrashInd, CloseInd, OpenInd, OpenFailsInd
<1>7. QED
  BY <1>1, <1>2, <1>3, <1>4, <1>5, <1>6 DEF Next

-----------------------------------------------------------------------------
(* The theorems.                                                           *)

\* The inductive invariant holds in every behaviour of the engine.
THEOREM EngineIndInv == Spec => []IndInv
<1>1. Init => IndInv
  BY InitIndInv
<1>2. IndInv /\ [Next]_vars => IndInv'
  BY NextIndInv
<1>3. QED
  BY <1>1, <1>2, PTL DEF Spec

\* The engine's state always has its types (size apart, whose value is a sum
\* over the memtable).
THEOREM EngineTypeOK == Spec => []TypeOK
<1>1. IndInv => TypeOK
  BY DEF IndInv
<1>2. QED
  BY <1>1, EngineIndInv, PTL

\* No acknowledged write is lost, or shadowed by an older one, however many
\* keys, writers, flushes, crashes, restarts and failed file operations there
\* are, as long as Compact is not run.
THEOREM EngineAckedSurvives == Spec => []AckedSurvives
<1>1. IndInv => AckedSurvives
  BY DEF IndInv
<1>2. QED
  BY <1>1, EngineIndInv, PTL

-----------------------------------------------------------------------------
(* Get and Scan.                                                           *)

\* The indexes that Get trusts name exactly the records that Scan reads.
LEMMA IndexIsExact ==
  ASSUME IndInv, engine = "open", NEW k \in Keys
  PROVE  Hits(tables, k) = ScanHits(k)
<1>1. \A i \in DOMAIN tables : tables[i].index = Present(files[tables[i].seq].entries)
  BY DEF IndInv, TablesMatchFiles
<1>2. \A i \in DOMAIN tables :
        k \in tables[i].index <=> files[tables[i].seq].entries[k] # Absent
  BY <1>1 DEF Present
<1>3. QED
  BY <1>2 DEF Hits, ScanHits

\* Engine.Get, which looks only where an index says, and Engine.Scan, which
\* reads every file in full, return the same for every key in every reachable
\* state of an open engine.
THEOREM EngineGetAgreesWithScan == Spec => []GetAgreesWithScan
<1>1. IndInv => GetAgreesWithScan
  <2>1. ASSUME IndInv, engine = "open", NEW k \in Keys PROVE Get(k) = Scan(k)
    <3>1. Hits(tables, k) = ScanHits(k)
      BY <2>1, IndexIsExact
    <3>2. QED
      BY <3>1 DEF Get, Scan, Lookup
  <2>2. QED
    BY <2>1 DEF GetAgreesWithScan
<1>2. QED
  BY <1>1, EngineIndInv, PTL

-----------------------------------------------------------------------------
(* SSTables are immutable.                                                 *)

\* Writing the file of the next number touches no file that is read.
LEMMA NextFileIsNew ==
  ASSUME IndInv, engine = "open", NEW f, NEW i \in DOMAIN tables
  PROVE  /\ tables[i].seq \in DOMAIN files
         /\ tables[i].seq \in DOMAIN SetFile(nextSSTableSeq, f)
         /\ SetFile(nextSSTableSeq, f)[tables[i].seq] = files[tables[i].seq]
<1> DEFINE n == nextSSTableSeq
<1>1. /\ n \in Nat /\ tables \in Seq(Handle) /\ Len(tables) = n
      /\ DOMAIN files \in {0..(n - 1), 0..n}
      /\ tables[i].seq = n - i
  BY DEF IndInv, TypeOK, TablesMatchFiles
<1>2. n - i \in 0..(n - 1) /\ n - i # n
  BY <1>1
<1>3. n - i \in DOMAIN files
  BY <1>1, <1>2
<1>4. QED
  BY <1>1, <1>2, <1>3 DEF SetFile

\* No step of the engine, a flush that fails or is cut short by a crash
\* included, rewrites or removes an SSTable that the running engine reads from.
THEOREM EngineSSTablesImmutable == Spec => SSTablesImmutable
<1> DEFINE Kept == engine = "open" =>
                     \A i \in DOMAIN tables :
                       /\ tables[i].seq \in DOMAIN files'
                       /\ files'[tables[i].seq] = files[tables[i].seq]
<1>1. IndInv /\ [Next]_vars => Kept
  <2> SUFFICES ASSUME IndInv, [Next]_vars, engine = "open", NEW i \in DOMAIN tables
               PROVE  /\ tables[i].seq \in DOMAIN files'
                      /\ files'[tables[i].seq] = files[tables[i].seq]
    OBVIOUS
  <2>1. CASE files' = files
    BY <2>1, NextFileIsNew
  <2>2. CASE \E f : files' = SetFile(nextSSTableSeq, f)
    BY <2>2, NextFileIsNew
  <2>3. CASE StartFlush
    BY <2>3, <2>2 DEF StartFlush
  <2>4. CASE FinishFlush
    BY <2>4, <2>2 DEF FinishFlush
  <2>5. ASSUME NEW c \in Clients,
               StartAppend(c) \/ AppendRefused(c) \/ \E ops \in Batches : WriteBatch(c, ops)
        PROVE  files' = files
    BY <2>5 DEF StartAppend, AppendRefused, WriteBatch, disk
  <2>6. CASE Apply \/ AppendFails \/ SyncFails
    BY <2>6, <2>1 DEF Apply, AppendFails, SyncFails
  <2>7. CASE FlushFails \/ Reset \/ ResetFails
    BY <2>7, <2>1 DEF FlushFails, Reset, ResetFails, disk
  <2>8. CASE Crash \/ Close \/ Open \/ OpenFails
    BY <2>8, <2>1 DEF Crash, Close, Open, OpenFails, disk
  <2>9. CASE UNCHANGED vars
    BY <2>9, <2>1 DEF vars, disk
  <2>10. QED
    BY <2>1, <2>3, <2>4, <2>5, <2>6, <2>7, <2>8, <2>9 DEF Next
<1>2. QED
  BY <1>1, EngineIndInv, PTL DEF Spec, SSTablesImmutable

-----------------------------------------------------------------------------
(* The abstract store.                                                     *)

\* What the store holds has its type.
LEMMA ViewType ==
  ASSUME IndInv
  PROVE  View \in [Keys -> KV!Visible]
<1>1. ASSUME NEW k \in Keys PROVE View[k] \in Vals \cup {Absent}
  BY DEF IndInv, AckedSurvives, TypeOK
<1>2. QED
  BY <1>1 DEF View, KV!Visible

\* A step after which every key holds what it held, or a write that was called
\* and not acknowledged, is a step of the abstract store.
LEMMA Settles ==
  ASSUME IndInv', UNCHANGED limbo,
         \A k \in Keys : View'[k] = View[k] \/ View'[k] \in limbo[k]
  PROVE  KV!Settle
<1>1. View' \in [Keys -> KV!Visible]
  <2>1. ASSUME NEW k \in Keys PROVE View'[k] \in Vals \cup {Absent}
    BY DEF IndInv, AckedSurvives, TypeOK
  <2>2. QED
    BY <2>1 DEF View, KV!Visible
<1>2. QED
  BY <1>1 DEF KV!Settle

LEMMA StartAppendCalls ==
  ASSUME IndInv, NEW c \in Clients, StartAppend(c)
  PROVE  \E k \in Keys, v \in KV!Visible : KV!Call(k, v)
<1> DEFINE o == Head(queue[c])
<1>1. o \in Op
  BY DEF IndInv, TypeOK, StartAppend
<1>2. o.key \in Keys /\ Client(o.val) \in KV!Visible
  BY <1>1, ClientType DEF Op, KV!Visible
<1>3. View' = View
  BY DEF StartAppend, View, Get, OnDisk, disk, memory
<1>4. KV!Call(o.key, Client(o.val))
  BY <1>3 DEF KV!Call, StartAppend
<1>5. QED
  BY <1>2, <1>4

\* The op that is acknowledged is read from here on, and no other key changes.
LEMMA Acknowledges ==
  ASSUME IndInv, IndInv', pc # "idle", Acknowledge,
         \A k \in Keys : View'[k] = IF k = op.key THEN Client(op.val) ELSE View[k]
  PROVE  \E k \in Keys, v \in KV!Visible : KV!Ack(k, v)
<1>1. /\ op.key \in Keys /\ op.val \in Records
      /\ Client(op.val) \in limbo[op.key]
  BY OpType DEF IndInv, CurrentOp
<1>2. Client(op.val) \in KV!Visible
  BY <1>1, ClientType DEF KV!Visible
<1>3. View' = [View EXCEPT ![op.key] = Client(op.val)]
  BY <1>1 DEF View
<1>4. KV!Ack(op.key, Client(op.val))
  BY <1>1, <1>3 DEF KV!Ack, Acknowledge
<1>5. QED
  BY <1>1, <1>2, <1>4

LEMMA ApplyImplements ==
  ASSUME IndInv, IndInv', Apply
  PROVE  KV!Next
<1> USE DEF Apply
<1>1. /\ op.key \in Keys /\ op.val \in Records /\ op.val # Absent
      /\ Client(op.val) \in limbo[op.key] /\ engine = "open"
  BY OpType, EngineAssumption DEF IndInv, CurrentOp
<1>2. engine' = engine
  BY DEF Return
<1>3. \A k \in Keys : memtable'[k] = IF k = op.key THEN op.val ELSE memtable[k]
  BY DEF IndInv, TypeOK, Table
<1>4. \A k \in Keys : Get(k)' = IF k = op.key THEN Client(op.val) ELSE Get(k)
  BY <1>1, <1>3 DEF Get
<1>5. \A k \in Keys : View'[k] = IF k = op.key THEN Client(op.val) ELSE View[k]
  BY <1>1, <1>2, <1>4 DEF View
<1>6. CASE Acknowledge
  BY <1>5, <1>6, Acknowledges DEF KV!Next
<1>7. CASE UNCHANGED history
  <2>1. KV!Settle
    BY <1>1, <1>5, <1>7, Settles DEF history
  <2>2. QED
    BY <2>1 DEF KV!Next
<1>8. QED
  BY <1>6, <1>7

LEMMA ResetImplements ==
  ASSUME IndInv, IndInv', Reset
  PROVE  KV!Next
<1> USE DEF Reset, memory
<1>1. engine = "open" /\ engine' = engine /\ op.key \in Keys
      /\ Get(op.key) = Client(op.val)
  BY OpType DEF IndInv, CurrentOp, Return
<1>2. View' = View /\ \A k \in Keys : View[k] = Get(k)
  BY <1>1 DEF View, Get
<1>3. \A k \in Keys : View'[k] = IF k = op.key THEN Client(op.val) ELSE View[k]
  BY <1>1, <1>2
<1>4. QED
  BY <1>3, Acknowledges DEF KV!Next

\* A crash or a shutdown: what is read from now on is what the files hold.
LEMMA VanishImplements ==
  ASSUME IndInv, IndInv', engine = "open", Vanish, UNCHANGED history,
         \A k \in Keys : OnDisk(k)' = OnDisk(k) \/ OnDisk(k)' \in limbo[k]
  PROVE  KV!Settle
<1>1. ASSUME NEW k \in Keys PROVE View'[k] = View[k] \/ View'[k] \in limbo[k]
  <2>1. View'[k] = OnDisk(k)' /\ View[k] = Get(k)
    BY DEF View, Vanish
  <2>2. OnDisk(k) = Get(k) \/ OnDisk(k) \in limbo[k]
    BY DEF IndInv, DiskMatchesMemory
  <2>3. QED
    BY <2>1, <2>2
<1>2. QED
  BY <1>1, Settles DEF history

LEMMA CrashImplements ==
  ASSUME IndInv, IndInv', Crash
  PROVE  KV!Settle
<1> USE DEF Crash
<1>1. CASE pc = "appending"
  <2>1. \A k \in Keys : OnDisk(k)' = OnDisk(k) \/ OnDisk(k)' \in limbo[k]
    BY <1>1, PartialAppendInd DEF IndInv
  <2>2. QED
    BY <2>1, VanishImplements
<1>2. CASE pc # "appending"
  <2>1. \A k \in Keys : OnDisk(k)' = OnDisk(k)
    BY <1>2 DEF OnDisk
  <2>2. QED
    BY <2>1, VanishImplements
<1>3. QED
  BY <1>1, <1>2

LEMMA CloseImplements ==
  ASSUME IndInv, IndInv', Close
  PROVE  KV!Settle
<1>1. \A k \in Keys : OnDisk(k)' = OnDisk(k)
  BY DEF OnDisk, Close, disk
<1>2. QED
  BY <1>1, VanishImplements DEF Close

\* Open makes the files' view the process's own.
LEMMA OpenSeesDisk ==
  ASSUME IndInv, IndInv', Open
  PROVE  View' = View
<1>1. ASSUME NEW k \in Keys PROVE Get(k)' = OnDisk(k)
  <2> DEFINE n == nextSSTableSeq'
  <2>1. /\ n \in Nat /\ tables' \in Seq(Handle) /\ Len(tables') = n
        /\ DOMAIN files' = 0..(Cardinality(DOMAIN files') - 1)
        /\ \A i \in DOMAIN tables' :
             /\ tables'[i].seq = n - i
             /\ tables'[i].index = Present(files'[tables'[i].seq].entries)
    BY DEF IndInv, TypeOK, TablesMatchFiles, Open
  <2>2. files' = files /\ wal' = wal /\ memtable' = Replay(wal)
        /\ n = Cardinality(DOMAIN files)
    BY DEF Open, NextSeq, disk
  <2>3. DOMAIN files = 0..(n - 1)
    BY <2>1, <2>2
  <2>4. /\ tables' \in Seq(Handle) /\ Len(tables') = n /\ n \in Nat
        /\ \A i \in DOMAIN tables' :
             /\ tables'[i].seq = n - i
             /\ tables'[i].index = Present(files[tables'[i].seq].entries)
    BY <2>1, <2>2
  <2> HIDE DEF n
  <2>5. Lookup(files, tables', k) = Newest(files, k)
    BY <2>3, <2>4, ListIsNewest
  <2>6. QED
    BY <2>2, <2>5 DEF Get, OnDisk
<1>2. QED
  BY <1>1 DEF View, Open

\* While a flush writes its file, what the engine reads does not change.
LEMMA FlushKeepsView ==
  ASSUME IndInv, StartFlush
  PROVE  View' = View
<1>1. engine = "open" /\ engine' = engine /\ tables' = tables /\ memtable' = memtable
  BY DEF IndInv, CurrentOp, StartFlush, memory
<1>2. PICK f : files' = SetFile(nextSSTableSeq, f)
  BY DEF StartFlush
<1>3. ASSUME NEW k \in Keys PROVE Lookup(files', tables, k) = Lookup(files, tables, k)
  <2>1. \A i \in DOMAIN tables : files'[tables[i].seq] = files[tables[i].seq]
    BY <1>1, <1>2, NextFileIsNew
  <2>2. tables \in Seq(Handle)
    BY DEF IndInv, TypeOK
  <2>3. QED
    BY <2>1, <2>2, LookupAgree
<1>4. QED
  BY <1>1, <1>3 DEF View, Get

\* The new table answers for the keys that the memtable answered for.
LEMMA NewTableKeepsView ==
  ASSUME IndInv, FinishFlush
  PROVE  View' = View
<1> DEFINE n == nextSSTableSeq
           h == [seq |-> n, index |-> Present(memtable)]
           f == [entries |-> memtable, torn |-> FALSE]
<1>1. /\ engine = "open" /\ engine' = engine /\ memtable' = EmptyTable
      /\ files' = SetFile(n, f) /\ tables' = <<h>> \o tables
      /\ n \in Nat /\ tables \in Seq(Handle) /\ h \in Handle
  BY DEF IndInv, CurrentOp, FinishFlush, TypeOK, Handle, Present
<1>2. files'[n] = f
  BY <1>1 DEF SetFile
<1>3. \A i \in DOMAIN tables : files'[tables[i].seq] = files[tables[i].seq]
  BY <1>1, NextFileIsNew
<1>4. f.entries = memtable /\ h.seq = n
  OBVIOUS
<1>5. \A k \in Keys : k \in h.index <=> memtable[k] # Absent
  BY DEF Present
<1> HIDE DEF h, f
<1>6. ASSUME NEW k \in Keys PROVE Get(k)' = Get(k)
  <2>1. Lookup(files', tables', k) =
          IF k \in h.index THEN files'[h.seq].entries[k] ELSE Lookup(files', tables, k)
    BY <1>1, LookupPrepend
  <2>2. Lookup(files', tables, k) = Lookup(files, tables, k)
    BY <1>1, <1>3, LookupAgree
  <2>3. memtable'[k] = Absent
    BY <1>1 DEF EmptyTable
  <2>4. QED
    BY <2>1, <2>2, <2>3, <1>2, <1>4, <1>5 DEF Get
<1>7. QED
  BY <1>1, <1>6 DEF View

\* Steps that change neither what is read nor what is called.
LEMMA InvisibleSteps ==
  ASSUME IndInv,
         \/ \E c \in Clients : AppendRefused(c) \/ \E ops \in Batches : WriteBatch(c, ops)
         \/ AppendFails \/ SyncFails \/ FlushFails \/ ResetFails \/ OpenFails
         \/ UNCHANGED vars
  PROVE  View' = View /\ limbo' = limbo
<1> USE DEF View, Get, OnDisk, disk, memory, history, control
<1>1. ASSUME NEW c \in Clients,
             AppendRefused(c) \/ \E ops \in Batches : WriteBatch(c, ops)
      PROVE  View' = View /\ limbo' = limbo
  BY <1>1 DEF AppendRefused, WriteBatch
<1>2. CASE AppendFails \/ SyncFails
  <2>1. engine = "open" /\ engine' = engine
    BY <1>2 DEF AppendFails, SyncFails, ReturnError, IndInv, CurrentOp
  <2>2. QED
    BY <1>2, <2>1 DEF AppendFails, SyncFails
<1>3. CASE FlushFails \/ ResetFails
  <2>1. CASE FlushFails
    BY <2>1 DEF FlushFails, ReturnError
  <2>2. CASE ResetFails
    <3>1. engine = "open" /\ engine' = engine
      BY <2>2 DEF ResetFails, ReturnError, IndInv, CurrentOp
    <3>2. QED
      BY <2>2, <3>1 DEF ResetFails
  <2>3. QED
    BY <1>3, <2>1, <2>2
<1>4. CASE OpenFails
  BY <1>4 DEF OpenFails
<1>5. CASE UNCHANGED vars
  BY <1>5 DEF vars
<1>6. QED
  BY <1>1, <1>2, <1>3, <1>4, <1>5

\* Every step of the engine is a step of the abstract store or changes nothing
\* of it.
LEMMA StepImplements ==
  ASSUME IndInv, IndInv', [Next]_vars
  PROVE  [KV!Next]_(KV!kvVars)
<1>1. ASSUME NEW c \in Clients, StartAppend(c) PROVE KV!Next
  BY <1>1, StartAppendCalls DEF KV!Next
<1>2. CASE Apply
  BY <1>2, ApplyImplements
<1>3. CASE Reset
  BY <1>3, ResetImplements
<1>4. CASE Crash
  BY <1>4, CrashImplements DEF KV!Next
<1>5. CASE Close
  BY <1>5, CloseImplements DEF KV!Next
<1>6. CASE Open
  BY <1>6, OpenSeesDisk DEF KV!kvVars, Open, history
<1>7. CASE StartFlush
  BY <1>7, FlushKeepsView DEF KV!kvVars, StartFlush, history
<1>8. CASE FinishFlush
  BY <1>8, NewTableKeepsView DEF KV!kvVars, FinishFlush, history
<1>9. CASE \/ \E c \in Clients : AppendRefused(c) \/ \E ops \in Batches : WriteBatch(c, ops)
           \/ AppendFails \/ SyncFails \/ FlushFails \/ ResetFails \/ OpenFails
           \/ UNCHANGED vars
  BY <1>9, InvisibleSteps DEF KV!kvVars
<1>10. QED
  BY <1>1, <1>2, <1>3, <1>4, <1>5, <1>6, <1>7, <1>8, <1>9 DEF Next

\* A closed engine over no files is the empty store.
LEMMA InitImplements == Init => KV!Init
<1> SUFFICES ASSUME Init PROVE KV!Init
  OBVIOUS
<1>1. ASSUME NEW k \in Keys PROVE OnDisk(k) = Absent
  <2>1. Replay(wal)[k] = Absent /\ Newest(files, k) = Absent
    BY ReplayEmpty DEF Init, EmptyTable, Newest, SeqsWith
  <2>2. QED
    BY <2>1 DEF OnDisk, Client
<1>2. View = [k \in Keys |-> Absent]
  BY <1>1 DEF View, Init
<1>3. QED
  BY <1>2 DEF Init, KV!Init

\* The engine implements the abstract store: a call enters limbo, an
\* acknowledgement makes the write the one that is read and ends what was in
\* limbo, and a crash, a restart or a failed write can at most let a called
\* write surface.  Flushes, failed opens and everything else cannot be seen.
THEOREM EngineImplementsKVStore == Spec => ImplementsKVStore
<1>1. Init => KV!Init
  BY InitImplements
<1>2. IndInv /\ IndInv' /\ [Next]_vars => [KV!Next]_(KV!kvVars)
  BY StepImplements
<1>3. QED
  BY <1>1, <1>2, EngineIndInv, PTL DEF Spec, ImplementsKVStore, KV!Spec

-----------------------------------------------------------------------------
(* Sums.  Bytes adds up over a set, in an order that CHOOSE settles.        *)

Pick(s) == CHOOSE x \in s : TRUE
Weight(t, k) == KeyLen[k] + Length(t[k])
IsTotal(f, t, S) ==
  f = [s \in SUBSET S |-> IF s = {} THEN 0 ELSE Weight(t, Pick(s)) + f[s \ {Pick(s)}]]
Total(t, S) == (CHOOSE f : IsTotal(f, t, S))[S]
\* The equation of the sum over S.
Adds(t, S) == Total(t, S) = IF S = {} THEN 0 ELSE Weight(t, Pick(S)) + Total(t, S \ {Pick(S)})

LEMMA BytesIs ==
  ASSUME NEW t
  PROVE  Bytes(t) = Total(t, Present(t))
BY DEF Bytes, MapThenSumSet, MapThenFoldSet, IsTotal, Weight, Total, Pick

LEMMA PickIs ==
  ASSUME NEW s, s # {}
  PROVE  Pick(s) \in s
BY DEF Pick

\* What holds of a finite set when it holds of its proper subsets holds of it.
LEMMA SubsetInduction ==
  ASSUME NEW S, IsFiniteSet(S), NEW G,
         \A s \in SUBSET S : (\A r \in SUBSET s : r # s => r \in G) => s \in G
  PROVE  S \in G
<1> DEFINE T == {s \in SUBSET S : s \notin G}
           R == StrictSubsetOrdering(S)
           F == FiniteSubsetsOf(S)
<1>1. SUFFICES ASSUME T # {}
               PROVE  FALSE
  OBVIOUS
<1>2. T \subseteq F
  BY FS_Subset DEF FiniteSubsetsOf
<1>3. \E t \in T : \A u \in T : ~(<<u, t>> \in R)
  <2>1. IsWellFoundedOn(R, F)
    BY FS_StrictSubsetOrderingWellFounded
  <2> HIDE DEF T, R, F
  <2> QED BY <1>1, <1>2, <2>1, WFMin
<1>4. PICK t \in T : \A u \in T : ~(<<u, t>> \in R)
  BY <1>3
<1>5. ASSUME NEW r \in SUBSET t, r # t
      PROVE  r \in G
  <2>1. <<r, t>> \in R
    BY <1>5 DEF StrictSubsetOrdering
  <2>2. QED
    BY <1>4, <1>5, <2>1
<1>6. QED
  BY <1>4, <1>5

\* A function that satisfies the equation is the sum, where sums do.
LEMMA TotalIsUnique ==
  ASSUME NEW t, NEW S, IsFiniteSet(S), NEW f, IsTotal(f, t, S),
         NEW u \in SUBSET S, \A s \in SUBSET u : Adds(t, s)
  PROVE  f[u] = Total(t, u)
<1> DEFINE G == {s \in SUBSET u : f[s] = Total(t, s)}
<1>1. IsFiniteSet(u)
  BY FS_Subset
<1>2. ASSUME NEW s \in SUBSET u, \A r \in SUBSET s : r # s => r \in G
      PROVE  s \in G
  <2>1. f[s] = IF s = {} THEN 0 ELSE Weight(t, Pick(s)) + f[s \ {Pick(s)}]
    <3>1. s \in SUBSET S
      OBVIOUS
    <3>2. QED
      BY <3>1, Zenon DEF IsTotal
  <2>2. Adds(t, s)
    OBVIOUS
  <2>3. CASE s = {}
    BY <2>1, <2>2, <2>3 DEF Adds
  <2>4. CASE s # {}
    <3>1. PICK r : r = s \ {Pick(s)}
      OBVIOUS
    <3>2. r \in SUBSET s /\ r # s
      BY <2>4, <3>1, PickIs
    <3>3. f[r] = Total(t, r)
      BY <1>2, <3>2
    <3>4. QED
      BY <2>1, <2>2, <2>4, <3>1, <3>3 DEF Adds
  <2>5. QED
    BY <2>3, <2>4
<1>3. u \in G
  <2> HIDE DEF G
  <2> QED BY <1>1, <1>2, SubsetInduction
<1>4. QED
  BY <1>3

LEMMA TotalAdds ==
  ASSUME NEW t, NEW S, IsFiniteSet(S)
  PROVE  Adds(t, S)
<1> DEFINE G == {s \in SUBSET S : Adds(t, s)}
<1>1. ASSUME NEW s \in SUBSET S, \A r \in SUBSET s : r # s => r \in G
      PROVE  s \in G
  <2>0. \A r \in SUBSET s : r # s => Adds(t, r)
    BY <1>1
  <2>1. IsFiniteSet(s)
    BY FS_Subset
  <2> DEFINE h == [r \in SUBSET s |-> IF r = {} THEN 0 ELSE Weight(t, Pick(r)) + Total(t, r \ {Pick(r)})]
  <2>2. \A r \in SUBSET s : r # s => h[r] = Total(t, r)
    BY <2>0 DEF Adds
  <2>3. IsTotal(h, t, s)
    <3>1. ASSUME NEW r \in SUBSET s, r # {}
          PROVE  h[r \ {Pick(r)}] = Total(t, r \ {Pick(r)})
      <4>1. PICK q : q = r \ {Pick(r)}
        OBVIOUS
      <4>2. q \in SUBSET s /\ q # s
        BY <3>1, <4>1, PickIs
      <4>3. h[q] = Total(t, q)
        BY <2>2, <4>2
      <4>4. QED
        BY <4>1, <4>3
    <3>2. h = [r \in SUBSET s |-> IF r = {} THEN 0 ELSE Weight(t, Pick(r)) + h[r \ {Pick(r)}]]
      BY <3>1
    <3>3. QED
      BY <3>2 DEF IsTotal
  <2> HIDE DEF h
  <2>4. PICK f : f = CHOOSE g : IsTotal(g, t, s)
    OBVIOUS
  <2>5. IsTotal(f, t, s) /\ Total(t, s) = f[s]
    BY <2>3, <2>4 DEF Total
  <2>6. f[s] = IF s = {} THEN 0 ELSE Weight(t, Pick(s)) + f[s \ {Pick(s)}]
    <3>1. s \in SUBSET s
      OBVIOUS
    <3>2. QED
      BY <2>5, <3>1, Zenon DEF IsTotal
  <2>7. s # {} => f[s \ {Pick(s)}] = Total(t, s \ {Pick(s)})
    <3>1. HAVE s # {}
    <3>2. PICK q : q = s \ {Pick(s)}
      OBVIOUS
    <3>3. q \in SUBSET s /\ \A r \in SUBSET q : r \in SUBSET s /\ r # s
      BY <3>1, <3>2, PickIs
    <3>4. f[q] = Total(t, q)
      <4>1. \A r \in SUBSET q : Adds(t, r)
        BY <2>0, <3>3, Zenon
      <4>2. IsFiniteSet(s) /\ IsTotal(f, t, s) /\ q \in SUBSET s
        BY <2>1, <2>5, <3>3
      <4>3. QED
        BY <4>1, <4>2, TotalIsUnique
    <3>5. QED
      BY <3>2, <3>4
  <2>8. QED
    BY <2>5, <2>6, <2>7 DEF Adds
<1>2. S \in G
  <2> HIDE DEF G
  <2> QED BY <1>1, SubsetInduction
<1>3. QED
  BY <1>2

\* The order in which it adds up does not matter.
LEMMA TotalOf ==
  ASSUME NEW t, NEW S, IsFiniteSet(S), \A k \in S : Weight(t, k) \in Int
  PROVE  Total(t, S) \in Int /\ \A x \in S : Total(t, S) = Weight(t, x) + Total(t, S \ {x})
<1> DEFINE G == {s \in SUBSET S : Total(t, s) \in Int
                                  /\ \A x \in s : Total(t, s) = Weight(t, x) + Total(t, s \ {x})}
<1>1. ASSUME NEW s \in SUBSET S, \A r \in SUBSET s : r # s => r \in G
      PROVE  s \in G
  <2>1. IsFiniteSet(s)
    BY FS_Subset
  <2>2. Adds(t, s)
    BY <2>1, TotalAdds
  <2>3. CASE s = {}
    BY <2>2, <2>3 DEF Adds
  <2>4. CASE s # {}
    <3>1. PICK c, d : c = Pick(s) /\ d = s \ {c}
      OBVIOUS
    <3>2. c \in s /\ d \in SUBSET s /\ d # s
      BY <2>4, <3>1, PickIs
    <3>3. Total(t, s) = Weight(t, c) + Total(t, d)
      BY <2>2, <2>4, <3>1 DEF Adds
    <3>4. Total(t, d) \in Int /\ Weight(t, c) \in Int
      BY <1>1, <3>2
    <3>5. ASSUME NEW x \in s, x # c
          PROVE  Total(t, s) = Weight(t, x) + Total(t, s \ {x})
      <4>1. PICK e, b : e = s \ {x} /\ b = d \ {x}
        OBVIOUS
      <4>2. x \in d /\ c \in e /\ b = e \ {c} /\ e \in SUBSET s /\ e # s
        BY <3>1, <3>2, <3>5, <4>1
      <4>3. b \in SUBSET s /\ b # s
        BY <3>2, <4>1
      <4>4. Total(t, d) = Weight(t, x) + Total(t, b)
        BY <1>1, <3>2, <4>1, <4>2
      <4>5. Total(t, e) = Weight(t, c) + Total(t, b)
        BY <1>1, <4>2
      <4>6. Weight(t, x) \in Int /\ Total(t, b) \in Int
        BY <1>1, <4>3
      <4>7. QED
        BY <3>3, <3>4, <4>1, <4>4, <4>5, <4>6
    <3>6. QED
      BY <3>1, <3>3, <3>4, <3>5
  <2>5. QED
    BY <2>3, <2>4
<1>2. S \in G
  <2> HIDE DEF G
  <2> QED BY <1>1, SubsetInduction
<1>3. QED
  BY <1>2

LEMMA TotalSame ==
  ASSUME NEW t, NEW u, NEW S, IsFiniteSet(S), \A k \in S : Weight(t, k) = Weight(u, k)
  PROVE  Total(t, S) = Total(u, S)
<1> DEFINE G == {s \in SUBSET S : Total(t, s) = Total(u, s)}
<1>1. ASSUME NEW s \in SUBSET S, \A r \in SUBSET s : r # s => r \in G
      PROVE  s \in G
  <2>1. IsFiniteSet(s)
    BY FS_Subset
  <2>2. Adds(t, s) /\ Adds(u, s)
    BY <2>1, TotalAdds
  <2>3. CASE s = {}
    BY <2>2, <2>3 DEF Adds
  <2>4. CASE s # {}
    <3>1. PICK c, d : c = Pick(s) /\ d = s \ {c}
      OBVIOUS
    <3>2. c \in s /\ d \in SUBSET s /\ d # s
      BY <2>4, <3>1, PickIs
    <3>3. Total(t, d) = Total(u, d) /\ Weight(t, c) = Weight(u, c)
      BY <1>1, <3>2
    <3>4. QED
      BY <2>2, <2>4, <3>1, <3>3 DEF Adds
  <2>5. QED
    BY <2>3, <2>4
<1>2. S \in G
  <2> HIDE DEF G
  <2> QED BY <1>1, SubsetInduction
<1>3. QED
  BY <1>2

-----------------------------------------------------------------------------
(* Memtable.size.                                                          *)

LEMMA EmptyHasNoBytes ==
  Present(EmptyTable) = {} /\ IsFiniteSet(Present(EmptyTable)) /\ Bytes(EmptyTable) = 0
<1>1. Present(EmptyTable) = {}
  BY DEF Present, EmptyTable
<1>2. IsFiniteSet({})
  BY FS_EmptySet
<1>3. Adds(EmptyTable, {})
  BY <1>2, TotalAdds
<1>4. QED
  BY <1>1, <1>2, <1>3, BytesIs DEF Adds

\* Memtable.Put keeps the size.
LEMMA PutKeepsSize ==
  ASSUME NEW t \in Table, IsFiniteSet(Present(t)), NEW k \in Keys, NEW r \in Records,
         NEW u \in Table, u[k] = r, \A x \in Keys : x # k => u[x] = t[x]
  PROVE  /\ IsFiniteSet(Present(u))
         /\ Bytes(u) = Bytes(t) + Length(r) + IF t[k] = Absent THEN KeyLen[k] ELSE - Length(t[k])
<1>1. /\ u \in Table /\ u[k] = r /\ r # Absent
      /\ \A x \in Keys : x # k => u[x] = t[x]
  BY EngineAssumption DEF Records
<1>2. Present(u) = Present(t) \cup {k}
  BY <1>1 DEF Present
<1>3. IsFiniteSet(Present(u))
  BY <1>2, FS_AddElement
<1>4. PICK S : S = Present(t) \ {k}
  OBVIOUS
<1>5. IsFiniteSet(S) /\ k \notin S /\ Present(u) \ {k} = S
  BY <1>2, <1>4, FS_Subset
<1>6. \A x \in Keys : KeyLen[x] \in Int /\ \A v \in Records : Length(v) \in Int
  BY EngineAssumption DEF Length, Records
<1>7. /\ \A x \in Present(t) : Weight(t, x) \in Int
      /\ \A x \in Present(u) : Weight(u, x) \in Int
  <2>1. /\ \A x \in Present(t) : t[x] \in Records /\ x \in Keys
        /\ \A x \in Present(u) : u[x] \in Records /\ x \in Keys
    BY <1>1 DEF Present, Table
  <2>2. ASSUME NEW x \in Keys, NEW v, NEW y, v[x] = y, y \in Records
        PROVE  Weight(v, x) \in Int
    <3>1. KeyLen[x] \in Int /\ Length(y) \in Int
      BY <1>6, <2>2
    <3>2. Weight(v, x) = KeyLen[x] + Length(y)
      BY <2>2 DEF Weight
    <3>3. QED
      BY <3>1, <3>2
  <2>3. QED
    BY <2>1, <2>2
<1>8. Total(t, S) = Total(u, S)
  <2>1. \A x \in S : x \in Keys /\ x # k
    BY <1>4 DEF Present
  <2>2. ASSUME NEW x \in S
        PROVE  Weight(t, x) = Weight(u, x)
    <3>1. u[x] = t[x]
      BY <1>1, <2>1
    <3>2. QED
      BY <3>1 DEF Weight
  <2>3. IsFiniteSet(S) /\ \A x \in S : Weight(t, x) = Weight(u, x)
    BY <1>5, <2>2
  <2>4. QED
    BY <2>3, TotalSame
<1>9. Total(t, S) \in Int
  <2>1. \A x \in S : Weight(t, x) \in Int
    BY <1>4, <1>7
  <2>2. QED
    BY <1>5, <2>1, TotalOf, Zenon
<1>10. Bytes(u) = Weight(u, k) + Total(u, S)
  <2>1. k \in Present(u)
    BY <1>2
  <2>2. Total(u, Present(u)) = Weight(u, k) + Total(u, Present(u) \ {k})
    <3>1. PICK P : P = Present(u)
      OBVIOUS
    <3>2. IsFiniteSet(P) /\ k \in P /\ \A x \in P : Weight(u, x) \in Int
      BY <1>3, <1>7, <2>1, <3>1
    <3>3. Total(u, P) = Weight(u, k) + Total(u, P \ {k})
      BY <3>2, TotalOf, ZenonT(60)
    <3>4. QED
      BY <3>1, <3>3
  <2>3. QED
    BY <1>5, <2>2, BytesIs
<1>11. KeyLen[k] \in Int /\ Length(r) \in Int /\ Weight(u, k) = KeyLen[k] + Length(r)
  BY <1>1, <1>6 DEF Weight
<1>12. CASE t[k] = Absent
  <2>1. S = Present(t)
    BY <1>4, <1>12 DEF Present
  <2>2. QED
    BY <1>3, <1>8, <1>9, <1>10, <1>11, <1>12, <2>1, BytesIs
<1>13. CASE t[k] # Absent
  <2>1. k \in Present(t)
    BY <1>13 DEF Present
  <2>2. Total(t, Present(t)) = Weight(t, k) + Total(t, S)
    <3>1. PICK P : P = Present(t)
      OBVIOUS
    <3>2. IsFiniteSet(P) /\ k \in P /\ \A x \in P : Weight(t, x) \in Int
      BY <1>7, <2>1, <3>1
    <3>3. Total(t, P) = Weight(t, k) + Total(t, P \ {k})
      BY <3>2, TotalOf, ZenonT(60)
    <3>4. QED
      BY <1>4, <3>1, <3>3
  <2>3. Weight(t, k) = KeyLen[k] + Length(t[k]) /\ Length(t[k]) \in Int
    BY <1>6, <1>13 DEF Weight, Table
  <2>4. QED
    BY <1>3, <1>8, <1>9, <1>10, <1>11, <1>13, <2>2, <2>3, BytesIs
<1>14. QED
  BY <1>12, <1>13

-----------------------------------------------------------------------------
(* The invariant: what the size adds up over is finite, since the log is.  *)

SizeInv ==
  /\ IsFiniteSet(Present(Replay(wal))) /\ IsFiniteSet(Present(memtable))
  /\ SizeExact

\* A record more in the log is one key more to replay.
LEMMA LogStaysFinite ==
  ASSUME NEW w \in Seq(Op), IsFiniteSet(Present(Replay(w))), NEW o \in Op
  PROVE  IsFiniteSet(Present(Replay(Append(w, o))))
<1>1. PICK t, u : t = Replay(w) /\ u = Replay(Append(w, o))
  OBVIOUS
<1>2. t \in Table /\ o.key \in Keys /\ o.val \in Records
  BY <1>1, ReplayType DEF Op
<1>3. u \in Table /\ u[o.key] = o.val /\ \A x \in Keys : x # o.key => u[x] = t[x]
  BY <1>1, <1>2, ReplayAppend DEF Table
<1>4. IsFiniteSet(Present(t))
  BY <1>1
<1>5. IsFiniteSet(Present(u))
  BY <1>2, <1>3, <1>4, PutKeepsSize
<1>6. QED
  BY <1>1, <1>5

\* Steps that leave the memtable alone.
LEMMA SizeStays ==
  ASSUME IndInv, SizeInv, memtable' = memtable, size' = size, engine' = "open" => engine = "open",
         \/ wal' = wal \/ wal' = <<>>
         \/ pc # "idle" /\ wal' = Append(wal, op)
  PROVE  SizeInv'
<1>1. IsFiniteSet(Present(Replay(wal)))'
  <2>1. CASE wal' = wal
    BY <2>1 DEF SizeInv
  <2>2. CASE wal' = <<>>
    BY <2>2, ReplayEmpty, EmptyHasNoBytes
  <2>3. CASE pc # "idle" /\ wal' = Append(wal, op)
    <3>1. op \in Op /\ wal \in Seq(Op)
      BY <2>3, OpType DEF IndInv, TypeOK
    <3>2. PICK o, w : o = op /\ w = wal /\ wal' = Append(w, o)
      BY <2>3
    <3>3. IsFiniteSet(Present(Replay(w)))
      BY <3>2 DEF SizeInv
    <3>4. IsFiniteSet(Present(Replay(Append(w, o))))
      BY <3>1, <3>2, <3>3, LogStaysFinite
    <3>5. QED
      BY <3>2, <3>4
  <2>4. QED
    BY <2>1, <2>2, <2>3
<1>2. IsFiniteSet(Present(memtable))'
  BY DEF SizeInv
<1>3. SizeExact'
  BY DEF SizeInv, SizeExact
<1>4. QED
  BY <1>1, <1>2, <1>3 DEF SizeInv

LEMMA ApplySize ==
  ASSUME IndInv, SizeInv, Apply
  PROVE  SizeInv'
<1>1. /\ pc # "idle" /\ wal' = Append(wal, op) /\ memtable' = [memtable EXCEPT ![op.key] = op.val]
      /\ size' = Grown(op.key, op.val) /\ engine' = engine
  BY DEF Apply, Return
<1>2. op \in Op /\ op.key \in Keys /\ op.val \in Records /\ wal \in Seq(Op) /\ memtable \in Table
  BY <1>1, OpType DEF IndInv, TypeOK
<1>3. PICK o, w, t : o = op /\ w = wal /\ t = memtable
  OBVIOUS
<1>4. IsFiniteSet(Present(Replay(w))) /\ IsFiniteSet(Present(t))
  BY <1>3 DEF SizeInv
<1>5. IsFiniteSet(Present(Replay(Append(w, o))))
  BY <1>2, <1>3, <1>4, LogStaysFinite
<1>6. PICK u : u = memtable'
  OBVIOUS
<1>7. u \in Table /\ u[o.key] = o.val /\ \A x \in Keys : x # o.key => u[x] = t[x]
  BY <1>1, <1>2, <1>3, <1>6 DEF Table
<1>8. /\ IsFiniteSet(Present(u))
      /\ Bytes(u) = Bytes(t) + Length(o.val) + IF t[o.key] = Absent THEN KeyLen[o.key] ELSE - Length(t[o.key])
  BY <1>2, <1>3, <1>4, <1>7, PutKeepsSize
<1>9. engine = "open" => size' = Bytes(u)
  <2>1. size' = size + Length(o.val) + IF t[o.key] = Absent THEN KeyLen[o.key] ELSE - Length(t[o.key])
    BY <1>1, <1>3 DEF Grown
  <2>2. engine = "open" => size = Bytes(t)
    BY <1>3 DEF SizeInv, SizeExact
  <2>3. QED
    BY <1>8, <2>1, <2>2
<1>10. SizeExact'
  BY <1>1, <1>6, <1>9 DEF SizeExact
<1>11. QED
  BY <1>1, <1>3, <1>5, <1>6, <1>8, <1>10 DEF SizeInv

LEMMA VanishSize ==
  ASSUME IndInv, SizeInv, Vanish,
         wal' = wal \/ (pc # "idle" /\ wal' = Append(wal, op))
  PROVE  SizeInv'
<1>1. memtable' = EmptyTable /\ engine' # "open"
  BY DEF Vanish
<1>2. IsFiniteSet(Present(Replay(wal)))'
  <2>1. CASE wal' = wal
    BY <2>1 DEF SizeInv
  <2>2. CASE pc # "idle" /\ wal' = Append(wal, op)
    <3>1. op \in Op /\ wal \in Seq(Op)
      BY <2>2, OpType DEF IndInv, TypeOK
    <3>2. PICK o, w : o = op /\ w = wal /\ wal' = Append(w, o)
      BY <2>2
    <3>3. IsFiniteSet(Present(Replay(w)))
      BY <3>2 DEF SizeInv
    <3>4. IsFiniteSet(Present(Replay(Append(w, o))))
      BY <3>1, <3>2, <3>3, LogStaysFinite
    <3>5. QED
      BY <3>2, <3>4
  <2>3. QED
    BY <2>1, <2>2
<1>3. IsFiniteSet(Present(memtable))'
  BY <1>1, EmptyHasNoBytes
<1>4. QED
  BY <1>1, <1>2, <1>3 DEF SizeInv, SizeExact

LEMMA StepSize == IndInv /\ SizeInv /\ [Next]_vars => SizeInv'
<1> SUFFICES ASSUME IndInv, SizeInv, [Next]_vars
             PROVE  SizeInv'
  OBVIOUS
<1>1. ASSUME NEW c \in Clients,
             StartAppend(c) \/ AppendRefused(c) \/ \E ops \in Batches : WriteBatch(c, ops)
      PROVE  SizeInv'
  BY <1>1, SizeStays DEF StartAppend, AppendRefused, WriteBatch, disk, memory
<1>2. CASE AppendFails
  BY <1>2, SizeStays DEF AppendFails, PartialAppend, ReturnError
<1>3. CASE SyncFails
  BY <1>3, SizeStays DEF SyncFails, ReturnError, memory
<1>4. CASE StartFlush \/ FlushFails \/ ResetFails
  BY <1>4, SizeStays DEF StartFlush, FlushFails, ResetFails, ReturnError, disk, memory
<1>5. CASE Reset
  BY <1>5, SizeStays DEF Reset, Return, memory
<1>6. CASE FinishFlush
  <2>1. memtable' = EmptyTable /\ size' = 0 /\ wal' = wal
    BY <1>6 DEF FinishFlush
  <2>2. QED
    BY <2>1, EmptyHasNoBytes DEF SizeInv, SizeExact
<1>7. CASE Crash
  BY <1>7, VanishSize DEF Crash, PartialAppend
<1>8. CASE Close
  BY <1>8, VanishSize DEF Close, disk
<1>9. CASE Open
  <2>1. memtable' = Replay(wal) /\ size' = Bytes(Replay(wal)) /\ wal' = wal
    BY <1>9 DEF Open, disk
  <2>2. QED
    BY <2>1 DEF SizeInv, SizeExact
<1>10. CASE OpenFails
  BY <1>10, SizeStays DEF OpenFails, disk, memory
<1>11. CASE UNCHANGED vars
  BY <1>11, SizeStays DEF vars, disk, memory, control
<1>12. QED
  BY <1>1, <1>2, <1>3, <1>4, <1>5, <1>6, <1>7, <1>8, <1>9, <1>10, <1>11, ApplySize DEF Next

\* Memtable.size is what the memtable's keys and values add up to, whatever is
\* inserted, overwritten, deleted, flushed and replayed: maybeFlush compares the
\* limit with what the memtable holds.
THEOREM EngineSizeExact == Spec => []SizeExact
<1>1. Init => SizeInv
  BY ReplayEmpty, EmptyHasNoBytes DEF Init, SizeInv, SizeExact
<1>2. IndInv /\ SizeInv /\ [Next]_vars => SizeInv'
  BY StepSize
<1>3. SizeInv => SizeExact
  BY DEF SizeInv
<1>4. QED
  BY EngineIndInv, <1>1, <1>2, <1>3, PTL DEF Spec
=============================================================================
