---------------------------- MODULE StoreProofs ----------------------------
(* Theorems about the database for any sets of keys, values and threads,   *)
(* any threshold and any bounds.                                           *)
EXTENDS StoreProperties, SequenceTheorems, FiniteSetTheorems, WellFoundedInduction, TLAPS

-----------------------------------------------------------------------------
(* The operators the actions are built from *)

\* Inserting into a MemTable and merging two of them give tables again
LEMMA TableType ==
  /\ EmptyTable \in Table
  /\ \A t \in Table, k \in Key, v \in Value : insert(t, k, v) \in Table
  /\ \A t, u \in Table : Overlay(t, u) \in Table
BY DEF EmptyTable, Table, insert, Overlay

\* What write_record appends is a record
LEMMA NewRecordType ==
  ASSUME NEW log \in Log, NEW key \in Key \cup {None}, NEW value \in Value \cup {None},
         NEW commit \in Nat \cup {None}
  PROVE  NewRecord(log, key, value, commit) \in Record
<1>1. log.rolling_crc \in Seq(Hashed) /\ <<key, value, commit>> \in Hashed
  BY DEF Log, Hashed
<1>2. Append(log.rolling_crc, <<key, value, commit>>) \in Seq(Hashed)
  BY <1>1, AppendProperties
<1> QED
  BY <1>2 DEF NewRecord, Record

\* A torn record is a record as far as its type goes
LEMMA TornType == Torn \in Record
<1>1. <<>> \in Seq(Hashed)
  BY EmptySeq
<1> QED
  BY <1>1 DEF Torn, Record

\* A log whose last commit record lies within the file
GoodLog(log) == log \in Log /\ log.last_commit_pos <= Len(log.file)

\* A log that ends with its last commit record
Clean(log) == Len(log.file) = log.last_commit_pos /\ log.rolling_crc = <<>>

\* write_record, successful or not, leaves a good log; a commit record is the
\* last one of the file and sets the CRC back to zero
LEMMA WriteRecordType ==
  ASSUME NEW log, GoodLog(log),
         NEW key \in Key \cup {None}, NEW value \in Value \cup {None},
         NEW commit \in Nat \cup {None}
  PROVE  /\ GoodLog(write_record(log, key, value, commit))
         /\ commit # None => Clean(write_record(log, key, value, commit))
<1> DEFINE record == NewRecord(log, key, value, commit)
<1>1. record \in Record /\ record.crc \in Seq(Hashed)
  BY NewRecordType DEF Record, GoodLog
<1>2. /\ log.file \in Seq(Record) /\ log.last_commit_pos \in Nat /\ <<>> \in Seq(Hashed)
  BY EmptySeq DEF GoodLog, Log
<1>3. /\ Append(log.file, record) \in Seq(Record)
      /\ Len(Append(log.file, record)) = Len(log.file) + 1
      /\ Len(log.file) \in Nat
  BY <1>1, <1>2, AppendProperties, LenProperties
<1> HIDE DEF record
<1> QED
  BY <1>1, <1>2, <1>3 DEF write_record, Log, GoodLog, record, Clean

\* Replacing the file keeps a log good as long as the last commit is within it
LEMMA FileReplaced ==
  ASSUME NEW log, GoodLog(log), NEW file \in Seq(Record), NEW crc \in Seq(Hashed),
         log.last_commit_pos <= Len(file)
  PROVE  /\ GoodLog([log EXCEPT !.file = file])
         /\ GoodLog([log EXCEPT !.file = file, !.rolling_crc = crc])
BY DEF GoodLog, Log

\* A record cut short at the end of a good log leaves a good log
LEMMA TornLog ==
  ASSUME NEW log, GoodLog(log)
  PROVE  GoodLog([log EXCEPT !.file = Append(log.file, Torn)])
<1>1. /\ log.file \in Seq(Record) /\ log.last_commit_pos \in Nat
      /\ log.rolling_crc \in Seq(Hashed)
  BY DEF GoodLog, Log
<1>2. /\ Append(log.file, Torn) \in Seq(Record)
      /\ Len(Append(log.file, Torn)) = Len(log.file) + 1
      /\ Len(log.file) \in Nat
  BY <1>1, TornType, AppendProperties, LenProperties
<1> DEFINE file == Append(log.file, Torn)
<1>3. file \in Seq(Record) /\ log.last_commit_pos <= Len(file)
  BY <1>1, <1>2 DEF GoodLog
<1> HIDE DEF file
<1>4. GoodLog([log EXCEPT !.file = file])
  BY <1>1, <1>3, FileReplaced
<1> QED
  BY <1>4 DEF file

\* The same for each way write_record can fail
LEMMA FailedWritesType ==
  ASSUME NEW log, GoodLog(log),
         NEW key \in Key \cup {None}, NEW value \in Value \cup {None},
         NEW commit \in Nat \cup {None}, NEW failed \in FailedWrites(log, key, value, commit)
  PROVE  GoodLog(failed)
<1> DEFINE torn == [log EXCEPT !.file = Append(log.file, Torn)]
<1> DEFINE crc == NewRecord(log, key, value, commit).crc
<1>1. GoodLog(torn)
  BY TornLog
<1>2. crc \in Seq(Hashed)
  BY NewRecordType DEF Record, GoodLog
<1>3. failed = log \/ failed = torn \/ failed = [torn EXCEPT !.rolling_crc = crc]
  BY DEF FailedWrites
<1> HIDE DEF torn, crc
<1> QED
  BY <1>1, <1>2, <1>3 DEF GoodLog, Log

\* Truncating leaves a good log that ends with its last commit record
LEMMA TruncateType ==
  ASSUME NEW log, GoodLog(log)
  PROVE  GoodLog(truncate_to_last_commit(log)) /\ Clean(truncate_to_last_commit(log))
<1>1. /\ log.file \in Seq(Record) /\ log.last_commit_pos \in Nat /\ <<>> \in Seq(Hashed)
  BY EmptySeq DEF GoodLog, Log
<1>2. \A i \in 1..log.last_commit_pos : log.file[i] \in Record
  BY <1>1, LenProperties, ElementOfSeq DEF GoodLog
<1>3. /\ SubSeq(log.file, 1, log.last_commit_pos) \in Seq(Record)
      /\ Len(SubSeq(log.file, 1, log.last_commit_pos)) = log.last_commit_pos
  BY <1>1, <1>2, SubSeqProperties
<1> DEFINE file == SubSeq(log.file, 1, log.last_commit_pos)
<1> DEFINE cut == [log EXCEPT !.file = file, !.rolling_crc = <<>>]
<1>4. truncate_to_last_commit(log) = cut
  BY DEF truncate_to_last_commit
<1>5. file \in Seq(Record) /\ Len(file) = log.last_commit_pos /\ log.last_commit_pos <= Len(file)
  BY <1>1, <1>3
<1> HIDE DEF file
<1>6. GoodLog(cut)
  BY <1>1, <1>5, FileReplaced
<1>7. cut.file = file /\ cut.last_commit_pos = log.last_commit_pos /\ cut.rolling_crc = <<>>
  BY DEF GoodLog, Log
<1> HIDE DEF cut
<1> QED
  BY <1>4, <1>5, <1>6, <1>7 DEF Clean

\* A new or reset log is good
LEMMA EmptyLogs == GoodLog(create) /\ Clean(create) /\ \A log : reset(log) = create
<1>1. <<>> \in Seq(Hashed) /\ <<>> \in Seq(Record) /\ Len(<<>>) = 0
  BY EmptySeq
<1> QED
  BY <1>1 DEF create, reset, GoodLog, Log, Clean

\* Replaying any log gives a table
LEMMA ReplayedType ==
  ASSUME NEW log \in Log
  PROVE  Replayed(log.file) \in Table
<1> DEFINE f == log.file
<1>1. f \in Seq(Record)
  BY DEF Log
<1>2. ASSUME NEW k \in Key, \E i \in DOMAIN f : LastInsert(f, k, i)
      PROVE  f[CHOOSE i \in DOMAIN f : LastInsert(f, k, i)].value \in Value \cup {None}
  <2>1. PICK i \in DOMAIN f : i = CHOOSE j \in DOMAIN f : LastInsert(f, k, j)
    BY <1>2
  <2>2. f[i] \in Record
    BY <1>1, <2>1, LenProperties, ElementOfSeq
  <2> QED
    BY <2>1, <2>2 DEF Record
<1> QED
  BY <1>2 DEF Replayed, Table

-----------------------------------------------------------------------------
(* Type correctness *)

\* Everything TypeOK says apart from the log
TypeRest ==
  /\ DOMAIN ssts \in SUBSET Nat /\ IsFiniteSet(DOMAIN ssts)
  /\ ssts \in [DOMAIN ssts -> Table]
  /\ tmps \in SUBSET Nat
  /\ db \in {"closed", "loaded", "open"}
  /\ readable \in Readable
  /\ owner \in Writer \cup {None}
  /\ pc \in [Writer -> WriterPc]
  /\ fork \in [Writer -> Table]
  /\ snapshot \in [Writer -> Readable]
  /\ flush_ts \in [Writer -> Nat]
  /\ ro \in [Reader -> Readable \cup {None}]
  /\ counter \in Nat /\ clock \in Nat
  /\ writes \in [Writer -> Table]
  /\ session \in Table
  /\ committed \in [Key -> SUBSET Value]
  /\ flushes \in Seq(Nat)
  /\ high \in Nat
  /\ tally \in [Counted -> Nat]

\* TypeOK, split into the log and the rest
LEMMA TypeSplit == TypeOK <=> GoodLog(wal) /\ TypeRest
BY DEF TypeOK, TypeRest, GoodLog

\* An empty database has no entries and no SSTables
LEMMA EmptyReadableType == EmptyReadable \in Readable
<1>1. <<>> \in Seq(Table)
  BY EmptySeq
<1> QED
  BY <1>1, TableType DEF EmptyReadable, Readable

\* Timestamps are natural numbers
LEMMA NextTimestampType == TypeRest => NextTimestamp \in Nat
BY WindowAssumption DEF TypeRest, NextTimestamp

\* Every step of a writer that only moves it or ends its transaction
LEMMA ReleaseType ==
  ASSUME TypeRest, NEW w \in Writer, Release(w)
  PROVE  /\ owner' \in Writer \cup {None} /\ pc' \in [Writer -> WriterPc]
         /\ fork' \in [Writer -> Table] /\ snapshot' \in [Writer -> Readable]
         /\ flush_ts' \in [Writer -> Nat] /\ writes' \in [Writer -> Table]
BY TableType, EmptyReadableType DEF TypeRest, Release, Goto, WriterPc

\* Counting keeps the counts natural numbers
LEMMA CountType ==
  ASSUME TypeRest, NEW what \in Counted, Count(what)
  PROVE  tally' \in [Counted -> Nat]
BY DEF TypeRest, Count

\* Taking a timestamp keeps the clock variables natural numbers
LEMMA TakeTimestampType ==
  ASSUME TypeRest, TakeTimestamp
  PROVE  counter' \in Nat /\ clock' \in Nat /\ high' \in Nat /\ NextTimestamp \in Nat
BY NextTimestampType DEF TypeRest, TakeTimestamp

\* The file a flush has renamed exists
RenamedExists == \A w \in Writer : pc[w] = "renamed" => flush_ts[w] \in DOMAIN ssts

\* No operation, failure, crash or restart leaves the types: in particular the
\* log is always a sequence of records with the last commit inside the file
THEOREM StoreTypeCorrect == Spec => []TypeOK
<1> DEFINE Good == GoodLog(wal) /\ TypeRest /\ RenamedExists
<1>1. Init => Good
  <2> SUFFICES ASSUME Init PROVE Good
    OBVIOUS
  <2>1. GoodLog(wal)
    BY EmptyLogs DEF Init
  <2>2. /\ <<>> \in Seq(Nat) /\ DOMAIN <<>> = {} /\ IsFiniteSet({})
        /\ <<>> \in [{} -> Table]
    BY EmptySeq, FS_EmptySet
  <2>3. TypeRest
    BY <2>2, TableType, EmptyReadableType DEF Init, TypeRest, WriterPc
  <2> QED
    BY <2>1, <2>3 DEF Init, RenamedExists
<1>2. Good /\ [Next]_vars => Good'
  <2> SUFFICES ASSUME GoodLog(wal), TypeRest, RenamedExists, [Next]_vars
               PROVE  GoodLog(wal') /\ TypeRest' /\ RenamedExists'
    BY DEF GoodLog
  <2> DEFINE Goal == GoodLog(wal') /\ TypeRest' /\ RenamedExists'
  <2>a. wal \in Log
    BY DEF GoodLog
  <2> USE DEF TypeRest, RenamedExists, WriterPc, Goto, disk, memory, time, ghosts
  <2>1. ASSUME NEW w \in Writer, Begin(w) PROVE Goal
    BY <2>1 DEF Begin
  <2>2. ASSUME NEW w \in Writer, Lock(w) PROVE Goal
    BY <2>2 DEF Lock
  <2>3. ASSUME NEW w \in Writer, Load(w) PROVE Goal
    BY <2>3 DEF Load, Readable
  <2>4. ASSUME NEW w \in Writer, NEW k \in Key, NEW v \in Value, Insert(w, k, v)
        PROVE  Goal
    <3>1. GoodLog(wal')
      BY <2>4, WriteRecordType DEF Insert
    <3>2. insert(fork[w], k, v) \in Table /\ insert(writes[w], k, v) \in Table
      BY TableType
    <3> QED
      BY <2>4, <3>1, <3>2 DEF Insert
  <2>5. ASSUME NEW w \in Writer, NEW k \in Key, NEW v \in Value, InsertFails(w, k, v)
        PROVE  Goal
    <3>1. GoodLog(wal')
      BY <2>5, FailedWritesType DEF InsertFails
    <3>2. tally' \in [Counted -> Nat]
      BY <2>5, CountType DEF InsertFails, Counted
    <3> QED
      BY <2>5, <3>1, <3>2 DEF InsertFails
  <2>6. ASSUME NEW w \in Writer, WriteCommit(w) PROVE Goal
    <3>1. counter' \in Nat /\ clock' \in Nat /\ high' \in Nat /\ NextTimestamp \in Nat
      BY <2>6, TakeTimestampType DEF WriteCommit
    <3>2. GoodLog(wal')
      BY <2>6, <3>1, WriteRecordType DEF WriteCommit, write_commit
    <3>3. Overlay(writes[w], session) \in Table
      BY TableType
    <3>4. \A k \in Key : committed[k] \cup ({writes[w][k]} \ {None}) \in SUBSET Value
      BY DEF Table
    <3>5. tally' \in [Counted -> Nat]
      BY <2>6, CountType DEF WriteCommit, Counted
    <3> QED
      BY <2>6, <3>1, <3>2, <3>3, <3>4, <3>5 DEF WriteCommit
  <2>7. ASSUME NEW w \in Writer, CommitFails(w) PROVE Goal
    <3>1. counter' \in Nat /\ clock' \in Nat /\ high' \in Nat /\ NextTimestamp \in Nat
      BY <2>7, TakeTimestampType DEF CommitFails
    <3>2. GoodLog(wal')
      BY <2>7, <3>1, FailedWritesType DEF CommitFails
    <3>3. tally' \in [Counted -> Nat]
      BY <2>7, CountType DEF CommitFails, Counted
    <3>4. TypeRest'
      BY <2>7, <3>1, <3>3, ReleaseType DEF CommitFails
    <3> QED
      BY <2>7, <3>2, <3>4 DEF CommitFails, Release
  <2>8. ASSUME NEW w \in Writer, Publish(w) PROVE Goal
    <3>1. readable' \in Readable
      BY <2>8 DEF Publish, Readable
    <3>2. CASE Release(w)
      BY <2>8, <3>1, <3>2, ReleaseType DEF Publish, Release
    <3>3. CASE ~Release(w)
      BY <2>8, <3>1, <3>3 DEF Publish
    <3> QED
      BY <3>2, <3>3
  <2>9. ASSUME NEW w \in Writer, Abort(w) PROVE Goal
    <3>1. GoodLog(wal')
      BY <2>9, TruncateType DEF Abort
    <3>2. TypeRest'
      BY <2>9, ReleaseType DEF Abort
    <3> QED
      BY <2>9, <3>1, <3>2 DEF Abort, Release
  <2>10. ASSUME NEW w \in Writer, AbortFails(w) PROVE Goal
    <3>1. tally' \in [Counted -> Nat]
      BY <2>10, CountType DEF AbortFails, Counted
    <3>2. TypeRest'
      BY <2>10, <3>1, ReleaseType DEF AbortFails
    <3> QED
      BY <2>10, <3>2 DEF AbortFails, Release
  <2>11. ASSUME NEW w \in Writer, FlushWrite(w) PROVE Goal
    <3>1. counter' \in Nat /\ clock' \in Nat /\ high' \in Nat /\ NextTimestamp \in Nat
      BY <2>11, TakeTimestampType DEF FlushWrite
    <3> QED
      BY <2>11, <3>1 DEF FlushWrite
  <2>12. ASSUME NEW w \in Writer, FlushRename(w) PROVE Goal
    <3>1. flushes' \in Seq(Nat)
      BY <2>12, AppendProperties DEF FlushRename
    <3>2. IsFiniteSet(DOMAIN ssts \cup {flush_ts[w]})
      BY FS_AddElement
    <3>3. /\ DOMAIN ssts' = DOMAIN ssts \cup {flush_ts[w]}
          /\ ssts' \in [DOMAIN ssts' -> Table]
      BY <2>12 DEF FlushRename
    <3> QED
      BY <2>12, <3>1, <3>2, <3>3 DEF FlushRename
  <2>13. ASSUME NEW w \in Writer, FlushSwap(w) PROVE Goal
    <3>1. ssts[flush_ts[w]] \in Table /\ snapshot[w].sstables \in Seq(Table)
      BY <2>13 DEF FlushSwap, Readable
    <3>2. <<ssts[flush_ts[w]]>> \o snapshot[w].sstables \in Seq(Table)
      BY <3>1, ConcatProperties
    <3>3. readable' \in Readable
      BY <2>13, <3>2, TableType DEF FlushSwap, Readable
    <3> QED
      BY <2>13, <3>3 DEF FlushSwap
  <2>14. ASSUME NEW w \in Writer, WalReset(w) PROVE Goal
    <3>1. TypeRest'
      BY <2>14, ReleaseType DEF WalReset
    <3> QED
      BY <2>14, <3>1, EmptyLogs DEF WalReset, Release
  <2>15. ASSUME NEW w \in Writer, FlushFails(w) PROVE Goal
    <3>1. tally' \in [Counted -> Nat]
      BY <2>15, CountType DEF FlushFails, Counted
    <3>2. tmps' \in SUBSET Nat /\ counter' \in Nat /\ clock' \in Nat /\ high' \in Nat
      BY <2>15, TakeTimestampType DEF FlushFails
    <3>3. TypeRest'
      BY <2>15, <3>1, <3>2, ReleaseType DEF FlushFails
    <3> QED
      BY <2>15, <3>3 DEF FlushFails, Release
  <2>16. ASSUME NEW r \in Reader, BeginReadonly(r) PROVE Goal
    BY <2>16 DEF BeginReadonly
  <2>17. ASSUME NEW r \in Reader, EndReadonly(r) PROVE Goal
    BY <2>17 DEF EndReadonly
  <2>18. CASE OpenLoad
    <3>1. PICK order \in [1..Cardinality(DOMAIN ssts) -> DOMAIN ssts] :
            readable' = [active |-> Replayed(wal.file),
                         sstables |-> [i \in DOMAIN order |-> ssts[order[i]]]]
      BY <2>18 DEF OpenLoad
    <3>2. Cardinality(DOMAIN ssts) \in Nat
      BY FS_CardinalityType
    <3>3. [i \in DOMAIN order |-> ssts[order[i]]] \in Seq(Table)
      <4>1. [i \in DOMAIN order |-> ssts[order[i]]]
              \in [1..Cardinality(DOMAIN ssts) -> Table]
        OBVIOUS
      <4>2. Seq(Table) = UNION {[1..n -> Table] : n \in Nat}
        BY SeqDef, Zenon
      <4> QED
        BY <3>2, <4>1, <4>2
    <3>4. readable' \in Readable
      BY <3>1, <3>3, <2>a, ReplayedType DEF Readable
    <3> QED
      BY <2>18, <3>4 DEF OpenLoad
  <2>19. CASE OpenFails
    <3>1. tally' \in [Counted -> Nat]
      BY <2>19, CountType DEF OpenFails, Counted
    <3> QED
      BY <2>19, <3>1, EmptyReadableType DEF OpenFails
  <2>20. CASE OpenCreate
    BY <2>20, EmptyLogs, TableType DEF OpenCreate
  <2>21. CASE Close
    <3>1. tally' \in [Counted -> Nat]
      BY <2>21, CountType DEF Close, Counted
    <3> QED
      BY <2>21, <3>1, EmptyReadableType DEF Close
  <2>22. CASE Crash \/ CrashStale
    <3>0. Dies
      BY <2>22 DEF Crash, CrashStale
    <3>1. GoodLog(wal')
      BY <3>0, TornLog DEF Dies
    <3>2. tally' \in [Counted -> Nat]
      BY <2>22, CountType DEF Crash, CrashStale, Counted
    <3>3. clock' \in Nat /\ counter' \in Nat /\ flushes' \in Seq(Nat) /\ high' \in Nat
      <4>1. clock' \in Nat
        BY <2>22, BoundsAssumption DEF Crash, CrashStale
      <4>2. flushes' \in Seq(Nat) /\ high' \in Nat
        <5>1. <<>> \in Seq(Nat)
          BY EmptySeq
        <5>2. flushes \in Seq(Nat) /\ high \in Nat
          OBVIOUS
        <5>3. (flushes' = flushes /\ high' = high) \/ (flushes' = <<>> /\ high' = 0)
          BY <2>22 DEF Crash, CrashStale
        <5>4. 0 \in Nat
          OBVIOUS
        <5> QED
          BY <5>1, <5>2, <5>3, <5>4, Zenon
      <4> QED
        BY <3>0, <4>1, <4>2 DEF Dies
    <3>4. /\ db' = "closed" /\ readable' = EmptyReadable /\ owner' = None
          /\ pc' = [w \in Writer |-> "idle"]
          /\ fork' = [w \in Writer |-> EmptyTable] /\ writes' = [w \in Writer |-> EmptyTable]
          /\ snapshot' = [w \in Writer |-> EmptyReadable]
          /\ flush_ts' = [w \in Writer |-> 0] /\ ro' = [r \in Reader |-> None]
          /\ UNCHANGED <<ssts, tmps, session, committed>>
      BY <3>0 DEF Dies
    <3> QED
      BY <3>1, <3>2, <3>3, <3>4, EmptyReadableType, TableType
  <2>23. CASE Tick
    BY <2>23 DEF Tick
  <2>24. CASE UNCHANGED vars
    BY <2>24 DEF vars
  <2> QED
    BY <2>1, <2>2, <2>3, <2>4, <2>5, <2>6, <2>7, <2>8, <2>9, <2>10, <2>11, <2>12,
       <2>13, <2>14, <2>15, <2>16, <2>17, <2>18, <2>19, <2>20, <2>21, <2>22, <2>23,
       <2>24 DEF Next, Inserts, Proceed, Open
<1>3. Good => TypeOK
  BY TypeSplit
<1> QED
  BY <1>1, <1>2, <1>3, PTL DEF Spec

-----------------------------------------------------------------------------
(* The mutex, and what its owner may rely on *)

\* The owner of the mutex is the one writer inside a transaction, and there is
\* no writer at all unless the database is open
Locking ==
  /\ \A w \in Writer : pc[w] \in Holding <=> owner = w
  /\ db # "open" => \A w \in Writer : pc[w] = "idle"

\* The operations that end a transaction unlock, and only they do
LEMMA LockingStep ==
  TypeRest /\ Locking /\ [Next]_vars => Locking'
<1> SUFFICES ASSUME TypeRest, Locking, [Next]_vars PROVE Locking'
  OBVIOUS
<1> USE ThreadAssumption DEF TypeRest, Locking, Holding, WriterPc, Goto, Release,
        disk, memory, time, ghosts
<1>1. ASSUME NEW w \in Writer, Begin(w) PROVE Locking'
  BY <1>1 DEF Begin
<1>2. ASSUME NEW w \in Writer, Lock(w) PROVE Locking'
  BY <1>2 DEF Lock
<1>3. ASSUME NEW w \in Writer, Load(w) PROVE Locking'
  BY <1>3 DEF Load
<1>4. ASSUME NEW w \in Writer, NEW k \in Key, NEW v \in Value, Insert(w, k, v)
      PROVE  Locking'
  BY <1>4 DEF Insert
<1>5. ASSUME NEW w \in Writer, NEW k \in Key, NEW v \in Value, InsertFails(w, k, v)
      PROVE  Locking'
  BY <1>5 DEF InsertFails
<1>6. ASSUME NEW w \in Writer, WriteCommit(w) PROVE Locking'
  BY <1>6 DEF WriteCommit
<1>7. ASSUME NEW w \in Writer, CommitFails(w) PROVE Locking'
  BY <1>7 DEF CommitFails
<1>8. ASSUME NEW w \in Writer, Publish(w) PROVE Locking'
  <2>1. pc'[w] \in {"idle", "flushing"} /\ owner' = IF pc'[w] = "idle" THEN None ELSE owner
    BY <1>8 DEF Publish
  <2>2. \A x \in Writer \ {w} : pc'[x] = pc[x]
    BY <1>8 DEF Publish
  <2> QED
    BY <1>8, <2>1, <2>2 DEF Publish
<1>9. ASSUME NEW w \in Writer, Abort(w) PROVE Locking'
  BY <1>9 DEF Abort
<1>10. ASSUME NEW w \in Writer, AbortFails(w) PROVE Locking'
  BY <1>10 DEF AbortFails
<1>11. ASSUME NEW w \in Writer, FlushWrite(w) PROVE Locking'
  BY <1>11 DEF FlushWrite
<1>12. ASSUME NEW w \in Writer, FlushRename(w) PROVE Locking'
  BY <1>12 DEF FlushRename
<1>13. ASSUME NEW w \in Writer, FlushSwap(w) PROVE Locking'
  BY <1>13 DEF FlushSwap
<1>14. ASSUME NEW w \in Writer, WalReset(w) PROVE Locking'
  BY <1>14 DEF WalReset
<1>15. ASSUME NEW w \in Writer, FlushFails(w) PROVE Locking'
  BY <1>15 DEF FlushFails
<1>16. ASSUME NEW r \in Reader, BeginReadonly(r) PROVE Locking'
  BY <1>16 DEF BeginReadonly
<1>17. ASSUME NEW r \in Reader, EndReadonly(r) PROVE Locking'
  BY <1>17 DEF EndReadonly
<1>18. CASE OpenLoad
  BY <1>18 DEF OpenLoad
<1>19. CASE OpenFails
  BY <1>19 DEF OpenFails
<1>20. CASE OpenCreate
  BY <1>20 DEF OpenCreate
<1>21. CASE Close
  BY <1>21 DEF Close
<1>22. CASE Crash \/ CrashStale
  BY <1>22 DEF Crash, CrashStale, Dies
<1>23. CASE Tick
  BY <1>23 DEF Tick
<1>24. CASE UNCHANGED vars
  BY <1>24 DEF vars
<1> QED
  BY <1>1, <1>2, <1>3, <1>4, <1>5, <1>6, <1>7, <1>8, <1>9, <1>10, <1>11, <1>12,
     <1>13, <1>14, <1>15, <1>16, <1>17, <1>18, <1>19, <1>20, <1>21, <1>22, <1>23, <1>24
  DEF Next, Inserts, Proceed, Open

\* Unless a transaction is running, the log ends with a commit record
CleanUnlessRunning ==
  db = "open" /\ tally["walErrors"] = 0 /\ (\A w \in Writer : pc[w] # "running")
    => Clean(wal)

\* Every way to leave "running" without a failure of the log ends clean:
\* write_commit, abort and drop; nothing else appends to the log
LEMMA CleanStep ==
  GoodLog(wal) /\ TypeRest /\ CleanUnlessRunning /\ [Next]_vars => CleanUnlessRunning'
<1> SUFFICES ASSUME GoodLog(wal), TypeRest, CleanUnlessRunning, [Next]_vars
             PROVE  CleanUnlessRunning'
  OBVIOUS
<1> USE DEF TypeRest, CleanUnlessRunning, WriterPc, Goto, disk, memory, time, ghosts
<1>1. ASSUME NEW w \in Writer, Begin(w) PROVE CleanUnlessRunning'
  BY <1>1 DEF Begin
<1>2. ASSUME NEW w \in Writer, Lock(w) PROVE CleanUnlessRunning'
  BY <1>2 DEF Lock
<1>3. ASSUME NEW w \in Writer, Load(w) PROVE CleanUnlessRunning'
  BY <1>3 DEF Load
<1>4. ASSUME NEW w \in Writer, NEW k \in Key, NEW v \in Value, Insert(w, k, v)
      PROVE  CleanUnlessRunning'
  BY <1>4 DEF Insert
<1>5. ASSUME NEW w \in Writer, NEW k \in Key, NEW v \in Value, InsertFails(w, k, v)
      PROVE  CleanUnlessRunning'
  BY <1>5 DEF InsertFails
<1>6. ASSUME NEW w \in Writer, WriteCommit(w) PROVE CleanUnlessRunning'
  <2>1. NextTimestamp \in Nat \cup {None} /\ NextTimestamp # None
    BY NextTimestampType, NoneAssumption
  <2> QED
    BY <1>6, <2>1, WriteRecordType DEF WriteCommit, write_commit
<1>7. ASSUME NEW w \in Writer, CommitFails(w) PROVE CleanUnlessRunning'
  BY <1>7 DEF CommitFails, Count, Release, Counted
<1>8. ASSUME NEW w \in Writer, Publish(w) PROVE CleanUnlessRunning'
  BY <1>8 DEF Publish, Release
<1>9. ASSUME NEW w \in Writer, Abort(w) PROVE CleanUnlessRunning'
  BY <1>9, TruncateType DEF Abort
<1>10. ASSUME NEW w \in Writer, AbortFails(w) PROVE CleanUnlessRunning'
  BY <1>10 DEF AbortFails, Count, Release, Counted
<1>11. ASSUME NEW w \in Writer, FlushWrite(w) PROVE CleanUnlessRunning'
  BY <1>11 DEF FlushWrite
<1>12. ASSUME NEW w \in Writer, FlushRename(w) PROVE CleanUnlessRunning'
  BY <1>12 DEF FlushRename
<1>13. ASSUME NEW w \in Writer, FlushSwap(w) PROVE CleanUnlessRunning'
  BY <1>13 DEF FlushSwap
<1>14. ASSUME NEW w \in Writer, WalReset(w) PROVE CleanUnlessRunning'
  BY <1>14, EmptyLogs DEF WalReset, Release
<1>15. ASSUME NEW w \in Writer, FlushFails(w) PROVE CleanUnlessRunning'
  BY <1>15 DEF FlushFails, Release, Count, Counted
<1>16. ASSUME NEW r \in Reader, BeginReadonly(r) PROVE CleanUnlessRunning'
  BY <1>16 DEF BeginReadonly
<1>17. ASSUME NEW r \in Reader, EndReadonly(r) PROVE CleanUnlessRunning'
  BY <1>17 DEF EndReadonly
<1>18. CASE OpenLoad
  BY <1>18 DEF OpenLoad
<1>19. CASE OpenFails
  BY <1>19 DEF OpenFails
<1>20. CASE OpenCreate
  BY <1>20, EmptyLogs DEF OpenCreate
<1>21. CASE Close
  BY <1>21 DEF Close, Count, Counted
<1>22. CASE Crash \/ CrashStale
  BY <1>22 DEF Crash, CrashStale, Dies
<1>23. CASE Tick
  BY <1>23 DEF Tick
<1>24. CASE UNCHANGED vars
  BY <1>24 DEF vars
<1> QED
  BY <1>1, <1>2, <1>3, <1>4, <1>5, <1>6, <1>7, <1>8, <1>9, <1>10, <1>11, <1>12,
     <1>13, <1>14, <1>15, <1>16, <1>17, <1>18, <1>19, <1>20, <1>21, <1>22, <1>23, <1>24
  DEF Next, Inserts, Proceed, Open

\* What the locals of a transaction are at each point.  The owner's snapshot
\* stays the readable state until it publishes; afterwards, until the swap at
\* the end of the flush, the readable state is what it has published
Locals(w) ==
  /\ pc[w] \in {"idle", "waiting", "locked"} => writes[w] = EmptyTable
  /\ pc[w] \in {"running", "logged"} =>
       /\ snapshot[w] = readable
       /\ fork[w] = Overlay(writes[w], readable.active)
  /\ pc[w] \in {"flushing", "written", "renamed"} =>
       readable = [active |-> fork[w], sstables |-> snapshot[w].sstables]
  /\ pc[w] = "renamed" => flush_ts[w] \in DOMAIN ssts /\ ssts[flush_ts[w]] = fork[w]

\* Inserting into the fork is inserting into the transaction's own writes
LEMMA OverlayInsert ==
  ASSUME NEW top \in Table, NEW bottom \in Table, NEW k \in Key, NEW v \in Value
  PROVE  insert(Overlay(top, bottom), k, v) = Overlay(insert(top, k, v), bottom)
BY NoneAssumption DEF Table, insert, Overlay

\* A transaction without inserts leaves the MemTable as it is
LEMMA OverlayEmpty ==
  ASSUME NEW bottom \in Table
  PROVE  Overlay(EmptyTable, bottom) = bottom
BY DEF Table, Overlay, EmptyTable

\* Locals survive every step: the owner's own, by what the step assigns, and
\* the others' because no other writer is inside a transaction
LEMMA LocalsStep ==
  TypeRest /\ Locking /\ (\A x \in Writer : Locals(x)) /\ [Next]_vars
    => \A x \in Writer : Locals(x)'
<1> SUFFICES ASSUME TypeRest, Locking, \A x \in Writer : Locals(x), [Next]_vars,
                    NEW x \in Writer
             PROVE  Locals(x)'
  OBVIOUS
<1>a. Locals(x)
  OBVIOUS
<1>b. ASSUME NEW w \in Writer, pc[w] \in Holding, w # x
      PROVE  pc[x] \in {"idle", "waiting"}
  BY <1>b DEF Locking, Holding, TypeRest, WriterPc
<1> USE <1>a, <1>b DEF TypeRest, Holding, WriterPc, Goto, Release, Locals,
        disk, memory, time, ghosts
<1>1. ASSUME NEW w \in Writer, Begin(w) PROVE Locals(x)'
  BY <1>1 DEF Begin
<1>2. ASSUME NEW w \in Writer, Lock(w) PROVE Locals(x)'
  BY <1>2 DEF Lock
<1>3. ASSUME NEW w \in Writer, Load(w) PROVE Locals(x)'
  <2>1. writes[w] = EmptyTable
    BY <1>3 DEF Load
  <2>2. Overlay(writes[w], readable.active) = readable.active
    BY <2>1, OverlayEmpty DEF Readable
  <2> QED
    BY <1>3, <2>1, <2>2 DEF Load
<1>4. ASSUME NEW w \in Writer, NEW k \in Key, NEW v \in Value, Insert(w, k, v)
      PROVE  Locals(x)'
  <2>1. insert(fork[w], k, v) = Overlay(insert(writes[w], k, v), readable.active)
    BY <1>4, OverlayInsert DEF Insert, Readable
  <2> QED
    BY <1>4, <2>1 DEF Insert
<1>5. ASSUME NEW w \in Writer, NEW k \in Key, NEW v \in Value, InsertFails(w, k, v)
      PROVE  Locals(x)'
  BY <1>5 DEF InsertFails
<1>6. ASSUME NEW w \in Writer, WriteCommit(w) PROVE Locals(x)'
  BY <1>6 DEF WriteCommit
<1>7. ASSUME NEW w \in Writer, CommitFails(w) PROVE Locals(x)'
  BY <1>7 DEF CommitFails
<1>8. ASSUME NEW w \in Writer, Publish(w) PROVE Locals(x)'
  BY <1>8 DEF Publish
<1>9. ASSUME NEW w \in Writer, Abort(w) PROVE Locals(x)'
  BY <1>9 DEF Abort
<1>10. ASSUME NEW w \in Writer, AbortFails(w) PROVE Locals(x)'
  BY <1>10 DEF AbortFails
<1>11. ASSUME NEW w \in Writer, FlushWrite(w) PROVE Locals(x)'
  BY <1>11 DEF FlushWrite
<1>12. ASSUME NEW w \in Writer, FlushRename(w) PROVE Locals(x)'
  BY <1>12 DEF FlushRename
<1>13. ASSUME NEW w \in Writer, FlushSwap(w) PROVE Locals(x)'
  BY <1>13 DEF FlushSwap
<1>14. ASSUME NEW w \in Writer, WalReset(w) PROVE Locals(x)'
  BY <1>14 DEF WalReset
<1>15. ASSUME NEW w \in Writer, FlushFails(w) PROVE Locals(x)'
  BY <1>15 DEF FlushFails
<1>16. ASSUME NEW r \in Reader, BeginReadonly(r) PROVE Locals(x)'
  BY <1>16 DEF BeginReadonly
<1>17. ASSUME NEW r \in Reader, EndReadonly(r) PROVE Locals(x)'
  BY <1>17 DEF EndReadonly
<1>18. CASE OpenLoad
  BY <1>18 DEF OpenLoad, Locking
<1>19. CASE OpenFails
  BY <1>19 DEF OpenFails, Locking
<1>20. CASE OpenCreate
  BY <1>20 DEF OpenCreate, Locking
<1>21. CASE Close
  BY <1>21 DEF Close, Locking
<1>22. CASE Crash \/ CrashStale
  BY <1>22 DEF Crash, CrashStale, Dies
<1>23. CASE Tick
  BY <1>23 DEF Tick
<1>24. CASE UNCHANGED vars
  BY <1>24 DEF vars
<1> QED
  BY <1>1, <1>2, <1>3, <1>4, <1>5, <1>6, <1>7, <1>8, <1>9, <1>10, <1>11, <1>12,
     <1>13, <1>14, <1>15, <1>16, <1>17, <1>18, <1>19, <1>20, <1>21, <1>22, <1>23, <1>24
  DEF Next, Inserts, Proceed, Open

\* The types, the mutex, the log and the locals are invariant together
Inductive ==
  /\ GoodLog(wal) /\ TypeRest
  /\ Locking /\ CleanUnlessRunning
  /\ \A w \in Writer : Locals(w)

\* The inductive invariant holds in every state of every behaviour
THEOREM StoreInductive == Spec => []Inductive
<1> DEFINE Others == Locking /\ CleanUnlessRunning /\ \A w \in Writer : Locals(w)
<1>1. Init => Others
  BY ThreadAssumption DEF Init, Locking, CleanUnlessRunning, Locals, Holding, WriterPc
<1>2. GoodLog(wal) /\ TypeRest /\ Others /\ [Next]_vars => Others'
  BY LockingStep, CleanStep, LocalsStep DEF GoodLog, Locals
<1>3. Spec => [](GoodLog(wal) /\ TypeRest)
  BY StoreTypeCorrect, TypeSplit, PTL
<1>4. GoodLog(wal) /\ TypeRest /\ Others => Inductive
  BY DEF Inductive
<1> HIDE DEF Others
<1> QED
  BY <1>1, <1>2, <1>3, <1>4, PTL DEF Spec

\* With the mutex free and no failure of the log so far, the log ends with a
\* commit record: the next transaction starts its CRC from zero
THEOREM StoreIdleLogIsClean == Spec => []IdleLogIsClean
<1>1. Inductive => IdleLogIsClean
  <2> SUFFICES ASSUME Inductive, db = "open", owner = None, tally["walErrors"] = 0
               PROVE  Clean(wal)
    BY DEF IdleLogIsClean, Clean
  <2>1. \A w \in Writer : pc[w] \notin Holding
    BY ThreadAssumption DEF Inductive, Locking
  <2> QED
    BY <2>1 DEF Inductive, CleanUnlessRunning, Holding, WriterPc
<1> QED
  BY <1>1, StoreInductive, PTL

-----------------------------------------------------------------------------
(* What transactions read *)

\* Reading through a fork is reading the base with the fork's inserts on top
LEMMA ViewOverlay ==
  ASSUME NEW top \in Table, NEW bottom \in Table, NEW sstables
  PROVE  View(Overlay(top, bottom), sstables) = Overlay(top, View(bottom, sstables))
BY DEF View, Overlay, Table, get

\* There is one first hit
LEMMA FirstHitUnique ==
  ASSUME NEW sstables \in Seq(Table), NEW k,
         NEW i \in DOMAIN sstables, NEW j \in DOMAIN sstables,
         FirstHit(sstables, k, i), FirstHit(sstables, k, j)
  PROVE  i = j
<1>1. DOMAIN sstables = 1..Len(sstables) /\ Len(sstables) \in Nat
  BY LenProperties
<1> QED
  BY <1>1 DEF FirstHit

\* Moving a MemTable to the front of the SSTables does not change what is read
LEMMA ViewFlushed ==
  ASSUME NEW table \in Table, NEW sstables \in Seq(Table)
  PROVE  View(EmptyTable, <<table>> \o sstables) = View(table, sstables)
<1> DEFINE all == <<table>> \o sstables
<1>1. /\ DOMAIN sstables = 1..Len(sstables) /\ Len(sstables) \in Nat
      /\ all \in Seq(Table) /\ Len(all) = Len(sstables) + 1
      /\ DOMAIN all = 1..(Len(sstables) + 1)
      /\ all[1] = table
      /\ \A i \in DOMAIN sstables : all[i + 1] = sstables[i]
  <2>1. <<table>> \in Seq(Table) /\ Len(<<table>>) = 1 /\ <<table>>[1] = table
    OBVIOUS
  <2> QED
    BY <2>1, ConcatProperties, LenProperties
<1> HIDE DEF all
<1>2. ASSUME NEW k \in Key
      PROVE  get(EmptyTable, all, k) = get(table, sstables, k)
  <2>1. EmptyTable[k] = None
    BY DEF EmptyTable
  <2>2. CASE table[k] # None
    <3>1. FirstHit(all, k, 1) /\ 1 \in DOMAIN all
      BY <1>1, <2>2 DEF FirstHit
    <3>2. (CHOOSE i \in DOMAIN all : FirstHit(all, k, i)) = 1
      BY <1>1, <3>1, FirstHitUnique
    <3> QED
      BY <1>1, <2>1, <2>2, <3>1, <3>2 DEF get
  <2>3. CASE table[k] = None
    <3>1. \A i \in DOMAIN sstables :
            i + 1 \in DOMAIN all /\ (FirstHit(all, k, i + 1) <=> FirstHit(sstables, k, i))
      <4> SUFFICES ASSUME NEW i \in DOMAIN sstables
                   PROVE  /\ i + 1 \in DOMAIN all
                          /\ FirstHit(all, k, i + 1) <=> FirstHit(sstables, k, i)
        OBVIOUS
      <4>1. \A j \in 1..i : all[j][k] = None
                             <=> (j = 1 \/ sstables[j - 1][k] = None)
        BY <1>1, <2>3
      <4>2. (\A j \in 1..i : all[j][k] = None) <=> \A j \in 1..(i - 1) : sstables[j][k] = None
        <5>1. ASSUME \A j \in 1..i : all[j][k] = None, NEW j \in 1..(i - 1)
              PROVE  sstables[j][k] = None
          <6>1. j + 1 \in 1..i /\ j \in DOMAIN sstables
            BY <1>1
          <6> QED
            BY <1>1, <5>1, <6>1
        <5>2. ASSUME \A j \in 1..(i - 1) : sstables[j][k] = None, NEW j \in 1..i
              PROVE  all[j][k] = None
          BY <1>1, <4>1, <5>2
        <5> QED
          BY <5>1, <5>2
      <4> QED
        BY <1>1, <4>2 DEF FirstHit
    <3>2. ~FirstHit(all, k, 1)
      BY <1>1, <2>3 DEF FirstHit
    <3>3. CASE \E i \in DOMAIN sstables : FirstHit(sstables, k, i)
      <4>1. PICK i \in DOMAIN sstables : FirstHit(sstables, k, i)
        BY <3>3
      <4>2. (CHOOSE j \in DOMAIN sstables : FirstHit(sstables, k, j)) = i
        BY <4>1, FirstHitUnique
      <4>3. i + 1 \in DOMAIN all /\ FirstHit(all, k, i + 1)
        BY <3>1, <4>1
      <4>4. (CHOOSE j \in DOMAIN all : FirstHit(all, k, j)) = i + 1
        BY <1>1, <4>3, FirstHitUnique
      <4> QED
        BY <1>1, <2>1, <2>3, <4>1, <4>2, <4>3, <4>4 DEF get
    <3>4. CASE ~\E i \in DOMAIN sstables : FirstHit(sstables, k, i)
      <4>1. ASSUME NEW j \in DOMAIN all, FirstHit(all, k, j) PROVE FALSE
        <5>1. j # 1
          BY <3>2, <4>1
        <5>2. j - 1 \in DOMAIN sstables /\ (j - 1) + 1 = j
          BY <1>1, <5>1
        <5> QED
          BY <3>1, <3>4, <4>1, <5>2
      <4> QED
        BY <2>1, <2>3, <3>4, <4>1 DEF get
    <3> QED
      BY <3>3, <3>4
  <2> QED
    BY <2>2, <2>3
<1> QED
  BY <1>2 DEF View, all

\* No update is lost: what a running or logged transaction will publish is the
\* current state plus its own inserts, for any number of concurrent writers
THEOREM StoreWritersBuildOnLatest == Spec => []WritersBuildOnLatest
<1>1. Inductive => WritersBuildOnLatest
  <2> SUFFICES ASSUME Inductive, NEW w \in Writer, pc[w] \in {"running", "logged"}
               PROVE  Reads(w) = Overlay(writes[w], Visible)
    BY DEF WritersBuildOnLatest
  <2>1. snapshot[w] = readable /\ fork[w] = Overlay(writes[w], readable.active)
    BY DEF Inductive, Locals
  <2>2. writes[w] \in Table /\ readable.active \in Table
    BY DEF Inductive, TypeRest, Readable
  <2> QED
    BY <2>1, <2>2, ViewOverlay DEF Reads, Visible
<1> QED
  BY <1>1, StoreInductive, PTL

\* Only the publishing step of commit() and the swap at the end of a flush
\* write the readable state of an open database
LEMMA WhoWritesReadable ==
  ASSUME Next, db = "open", db' = "open", readable' # readable
  PROVE  \E w \in Writer : Publish(w) \/ FlushSwap(w)
<1> USE DEF disk, memory, time, ghosts
<1>1. ASSUME NEW w \in Writer, Begin(w) PROVE FALSE
  BY <1>1 DEF Begin
<1>2. ASSUME NEW w \in Writer, Lock(w) PROVE FALSE
  BY <1>2 DEF Lock
<1>3. ASSUME NEW w \in Writer, Load(w) PROVE FALSE
  BY <1>3 DEF Load
<1>4. ASSUME NEW w \in Writer, NEW k \in Key, NEW v \in Value, Insert(w, k, v)
      PROVE  FALSE
  BY <1>4 DEF Insert
<1>5. ASSUME NEW w \in Writer, NEW k \in Key, NEW v \in Value, InsertFails(w, k, v)
      PROVE  FALSE
  BY <1>5 DEF InsertFails
<1>6. ASSUME NEW w \in Writer, WriteCommit(w) PROVE FALSE
  BY <1>6 DEF WriteCommit
<1>7. ASSUME NEW w \in Writer, CommitFails(w) PROVE FALSE
  BY <1>7 DEF CommitFails
<1>9. ASSUME NEW w \in Writer, Abort(w) PROVE FALSE
  BY <1>9 DEF Abort
<1>10. ASSUME NEW w \in Writer, AbortFails(w) PROVE FALSE
  BY <1>10 DEF AbortFails
<1>11. ASSUME NEW w \in Writer, FlushWrite(w) PROVE FALSE
  BY <1>11 DEF FlushWrite
<1>12. ASSUME NEW w \in Writer, FlushRename(w) PROVE FALSE
  BY <1>12 DEF FlushRename
<1>14. ASSUME NEW w \in Writer, WalReset(w) PROVE FALSE
  BY <1>14 DEF WalReset
<1>15. ASSUME NEW w \in Writer, FlushFails(w) PROVE FALSE
  BY <1>15 DEF FlushFails
<1>16. ASSUME NEW r \in Reader, BeginReadonly(r) PROVE FALSE
  BY <1>16 DEF BeginReadonly
<1>17. ASSUME NEW r \in Reader, EndReadonly(r) PROVE FALSE
  BY <1>17 DEF EndReadonly
<1>18. ASSUME OpenLoad PROVE FALSE
  BY <1>18 DEF OpenLoad
<1>19. ASSUME OpenFails PROVE FALSE
  BY <1>19 DEF OpenFails
<1>20. ASSUME OpenCreate PROVE FALSE
  BY <1>20 DEF OpenCreate
<1>21. ASSUME Close PROVE FALSE
  BY <1>21 DEF Close
<1>22. ASSUME Crash \/ CrashStale PROVE FALSE
  BY <1>22 DEF Crash, CrashStale, Dies
<1>23. ASSUME Tick PROVE FALSE
  BY <1>23 DEF Tick
<1> QED
  BY <1>1, <1>2, <1>3, <1>4, <1>5, <1>6, <1>7, <1>9, <1>10, <1>11, <1>12,
     <1>14, <1>15, <1>16, <1>17, <1>18, <1>19, <1>20, <1>21, <1>22, <1>23
  DEF Next, Inserts, Proceed, Open

\* A commit is atomic for readers, and the flush that may follow it changes
\* nothing they read: neither the swap of the SSTable for the MemTable nor any
\* failure in between
THEOREM StoreCommitIsAtomic == Spec => CommitIsAtomic
<1> DEFINE Atomic ==
      db = "open" /\ db' = "open" =>
        \/ Visible' = Visible
        \/ \E w \in Writer : /\ pc[w] = "logged" /\ pc'[w] # "logged"
                             /\ Visible' = Overlay(writes[w], Visible)
<1>1. Inductive /\ [Next]_vars => [Atomic]_vars
  <2> SUFFICES ASSUME Inductive, Next, db = "open", db' = "open" PROVE Atomic
    OBVIOUS
  <2>1. CASE readable' = readable
    BY <2>1 DEF Visible
  <2>2. ASSUME NEW w \in Writer, Publish(w) PROVE Atomic
    <3>1. /\ snapshot[w] = readable /\ fork[w] = Overlay(writes[w], readable.active)
          /\ writes[w] \in Table /\ readable.active \in Table
      BY <2>2 DEF Publish, Inductive, Locals, TypeRest, Readable
    <3>2. readable'.active = Overlay(writes[w], readable.active)
          /\ readable'.sstables = readable.sstables
      BY <2>2, <3>1 DEF Publish
    <3>3. Visible' = Overlay(writes[w], Visible)
      BY <3>1, <3>2, ViewOverlay DEF Visible
    <3>4. pc[w] = "logged" /\ pc'[w] # "logged"
      BY <2>2 DEF Publish, Release, Goto, Inductive, TypeRest
    <3> QED
      BY <3>3, <3>4
  <2>3. ASSUME NEW w \in Writer, FlushSwap(w) PROVE Atomic
    <3>1. /\ readable = [active |-> fork[w], sstables |-> snapshot[w].sstables]
          /\ ssts[flush_ts[w]] = fork[w]
          /\ fork[w] \in Table /\ snapshot[w].sstables \in Seq(Table)
      BY <2>3 DEF FlushSwap, Inductive, Locals, TypeRest, Readable
    <3>2. /\ readable.active = fork[w] /\ readable.sstables = snapshot[w].sstables
          /\ readable'.active = EmptyTable
          /\ readable'.sstables = <<fork[w]>> \o snapshot[w].sstables
      BY <2>3, <3>1 DEF FlushSwap
    <3>3. Visible' = Visible
      BY <3>1, <3>2, ViewFlushed DEF Visible
    <3> QED
      BY <3>3
  <2> QED
    BY <2>1, <2>2, <2>3, WhoWritesReadable
<1> QED
  BY <1>1, StoreInductive, PTL DEF Spec, CommitIsAtomic

-----------------------------------------------------------------------------
(* Scans and gets.  merge_scan fills a map from the oldest SSTable to the newest;
   get walks from the newest to the oldest and stops at the first hit.  Both
   return the same for any number of SSTables. *)

\* The map merge_scan fills, as the recursive function FoldLeft stands for:
\* the entries of the tables whose positions are in s, the greatest on top
Filled(seq) ==
  CHOOSE iter : iter = [s \in SUBSET DOMAIN seq |->
     IF s = {} THEN EmptyTable ELSE Overlay(seq[Max(s)], iter[s \ {Max(s)}])]

\* The same without recursion: a key has the value of the greatest position
\* whose table has the key
Hits(seq, s, k) == {i \in s : seq[i][k] # None}
Topmost(seq, s) ==
  [k \in Key |-> IF Hits(seq, s, k) = {} THEN None ELSE seq[Max(Hits(seq, s, k))][k]]

\* A set of natural numbers that is not empty has a least member
LEMMA LeastNat ==
  ASSUME NEW S \in SUBSET Nat, S # {}
  PROVE  \E n \in S : \A m \in S : n <= m
<1>1. PICK n \in S : \A m \in S : ~(<<m, n>> \in OpToRel(<, Nat))
  BY WFMin, NatLessThanWellFounded
<1>2. \A m \in S : ~(m < n)
  BY <1>1 DEF OpToRel
<1> QED
  BY <1>2

\* Max is the one member that no other exceeds
LEMMA MaxIs ==
  ASSUME NEW s \in SUBSET Nat, NEW m \in s, \A i \in s : i <= m
  PROVE  Max(s) = m
<1>1. \A x \in s : (\A y \in s : x >= y) => x = m
  OBVIOUS
<1>2. \A y \in s : m >= y
  OBVIOUS
<1> QED
  BY <1>1, <1>2 DEF Max

\* Positions up to n have a greatest one
LEMMA MaxExists ==
  ASSUME NEW n \in Nat, NEW s \in SUBSET (1..n), s # {}
  PROVE  Max(s) \in s /\ \A i \in s : i <= Max(s)
<1> DEFINE B == {b \in Nat : \A i \in s : i <= b}
<1>1. n \in B
  OBVIOUS
<1>2. PICK m \in B : \A b \in B : m <= b
  <2>1. B \in SUBSET Nat /\ B # {}
    BY <1>1
  <2> HIDE DEF B
  <2> QED
    BY <2>1, LeastNat
<1>3. m \in s
  <2>1. SUFFICES ASSUME m \notin s PROVE FALSE
    OBVIOUS
  <2>2. \A i \in s : i \in Nat /\ i >= 1 /\ i <= m /\ i # m
    BY <2>1, <1>2
  <2>3. m - 1 \in Nat /\ \A i \in s : i <= m - 1
    <3>1. PICK i \in s : TRUE
      OBVIOUS
    <3>2. i \in Nat /\ i >= 1 /\ i <= m /\ m \in Nat
      BY <1>2, <2>2, <3>1
    <3>3. m - 1 \in Nat
      BY <3>2
    <3> QED
      BY <2>2, <3>2, <3>3
  <2>4. m - 1 \in B
    BY <2>3
  <2> QED
    BY <2>4, <1>2
<1>4. Max(s) = m
  BY <1>2, <1>3, MaxIs
<1> QED
  BY <1>2, <1>3, <1>4

\* Topmost satisfies the equation of the recursive function
LEMMA TopmostStep ==
  ASSUME NEW seq, NEW n \in Nat, NEW s \in SUBSET (1..n), s # {}
  PROVE  Topmost(seq, s) = Overlay(seq[Max(s)], Topmost(seq, s \ {Max(s)}))
<1> DEFINE m == Max(s)
           rest == s \ {m}
<1>1. m \in s /\ \A i \in s : i <= m
  BY MaxExists
<1> HIDE DEF m
<1>2. ASSUME NEW k \in Key
      PROVE  Topmost(seq, s)[k] = IF seq[m][k] # None THEN seq[m][k] ELSE Topmost(seq, rest)[k]
  <2>1. CASE seq[m][k] # None
    <3>1. m \in Hits(seq, s, k)
      BY <1>1, <2>1 DEF Hits
    <3>4. Hits(seq, s, k) \in SUBSET s
      BY DEF Hits
    <3>2. \A i \in Hits(seq, s, k) : i <= m
      BY <1>1 DEF Hits
    <3>3. Max(Hits(seq, s, k)) = m
      <4>1. s \in SUBSET Nat
        OBVIOUS
      <4>2. Hits(seq, s, k) \in SUBSET Nat
        BY <3>4, <4>1, Zenon
      <4> QED
        BY <3>1, <3>2, <4>2, MaxIs
    <3> QED
      BY <2>1, <3>1, <3>3 DEF Topmost
  <2>2. CASE seq[m][k] = None
    <3>1. Hits(seq, s, k) = Hits(seq, rest, k)
      BY <2>2 DEF Hits
    <3> QED
      BY <2>2, <3>1 DEF Topmost
  <2> QED
    BY <2>1, <2>2
<1>3. Topmost(seq, s) = [k \in Key |-> Topmost(seq, s)[k]]
  BY DEF Topmost
<1>4. Topmost(seq, s) = Overlay(seq[m], Topmost(seq, rest))
  BY <1>2, <1>3 DEF Overlay
<1> QED
  BY <1>4 DEF m

\* So the equation has a solution, and Filled is one
LEMMA FilledStep ==
  ASSUME NEW seq, NEW n \in Nat, DOMAIN seq = 1..n, NEW s \in SUBSET (1..n)
  PROVE  Filled(seq)[s] = IF s = {} THEN EmptyTable
                          ELSE Overlay(seq[Max(s)], Filled(seq)[s \ {Max(s)}])
<1> DEFINE C == [t \in SUBSET DOMAIN seq |-> Topmost(seq, t)]
<1>1. ASSUME NEW t \in SUBSET DOMAIN seq
      PROVE  C[t] = IF t = {} THEN EmptyTable ELSE Overlay(seq[Max(t)], C[t \ {Max(t)}])
  <2>1. CASE t = {}
    <3>1. \A k : Hits(seq, {}, k) = {}
      BY DEF Hits
    <3> QED
      BY <2>1, <3>1 DEF Topmost, EmptyTable
  <2>2. CASE t # {}
    <3>1. t \ {Max(t)} \in SUBSET DOMAIN seq
      OBVIOUS
    <3>2. Topmost(seq, t) = Overlay(seq[Max(t)], Topmost(seq, t \ {Max(t)}))
      BY <2>2, TopmostStep
    <3> QED
      BY <2>2, <3>1, <3>2
  <2> QED
    BY <2>1, <2>2
<1>2. C = [t \in SUBSET DOMAIN seq |->
             IF t = {} THEN EmptyTable ELSE Overlay(seq[Max(t)], C[t \ {Max(t)}])]
  BY <1>1
<1> HIDE DEF C
<1>3. Filled(seq) = [t \in SUBSET DOMAIN seq |->
             IF t = {} THEN EmptyTable ELSE Overlay(seq[Max(t)], Filled(seq)[t \ {Max(t)}])]
  BY <1>2, Zenon DEF Filled
<1>4. s \in SUBSET DOMAIN seq
  OBVIOUS
<1> QED
  BY <1>3, <1>4, Zenon

\* Over all the positions Filled is Topmost: no position is the first at which
\* they differ
LEMMA FilledIsTopmost ==
  ASSUME NEW seq, NEW n \in Nat, DOMAIN seq = 1..n
  PROVE  Filled(seq)[1..n] = Topmost(seq, 1..n)
<1> DEFINE Wrong == {i \in 0..n : Filled(seq)[1..i] # Topmost(seq, 1..i)}
<1>1. SUFFICES ASSUME Wrong # {} PROVE FALSE
  OBVIOUS
<1>2. PICK i \in Wrong : \A j \in Wrong : i <= j
  <2>1. Wrong \in SUBSET Nat
    OBVIOUS
  <2> HIDE DEF Wrong
  <2> QED
    BY <1>1, <2>1, LeastNat
<1>3. i \in 0..n /\ (1..i) \in SUBSET (1..n)
  OBVIOUS
<1>4. CASE i = 0
  <2>1. 1..i = {} /\ \A k : Hits(seq, {}, k) = {}
    BY <1>4 DEF Hits
  <2>2. Filled(seq)[1..i] = EmptyTable
    BY <1>3, <2>1, FilledStep
  <2>3. Topmost(seq, 1..i) = EmptyTable
    BY <2>1 DEF Topmost, EmptyTable
  <2> QED
    BY <2>2, <2>3
<1>5. CASE i # 0
  <2>1. i - 1 \in 0..n /\ 1..i # {} /\ (1..i) \ {i} = 1..(i - 1) /\ i \in 1..i
    <3>1. i \in Nat /\ i >= 1 /\ i <= n
      BY <1>3, <1>5
    <3>2. i - 1 \in 0..n /\ i \in 1..i
      BY <3>1
    <3>3. (1..i) \ {i} = 1..(i - 1)
      BY <3>1
    <3> QED
      BY <3>2, <3>3
  <2>2. Max(1..i) = i
    BY <1>3, <2>1, MaxIs
  <2>3. Filled(seq)[1..(i - 1)] = Topmost(seq, 1..(i - 1))
    BY <1>2, <2>1, <1>3
  <2>4. Filled(seq)[1..i] = Overlay(seq[i], Filled(seq)[1..(i - 1)])
    BY <1>3, <2>1, <2>2, FilledStep
  <2>5. Topmost(seq, 1..i) = Overlay(seq[i], Topmost(seq, 1..(i - 1)))
    BY <1>3, <2>1, <2>2, TopmostStep
  <2> QED
    BY <2>3, <2>4, <2>5
<1> QED
  BY <1>4, <1>5

\* A scan is the MemTable over that map of the SSTables, oldest first
LEMMA ScanIsFilled ==
  ASSUME NEW memtable, NEW sstables
  PROVE  merge_scan(memtable, sstables)
           = Overlay(memtable, Filled(Reverse(sstables))[DOMAIN Reverse(sstables)])
BY DEF merge_scan, FoldLeft, MapThenFoldSet, Filled

\* The topmost table of the reversed list is the first hit of the list
LEMMA TopmostIsFirstHit ==
  ASSUME NEW sstables \in Seq(Table), NEW k \in Key
  PROVE  Topmost(Reverse(sstables), 1..Len(sstables))[k]
           = IF \E i \in DOMAIN sstables : FirstHit(sstables, k, i)
             THEN sstables[CHOOSE i \in DOMAIN sstables : FirstHit(sstables, k, i)][k]
             ELSE None
<1> DEFINE n == Len(sstables)
           H == Hits(Reverse(sstables), 1..n, k)
<1>1. n \in Nat /\ DOMAIN sstables = 1..n
  BY LenProperties
<1>2. \A i \in 1..n : Reverse(sstables)[i] = sstables[(n - i) + 1]
  BY DEF Reverse
<1>3. \A i \in 1..n : i \in H <=> sstables[(n - i) + 1][k] # None
  BY <1>2 DEF Hits
<1>4. H \in SUBSET (1..n)
  BY DEF Hits
<1>5. Topmost(Reverse(sstables), 1..n)[k]
        = IF H = {} THEN None ELSE Reverse(sstables)[Max(H)][k]
  BY DEF Topmost
<1> HIDE DEF H, n
<1>6. CASE H = {}
  <2>1. ASSUME NEW i \in 1..n PROVE sstables[i][k] = None
    <3>1. (n - i) + 1 \in 1..n /\ (n - ((n - i) + 1)) + 1 = i
      BY <1>1
    <3> QED
      BY <3>1, <1>3, <1>6
  <2>2. ~\E i \in DOMAIN sstables : FirstHit(sstables, k, i)
    BY <1>1, <2>1 DEF FirstHit
  <2> QED
    BY <1>5, <1>6, <2>2 DEF n
<1>7. CASE H # {}
  <2>1. Max(H) \in H /\ \A i \in H : i <= Max(H)
    BY <1>1, <1>4, <1>7, MaxExists
  <2> DEFINE m == Max(H)
             f == (n - m) + 1
  <2>2. m \in 1..n /\ f \in 1..n
    <3>1. m \in 1..n
      BY <1>4, <2>1
    <3> HIDE DEF m
    <3> QED
      BY <1>1, <3>1
  <2>3. sstables[f][k] # None
    BY <1>3, <2>1, <2>2
  <2>4. ASSUME NEW j \in 1..(f - 1) PROVE sstables[j][k] = None
    <3>1. (n - j) + 1 \in 1..n /\ (n - ((n - j) + 1)) + 1 = j /\ (n - j) + 1 > m
      BY <1>1, <2>2
    <3>2. (n - j) + 1 \notin H
      BY <3>1, <2>1, <2>2
    <3> QED
      BY <3>1, <3>2, <1>3
  <2>5. f \in DOMAIN sstables /\ FirstHit(sstables, k, f)
    BY <1>1, <2>2, <2>3, <2>4 DEF FirstHit
  <2>6. \A i \in DOMAIN sstables : FirstHit(sstables, k, i) => i = f
    BY <2>5, FirstHitUnique
  <2>7. (CHOOSE i \in DOMAIN sstables : FirstHit(sstables, k, i)) = f
    BY <2>5, <2>6
  <2>8. Topmost(Reverse(sstables), 1..n)[k] = sstables[f][k]
    BY <1>2, <1>5, <1>7, <2>2
  <2> QED
    BY <2>5, <2>7, <2>8 DEF n
<1> QED
  BY <1>6, <1>7

\* A scan returns what get returns for every key
LEMMA ScanIsView ==
  ASSUME NEW memtable \in Table, NEW sstables \in Seq(Table)
  PROVE  merge_scan(memtable, sstables) = View(memtable, sstables)
<1> DEFINE n == Len(sstables)
           T == Topmost(Reverse(sstables), 1..n)
<1>1. n \in Nat /\ DOMAIN Reverse(sstables) = 1..n
  BY LenProperties DEF Reverse
<1>2. Filled(Reverse(sstables))[1..n] = T
  BY <1>1, FilledIsTopmost
<1>3. merge_scan(memtable, sstables) = Overlay(memtable, T)
  BY <1>1, <1>2, ScanIsFilled
<1>4. ASSUME NEW k \in Key
      PROVE  get(memtable, sstables, k) = IF memtable[k] # None THEN memtable[k] ELSE T[k]
  BY TopmostIsFirstHit DEF get
<1> HIDE DEF T
<1> QED
  BY <1>3, <1>4 DEF View, Overlay

\* Every scan returns, for every key, what get returns to the same transaction
THEOREM StoreScansAgreeWithGets == Spec => []ScansAgreeWithGets
<1>1. ASSUME TypeOK PROVE ScansAgreeWithGets
  <2>1. ASSUME NEW w \in Writer PROVE merge_scan(fork[w], snapshot[w].sstables) = Reads(w)
    <3>1. fork[w] \in Table /\ snapshot[w].sstables \in Seq(Table)
      BY <1>1 DEF TypeOK, Readable
    <3> QED
      BY <3>1, ScanIsView DEF Reads
  <2>2. ASSUME NEW r \in Reader, ro[r] # None
        PROVE  merge_scan(ro[r].active, ro[r].sstables) = View(ro[r].active, ro[r].sstables)
    <3>1. ro[r] \in Readable
      BY <1>1, <2>2 DEF TypeOK
    <3>2. ro[r].active \in Table /\ ro[r].sstables \in Seq(Table)
      BY <3>1 DEF Readable
    <3> QED
      BY <3>2, ScanIsView
  <2> QED
    BY <2>1, <2>2 DEF ScansAgreeWithGets
<1> QED
  BY <1>1, StoreTypeCorrect, PTL

=============================================================================
