------------------------ MODULE StoreRecoveryProofs ------------------------
(* What a restart finds: the records of the log, and the state Db::open    *)
(* rebuilds from them and the SSTables.                                    *)
EXTENDS StoreNamesProofs

-----------------------------------------------------------------------------
(* The records of the log *)

\* Among records from..to the last one with key k has value v, or there is no
\* such record and v is None
Latest(file, k, from, to, v) ==
  \/ v = None /\ \A j \in from..to : file[j].key # k
  \/ v # None /\ \E i \in from..to : /\ file[i].key = k /\ file[i].value = v
                                     /\ \A j \in (i + 1)..to : file[j].key # k

\* The records up to the last commit are intact, and no commit record follows
Shape(log) ==
  /\ \A j \in 1..log.last_commit_pos : CrcMatches(log.file, j)
  /\ log.last_commit_pos > 0 => log.file[log.last_commit_pos].ts # None
  /\ \A j \in (log.last_commit_pos + 1)..Len(log.file) : log.file[j].ts = None

\* Replaying the log gives the last value of every key up to the last commit
WellReplayed(log) ==
  \A k \in Key : Latest(log.file, k, 1, log.last_commit_pos, Replayed(log.file)[k])

\* Every record is intact, and the CRC the next one continues is the last one's
Chained(log) ==
  /\ \A j \in 1..Len(log.file) : CrcMatches(log.file, j)
  /\ log.rolling_crc = IF Len(log.file) = 0 THEN <<>>
                       ELSE IF log.file[Len(log.file)].ts # None THEN <<>>
                       ELSE log.file[Len(log.file)].crc

\* The fields of a good log
LEMMA LogFields ==
  ASSUME NEW log, GoodLog(log)
  PROVE  /\ log.file \in Seq(Record) /\ Len(log.file) \in Nat
         /\ DOMAIN log.file = 1..Len(log.file)
         /\ log.last_commit_pos \in 0..Len(log.file)
         /\ log.rolling_crc \in Seq(Hashed)
<1>1. /\ log.file \in Seq(Record) /\ log.last_commit_pos \in Nat
      /\ log.rolling_crc \in Seq(Hashed) /\ log.last_commit_pos <= Len(log.file)
  BY DEF GoodLog, Log
<1>2. Len(log.file) \in Nat /\ DOMAIN log.file = 1..Len(log.file)
  BY <1>1, LenProperties
<1> QED
  BY <1>1, <1>2

\* Whether the CRC of a record matches depends on it and on its predecessor
LEMMA CrcMatchesSame ==
  ASSUME NEW f, NEW g, NEW n \in Nat, \A j \in 1..n : g[j] = f[j], NEW j \in 1..n
  PROVE  CrcMatches(g, j) <=> CrcMatches(f, j)
<1>1. g[j] = f[j]
  OBVIOUS
<1>2. CASE j = 1
  BY <1>1, <1>2 DEF CrcMatches
<1>3. CASE j # 1
  <2>1. j - 1 \in 1..n
    BY <1>3
  <2>2. g[j - 1] = f[j - 1]
    BY <2>1
  <2> QED
    BY <1>1, <1>3, <2>2 DEF CrcMatches
<1> QED
  BY <1>2, <1>3

\* WriteAheadLog::replay returns exactly the records up to the last commit
LEMMA ReplaysShape ==
  ASSUME NEW log, GoodLog(log), Shape(log), NEW i \in 1..Len(log.file)
  PROVE  Replays(log.file, i) <=> i <= log.last_commit_pos
BY LogFields DEF Replays, Shape

\* ... so the table Db::open builds from it holds the last value of each key
LEMMA ReplayedLatest ==
  ASSUME NEW log, GoodLog(log), Shape(log), NEW k \in Key, NEW v,
         Latest(log.file, k, 1, log.last_commit_pos, v)
  PROVE  Replayed(log.file)[k] = v
<1> DEFINE f == log.file
           n == log.last_commit_pos
<1>1. /\ DOMAIN f = 1..Len(f) /\ Len(f) \in Nat /\ n \in 0..Len(f)
      /\ \A i \in 1..Len(f) : Replays(f, i) <=> i <= n
  BY LogFields, ReplaysShape
<1>2. \A i \in DOMAIN f : LastInsert(f, k, i)
        <=> (i <= n /\ f[i].key = k /\ \A j \in (i + 1)..n : f[j].key # k)
  BY <1>1 DEF LastInsert
<1> HIDE DEF f, n
<1>3. CASE v = None /\ \A j \in 1..n : f[j].key # k
  <2>1. ~\E i \in DOMAIN f : LastInsert(f, k, i)
    BY <1>1, <1>2, <1>3
  <2> QED
    BY <1>3, <2>1 DEF Replayed, f
<1>4. CASE \E i \in 1..n : f[i].key = k /\ f[i].value = v /\ \A j \in (i + 1)..n : f[j].key # k
  <2>1. PICK i \in 1..n : f[i].key = k /\ f[i].value = v /\ \A j \in (i + 1)..n : f[j].key # k
    BY <1>4
  <2>2. i \in DOMAIN f /\ LastInsert(f, k, i)
    BY <1>1, <1>2, <2>1
  <2>3. \A j \in DOMAIN f : LastInsert(f, k, j) => j = i
    BY <1>1, <1>2, <2>1
  <2>4. (CHOOSE j \in DOMAIN f : LastInsert(f, k, j)) = i
    BY <2>2, <2>3
  <2> QED
    BY <2>1, <2>2, <2>4 DEF Replayed, f
<1> QED
  BY <1>3, <1>4 DEF Latest, f, n

\* Whatever follows the last commit, without a commit record, is not replayed:
\* the inserts of a running transaction, a torn record, nothing at all
LEMMA SamePrefix ==
  ASSUME NEW log, GoodLog(log), Shape(log), WellReplayed(log),
         NEW new, GoodLog(new), new.last_commit_pos = log.last_commit_pos,
         \A j \in 1..log.last_commit_pos : new.file[j] = log.file[j],
         \A j \in (log.last_commit_pos + 1)..Len(new.file) : new.file[j].ts = None
  PROVE  /\ Shape(new) /\ WellReplayed(new)
         /\ Replayed(new.file) = Replayed(log.file)
<1>1. log.last_commit_pos \in Nat
  BY LogFields
<1>2. Shape(new)
  <2>1. \A j \in 1..log.last_commit_pos : CrcMatches(new.file, j)
    BY <1>1, CrcMatchesSame DEF Shape
  <2> QED
    BY <1>1, <2>1 DEF Shape
<1>3. ASSUME NEW k \in Key
      PROVE  /\ Latest(new.file, k, 1, new.last_commit_pos, Replayed(log.file)[k])
             /\ Replayed(new.file)[k] = Replayed(log.file)[k]
  <2>1. Latest(log.file, k, 1, log.last_commit_pos, Replayed(log.file)[k])
    BY DEF WellReplayed
  <2>2. Latest(new.file, k, 1, new.last_commit_pos, Replayed(log.file)[k])
    BY <1>1, <2>1 DEF Latest
  <2> QED
    BY <1>2, <2>2, ReplayedLatest
<1>4. Replayed(new.file) = Replayed(log.file)
  <2>1. \A f : Replayed(f) = [k \in Key |-> Replayed(f)[k]]
    BY DEF Replayed
  <2> QED
    BY <1>3, <2>1
<1> QED
  BY <1>2, <1>3, <1>4 DEF WellReplayed

\* What write_record does: the new record follows the old ones, which stay, and
\* continues the CRC; a commit record sets it back to zero
Appended(log, key, value, commit, new) ==
  LET n == Len(log.file) + 1
  IN  /\ Len(new.file) = n
      /\ \A j \in 1..Len(log.file) : new.file[j] = log.file[j]
      /\ new.file[n].key = key /\ new.file[n].value = value /\ new.file[n].ts = commit
      /\ new.file[n].crc = Append(log.rolling_crc, <<key, value, commit>>)
      /\ commit = None => /\ new.last_commit_pos = log.last_commit_pos
                          /\ new.rolling_crc = new.file[n].crc
      /\ commit # None => new.last_commit_pos = n /\ new.rolling_crc = <<>>

\* write_record appends one record
LEMMA WriteRecordAppends ==
  ASSUME NEW log, GoodLog(log),
         NEW key \in Key \cup {None}, NEW value \in Value \cup {None},
         NEW commit \in Nat \cup {None}
  PROVE  Appended(log, key, value, commit, write_record(log, key, value, commit))
<1> DEFINE record == NewRecord(log, key, value, commit)
           new == write_record(log, key, value, commit)
<1>1. record \in Record
  BY NewRecordType DEF GoodLog
<1>2. /\ record.key = key /\ record.value = value /\ record.ts = commit
      /\ record.crc = Append(log.rolling_crc, <<key, value, commit>>)
  BY DEF NewRecord
<1>3. /\ new.file = Append(log.file, record)
      /\ new.last_commit_pos = IF commit = None THEN log.last_commit_pos
                               ELSE Len(Append(log.file, record))
      /\ new.rolling_crc = IF commit = None THEN record.crc ELSE <<>>
  BY DEF write_record
<1> HIDE DEF record, new
<1>4. /\ Len(Append(log.file, record)) = Len(log.file) + 1
      /\ \A j \in 1..Len(log.file) : Append(log.file, record)[j] = log.file[j]
      /\ Append(log.file, record)[Len(log.file) + 1] = record
  BY <1>1, LogFields, AppendProperties
<1>5. Appended(log, key, value, commit, new)
  BY <1>2, <1>3, <1>4 DEF Appended
<1> QED
  BY <1>5 DEF new

\* Appending keeps the log chained
LEMMA AppendedChained ==
  ASSUME NEW log, GoodLog(log), Chained(log), NEW key, NEW value, NEW commit,
         NEW new, Appended(log, key, value, commit, new)
  PROVE  Chained(new)
<1> DEFINE n == Len(log.file)
<1>1. n \in Nat
  BY LogFields
<1>2. /\ Len(new.file) = n + 1
      /\ \A j \in 1..n : new.file[j] = log.file[j]
      /\ new.file[n + 1].key = key /\ new.file[n + 1].value = value
      /\ new.file[n + 1].ts = commit
      /\ new.file[n + 1].crc = Append(log.rolling_crc, <<key, value, commit>>)
      /\ commit = None => new.rolling_crc = new.file[n + 1].crc
      /\ commit # None => new.rolling_crc = <<>>
  BY DEF Appended
<1>3. log.rolling_crc = IF n = 0 THEN <<>> ELSE IF log.file[n].ts # None THEN <<>>
                        ELSE log.file[n].crc
  BY DEF Chained
<1>4. \A j \in 1..n : CrcMatches(log.file, j)
  BY DEF Chained
<1> HIDE DEF n
<1>5. \A j \in 1..n : CrcMatches(new.file, j)
  BY <1>1, <1>2, <1>4, CrcMatchesSame
<1>6. CrcMatches(new.file, n + 1)
  <2>1. CASE n = 0
    BY <1>2, <1>3, <2>1 DEF CrcMatches
  <2>2. CASE n # 0
    <3>1. n + 1 # 1 /\ (n + 1) - 1 = n /\ new.file[n] = log.file[n]
      BY <1>1, <1>2, <2>2
    <3> QED
      BY <1>2, <1>3, <2>2, <3>1 DEF CrcMatches
  <2> QED
    BY <2>1, <2>2
<1>7. \A j \in 1..Len(new.file) : CrcMatches(new.file, j)
  BY <1>1, <1>2, <1>5, <1>6
<1>8. new.rolling_crc = IF Len(new.file) = 0 THEN <<>>
                        ELSE IF new.file[Len(new.file)].ts # None THEN <<>>
                        ELSE new.file[Len(new.file)].crc
  <2>1. Len(new.file) # 0
    BY <1>1, <1>2
  <2>2. new.rolling_crc = IF new.file[n + 1].ts # None THEN <<>> ELSE new.file[n + 1].crc
    BY <1>2
  <2>3. Len(new.file) = n + 1
    BY <1>2
  <2> QED
    BY <2>1, <2>2, <2>3
<1> QED
  BY <1>7, <1>8 DEF Chained

\* An insert is not replayed before its commit record is written, and it is
\* from now on the last of its key among the records after the last commit
LEMMA InsertPending ==
  ASSUME NEW log, GoodLog(log), Shape(log), WellReplayed(log), Chained(log),
         NEW k \in Key, NEW v \in Value, NEW changes \in Table,
         \A x \in Key : Latest(log.file, x, log.last_commit_pos + 1, Len(log.file), changes[x]),
         NEW new, GoodLog(new), Appended(log, k, v, None, new)
  PROVE  /\ Shape(new) /\ WellReplayed(new) /\ Chained(new)
         /\ Replayed(new.file) = Replayed(log.file)
         /\ \A x \in Key : Latest(new.file, x, new.last_commit_pos + 1, Len(new.file),
                                  insert(changes, k, v)[x])
<1> DEFINE n == log.last_commit_pos
           m == Len(log.file)
<1>1. /\ n \in Nat /\ m \in Nat /\ n <= m
      /\ new.last_commit_pos = n /\ Len(new.file) = m + 1
      /\ \A j \in 1..m : new.file[j] = log.file[j]
      /\ new.file[m + 1].key = k /\ new.file[m + 1].value = v /\ new.file[m + 1].ts = None
  BY LogFields DEF Appended
<1>2. \A j \in (n + 1)..m : log.file[j].ts = None
  BY DEF Shape
<1>3. \A x \in Key : Latest(log.file, x, n + 1, m, changes[x])
  OBVIOUS
<1> HIDE DEF n, m
<1>4. \A j \in (n + 1)..(m + 1) : new.file[j].ts = None
  BY <1>1, <1>2
<1>5. /\ Shape(new) /\ WellReplayed(new)
      /\ Replayed(new.file) = Replayed(log.file)
  BY <1>1, <1>4, SamePrefix DEF n
<1>6. ASSUME NEW x \in Key
      PROVE  Latest(new.file, x, n + 1, m + 1, insert(changes, k, v)[x])
  <2>1. insert(changes, k, v)[x] = IF x = k THEN v ELSE changes[x]
    BY DEF insert, Table
  <2>2. CASE x = k
    <3>1. m + 1 \in (n + 1)..(m + 1) /\ \A j \in (m + 1 + 1)..(m + 1) : FALSE
      BY <1>1
    <3>2. v # None
      BY NoneAssumption
    <3> QED
      BY <1>1, <2>1, <2>2, <3>1, <3>2 DEF Latest
  <2>3. CASE x # k
    <3>1. Latest(log.file, x, n + 1, m, changes[x])
      BY <1>3
    <3>2. \A j \in (n + 1)..(m + 1) :
            \/ j \in (n + 1)..m /\ new.file[j] = log.file[j]
            \/ j = m + 1 /\ new.file[j].key # x
      BY <1>1, <2>3
    <3>3. CASE changes[x] = None
      <4>1. \A j \in (n + 1)..m : log.file[j].key # x
        BY <3>1, <3>3 DEF Latest
      <4>2. \A j \in (n + 1)..(m + 1) : new.file[j].key # x
        BY <3>2, <4>1
      <4> QED
        BY <2>1, <2>3, <3>3, <4>2 DEF Latest
    <3>4. CASE changes[x] # None
      <4>1. PICK i \in (n + 1)..m : /\ log.file[i].key = x /\ log.file[i].value = changes[x]
                                    /\ \A j \in (i + 1)..m : log.file[j].key # x
        BY <3>1, <3>4 DEF Latest
      <4>2. i \in (n + 1)..(m + 1) /\ new.file[i].key = x /\ new.file[i].value = changes[x]
        BY <1>1, <4>1
      <4>3. \A j \in (i + 1)..(m + 1) : new.file[j].key # x
        BY <1>1, <3>2, <4>1
      <4> QED
        BY <2>1, <2>3, <3>4, <4>2, <4>3 DEF Latest
    <3> QED
      BY <3>3, <3>4
  <2> QED
    BY <2>2, <2>3
<1> QED
  BY <1>1, <1>5, <1>6, AppendedChained

\* A commit record makes every record since the last one count: the table
\* replayed is the old one overlaid with the transaction's inserts
LEMMA CommitReplays ==
  ASSUME NEW log, GoodLog(log), Shape(log), WellReplayed(log), Chained(log),
         NEW ts \in Nat, NEW changes \in Table,
         \A x \in Key : Latest(log.file, x, log.last_commit_pos + 1, Len(log.file), changes[x]),
         NEW new, GoodLog(new), Appended(log, None, None, ts, new)
  PROVE  /\ Shape(new) /\ WellReplayed(new) /\ Chained(new)
         /\ Replayed(new.file) = Overlay(changes, Replayed(log.file))
<1> DEFINE n == log.last_commit_pos
           m == Len(log.file)
<1>0. ts # None
  BY NoneAssumption
<1>1. /\ n \in Nat /\ m \in Nat /\ n <= m
      /\ new.last_commit_pos = m + 1 /\ Len(new.file) = m + 1
      /\ \A j \in 1..m : new.file[j] = log.file[j]
      /\ new.file[m + 1].key = None /\ new.file[m + 1].ts = ts
  BY <1>0, LogFields DEF Appended
<1>2. \A x \in Key : /\ Latest(log.file, x, n + 1, m, changes[x])
                     /\ Latest(log.file, x, 1, n, Replayed(log.file)[x])
  BY DEF WellReplayed
<1>3. Chained(new)
  BY AppendedChained
<1> HIDE DEF n, m
<1>4. Shape(new)
  <2>1. \A j \in 1..(m + 1) : CrcMatches(new.file, j)
    BY <1>1, <1>3 DEF Chained
  <2>2. \A j \in (m + 1 + 1)..(m + 1) : FALSE
    BY <1>1
  <2> QED
    BY <1>0, <1>1, <2>1, <2>2 DEF Shape
<1>5. ASSUME NEW x \in Key
      PROVE  Latest(new.file, x, 1, m + 1, Overlay(changes, Replayed(log.file))[x])
  <2> DEFINE old == Replayed(log.file)[x]
  <2>1. Overlay(changes, Replayed(log.file))[x] = IF changes[x] # None THEN changes[x] ELSE old
    BY DEF Overlay
  <2>2. Latest(log.file, x, n + 1, m, changes[x]) /\ Latest(log.file, x, 1, n, old)
    BY <1>2
  <2>3. \A j \in 1..(m + 1) : \/ j \in 1..m /\ new.file[j] = log.file[j]
                              \/ j = m + 1 /\ new.file[j].key # x
    BY <1>1, NoneAssumption
  <2> HIDE DEF old
  <2>4. CASE changes[x] # None
    <3>1. PICK i \in (n + 1)..m : /\ log.file[i].key = x /\ log.file[i].value = changes[x]
                                  /\ \A j \in (i + 1)..m : log.file[j].key # x
      BY <2>2, <2>4 DEF Latest
    <3>2. i \in 1..(m + 1) /\ new.file[i] = log.file[i]
      BY <1>1, <3>1
    <3>3. \A j \in (i + 1)..(m + 1) : new.file[j].key # x
      BY <1>1, <2>3, <3>1
    <3> QED
      BY <2>1, <2>4, <3>1, <3>2, <3>3 DEF Latest
  <2>5. CASE changes[x] = None
    <3>1. \A j \in (n + 1)..m : log.file[j].key # x
      BY <2>2, <2>5 DEF Latest
    <3>2. \A j \in (n + 1)..(m + 1) : new.file[j].key # x
      BY <1>1, <2>3, <3>1
    <3>3. CASE old = None
      <4>1. \A j \in 1..n : log.file[j].key # x
        BY <2>2, <3>3 DEF Latest
      <4>2. \A j \in 1..n : new.file[j].key # x
        BY <1>1, <4>1
      <4>3. \A j \in 1..(m + 1) : j \in 1..n \/ j \in (n + 1)..(m + 1)
        BY <1>1
      <4>4. \A j \in 1..(m + 1) : new.file[j].key # x
        BY <3>2, <4>2, <4>3
      <4> QED
        BY <2>1, <2>5, <3>3, <4>4 DEF Latest
    <3>4. CASE old # None
      <4>1. PICK i \in 1..n : /\ log.file[i].key = x /\ log.file[i].value = old
                              /\ \A j \in (i + 1)..n : log.file[j].key # x
        BY <2>2, <3>4 DEF Latest
      <4>2. i \in 1..(m + 1) /\ new.file[i] = log.file[i]
        BY <1>1, <4>1
      <4>3. \A j \in (i + 1)..(m + 1) : new.file[j].key # x
        BY <1>1, <3>2, <4>1
      <4> QED
        BY <2>1, <2>5, <3>4, <4>1, <4>2, <4>3 DEF Latest
    <3> QED
      BY <3>3, <3>4
  <2> QED
    BY <2>4, <2>5
<1>6. \A x \in Key : Replayed(new.file)[x] = Overlay(changes, Replayed(log.file))[x]
  BY <1>1, <1>4, <1>5, ReplayedLatest
<1>7. Replayed(new.file) = Overlay(changes, Replayed(log.file))
  BY <1>6 DEF Replayed, Overlay
<1> QED
  BY <1>1, <1>3, <1>4, <1>5, <1>7 DEF WellReplayed

\* truncate_to_last_commit drops what a rolled back transaction has written
LEMMA TruncateReplays ==
  ASSUME NEW log, GoodLog(log), Shape(log), WellReplayed(log), NEW new,
         new = truncate_to_last_commit(log)
  PROVE  /\ Shape(new) /\ WellReplayed(new) /\ Chained(new)
         /\ Replayed(new.file) = Replayed(log.file)
<1> DEFINE n == log.last_commit_pos
<1>1. n \in Nat /\ n <= Len(log.file) /\ Len(log.file) \in Nat /\ log.file \in Seq(Record)
  BY LogFields
<1>2. GoodLog(new) /\ Clean(new)
  BY TruncateType
<1>3. new.file = SubSeq(log.file, 1, n) /\ new.last_commit_pos = n
  BY DEF truncate_to_last_commit, GoodLog, Log
<1> HIDE DEF n
<1>4. \A i \in 1..n : log.file[i] \in Record
  BY <1>1, ElementOfSeq
<1>5. \A i \in 1..n : SubSeq(log.file, 1, n)[i] = log.file[i]
  BY <1>1, <1>4, SubSeqProperties
<1>6. \A j \in 1..n : new.file[j] = log.file[j]
  BY <1>3, <1>5
<1>7. Len(new.file) = n /\ new.rolling_crc = <<>>
  BY <1>2, <1>3 DEF Clean
<1>8. \A j \in (n + 1)..Len(new.file) : FALSE
  BY <1>1, <1>7
<1>9. Shape(new) /\ WellReplayed(new) /\ Replayed(new.file) = Replayed(log.file)
  BY <1>2, <1>3, <1>6, <1>8, SamePrefix DEF n
<1>10. Chained(new)
  BY <1>1, <1>3, <1>7, <1>9 DEF Chained, Shape
<1> QED
  BY <1>9, <1>10

\* A record cut short by a crash is not replayed, and neither is anything after
\* the last commit
LEMMA TornReplays ==
  ASSUME NEW log, GoodLog(log), Shape(log), WellReplayed(log), NEW new,
         new = [log EXCEPT !.file = Append(log.file, Torn)]
  PROVE  /\ Shape(new) /\ WellReplayed(new)
         /\ Replayed(new.file) = Replayed(log.file)
<1> DEFINE n == log.last_commit_pos
           m == Len(log.file)
<1>1. n \in Nat /\ m \in Nat /\ n <= m /\ log.file \in Seq(Record)
  BY LogFields
<1>2. GoodLog(new)
  BY TornLog
<1>3. new.file = Append(log.file, Torn) /\ new.last_commit_pos = n
  BY DEF GoodLog, Log
<1>4. \A j \in (n + 1)..m : log.file[j].ts = None
  BY DEF Shape
<1> HIDE DEF n, m
<1>5. /\ Len(new.file) = m + 1 /\ new.file[m + 1] = Torn
      /\ \A j \in 1..m : new.file[j] = log.file[j]
  BY <1>1, <1>3, TornType, AppendProperties DEF m
<1>6. \A j \in (n + 1)..Len(new.file) : new.file[j].ts = None
  <2>1. Torn.ts = None
    BY DEF Torn
  <2> QED
    BY <1>1, <1>4, <1>5, <2>1
<1>7. \A j \in 1..n : new.file[j] = log.file[j]
  BY <1>1, <1>5
<1> QED
  BY <1>2, <1>3, <1>6, <1>7, SamePrefix DEF n

\* A new or reset log replays nothing
LEMMA CreateReplays ==
  /\ Shape(create) /\ WellReplayed(create) /\ Chained(create)
  /\ Replayed(create.file) = EmptyTable
<1>1. create.file = <<>> /\ create.last_commit_pos = 0 /\ create.rolling_crc = <<>>
      /\ Len(<<>>) = 0 /\ DOMAIN <<>> = {}
  BY DEF create
<1>2. \A i \in 1..0 : FALSE
  OBVIOUS
<1>3. Shape(create) /\ Chained(create)
  BY <1>1, <1>2 DEF Shape, Chained
<1>4. Replayed(create.file) = EmptyTable
  BY <1>1 DEF Replayed, EmptyTable
<1>5. WellReplayed(create)
  BY <1>1, <1>2, <1>4 DEF WellReplayed, Latest, EmptyTable
<1> QED
  BY <1>3, <1>4, <1>5

-----------------------------------------------------------------------------
(* The log and the transaction that writes to it *)

\* What Db::open would replay now
LogTable == Replayed(wal.file)

\* The records after the last commit are the inserts of w
Pending(w) ==
  \A k \in Key : Latest(wal.file, k, wal.last_commit_pos + 1, Len(wal.file), writes[w][k])

\* The log as long as none of its writes has failed
LogSound ==
  /\ Shape(wal) /\ WellReplayed(wal)
  /\ db = "open" => Chained(wal)
  /\ \A w \in Writer : pc[w] = "running" => Pending(w)

\* Inserts are not replayed yet
LEMMA InsertLog ==
  ASSUME Inductive, LogSound, NEW w \in Writer, NEW k \in Key, NEW v \in Value, Insert(w, k, v)
  PROVE  LogSound' /\ LogTable' = LogTable
<1>1. /\ GoodLog(wal) /\ GoodLog(wal') /\ Appended(wal, k, v, None, wal')
  BY WriteRecordType, WriteRecordAppends DEF Inductive, Insert
<1>2. /\ writes[w] \in Table /\ writes' = [writes EXCEPT ![w] = insert(writes[w], k, v)]
      /\ pc[w] = "running" /\ pc' = pc /\ db' = db
      /\ writes'[w] = insert(writes[w], k, v)
  BY DEF Inductive, TypeRest, Insert
<1>3. db = "open" /\ \A x \in Writer \ {w} : pc[x] # "running"
  BY <1>2 DEF Inductive, Locking, Holding, WriterPc
<1>4. /\ Shape(wal) /\ WellReplayed(wal) /\ Chained(wal) /\ Pending(w)
  BY <1>2, <1>3 DEF LogSound
<1>5. /\ Shape(wal') /\ WellReplayed(wal') /\ Chained(wal')
      /\ Replayed(wal'.file) = Replayed(wal.file)
      /\ \A x \in Key : Latest(wal'.file, x, wal'.last_commit_pos + 1, Len(wal'.file),
                               insert(writes[w], k, v)[x])
  BY <1>1, <1>2, <1>4, InsertPending DEF Pending
<1>6. Pending(w)'
  BY <1>2, <1>5 DEF Pending
<1> QED
  BY <1>2, <1>3, <1>5, <1>6 DEF LogSound, LogTable, Shape, WellReplayed, Chained

\* The commit record makes the transaction's inserts, and nothing else, part of
\* what is replayed
LEMMA WriteCommitLog ==
  ASSUME Inductive, LogSound, NEW w \in Writer, WriteCommit(w)
  PROVE  LogSound' /\ LogTable' = Overlay(writes[w], LogTable)
<1>1. NextTimestamp \in Nat
  BY NextTimestampType DEF Inductive
<1>2. GoodLog(wal) /\ GoodLog(wal') /\ Appended(wal, None, None, NextTimestamp, wal')
  BY <1>1, WriteRecordType, WriteRecordAppends DEF Inductive, WriteCommit, write_commit
<1>3. /\ writes[w] \in Table /\ writes' = writes /\ db' = db
      /\ pc[w] = "running" /\ pc' = [pc EXCEPT ![w] = "logged"] /\ pc \in [Writer -> WriterPc]
  BY DEF Inductive, TypeRest, WriteCommit, Goto
<1>4. db = "open" /\ \A x \in Writer \ {w} : pc[x] # "running"
  BY <1>3 DEF Inductive, Locking, Holding, WriterPc
<1>5. Shape(wal) /\ WellReplayed(wal) /\ Chained(wal) /\ Pending(w)
  BY <1>3, <1>4 DEF LogSound
<1>6. /\ Shape(wal') /\ WellReplayed(wal') /\ Chained(wal')
      /\ Replayed(wal'.file) = Overlay(writes[w], Replayed(wal.file))
  BY <1>1, <1>2, <1>3, <1>5, CommitReplays DEF Pending
<1>7. \A x \in Writer : pc'[x] # "running"
  BY <1>3, <1>4
<1> QED
  BY <1>6, <1>7 DEF LogSound, LogTable, Shape, WellReplayed, Chained

\* Steps that leave the log alone and start no transaction
LEMMA LogUntouched ==
  ASSUME LogSound, UNCHANGED wal, db' = "open" => db = "open",
         \A x \in Writer : pc'[x] = "running" => pc[x] = "running" /\ writes'[x] = writes[x]
  PROVE  LogSound' /\ LogTable' = LogTable
BY DEF LogSound, LogTable, Shape, WellReplayed, Chained, Pending

\* A transaction begins with a log that ends with a commit record
LEMMA LoadLog ==
  ASSUME Inductive, LogSound, tally["walErrors"] = 0, NEW w \in Writer, Load(w)
  PROVE  LogSound' /\ LogTable' = LogTable
<1>1. /\ UNCHANGED <<wal, db, writes>> /\ pc[w] = "locked"
      /\ pc' = [pc EXCEPT ![w] = "running"] /\ pc \in [Writer -> WriterPc]
  BY DEF Inductive, TypeRest, Load, Goto, disk, ghosts
<1>2. db = "open" /\ \A x \in Writer : pc[x] # "running"
  BY <1>1 DEF Inductive, Locking, Holding, WriterPc
<1>3. Clean(wal) /\ writes[w] = EmptyTable
  BY <1>1, <1>2 DEF Inductive, CleanUnlessRunning, Locals
<1>4. Len(wal.file) \in Nat /\ Len(wal.file) = wal.last_commit_pos
  BY <1>3, LogFields DEF Inductive, Clean
<1>5. \A j \in (wal.last_commit_pos + 1)..Len(wal.file) : FALSE
  BY <1>4
<1>6. Pending(w)
  BY <1>3, <1>5 DEF Pending, Latest, EmptyTable
<1>7. \A x \in Writer : pc'[x] = "running" => Pending(x)'
  BY <1>1, <1>2, <1>6 DEF Pending
<1> QED
  BY <1>1, <1>7 DEF LogSound, LogTable, Shape, WellReplayed, Chained

\* Rolling back does not change what is replayed
LEMMA AbortLog ==
  ASSUME Inductive, LogSound, NEW w \in Writer, Abort(w)
  PROVE  LogSound' /\ LogTable' = LogTable
<1>1. Shape(wal') /\ WellReplayed(wal') /\ Chained(wal') /\ Replayed(wal'.file) = Replayed(wal.file)
  BY TruncateReplays DEF Inductive, LogSound, Abort
<1>2. \A x \in Writer : pc'[x] # "running"
  BY DEF Inductive, TypeRest, Locking, Holding, WriterPc, Abort, Release, Goto
<1> QED
  BY <1>1, <1>2 DEF LogSound, LogTable, Shape, WellReplayed, Chained

\* A reset log, or a new one, replays nothing
LEMMA EmptiedLog ==
  ASSUME wal' = create, \A x \in Writer : pc'[x] # "running"
  PROVE  LogSound' /\ LogTable' = EmptyTable
BY CreateReplays DEF LogSound, LogTable, Shape, WellReplayed, Chained

\* A crash does not change what is replayed, even inside a write
LEMMA CrashLog ==
  ASSUME Inductive, LogSound, Dies
  PROVE  LogSound' /\ LogTable' = LogTable
<1>1. wal' = wal \/ wal' = [wal EXCEPT !.file = Append(wal.file, Torn)]
  BY DEF Dies
<1>2. Shape(wal') /\ WellReplayed(wal') /\ Replayed(wal'.file) = Replayed(wal.file)
  <2>1. CASE wal' = wal
    BY <2>1 DEF LogSound
  <2>2. CASE wal' = [wal EXCEPT !.file = Append(wal.file, Torn)]
    BY <2>2, TornReplays DEF Inductive, LogSound
  <2> QED
    BY <1>1, <2>1, <2>2
<1>3. db' = "closed" /\ \A x \in Writer : pc'[x] # "running"
  BY DEF Dies
<1> QED
  BY <1>2, <1>3 DEF LogSound, LogTable, Shape, WellReplayed

-----------------------------------------------------------------------------
(* The SSTables on disk *)

\* A set of SSTables: tables named by natural numbers
Files(files) == DOMAIN files \subseteq Nat /\ files \in [DOMAIN files -> Table]

\* What the SSTables say about a key of which ts is the newest, and about a key
\* that none of them has
LEMMA MergedAt ==
  ASSUME NEW files, Files(files), NEW k \in Key
  PROVE  /\ \A ts \in DOMAIN files : NewestWith(files, k, ts) => Merged(files)[k] = files[ts][k]
         /\ (\A ts \in DOMAIN files : ~NewestWith(files, k, ts)) => Merged(files)[k] = None
<1>1. ASSUME NEW ts \in DOMAIN files, NewestWith(files, k, ts)
      PROVE  Merged(files)[k] = files[ts][k]
  <2>1. \A u \in DOMAIN files : NewestWith(files, k, u) => u = ts
    BY <1>1 DEF NewestWith, Files
  <2>2. (CHOOSE u \in DOMAIN files : NewestWith(files, k, u)) = ts
    BY <1>1, <2>1
  <2> QED
    BY <1>1, <2>2 DEF Merged
<1>2. ASSUME \A ts \in DOMAIN files : ~NewestWith(files, k, ts) PROVE Merged(files)[k] = None
  BY <1>2 DEF Merged
<1> QED
  BY <1>1, <1>2

\* The SSTables merged are a table
LEMMA MergedType ==
  ASSUME NEW files, Files(files)
  PROVE  Merged(files) \in Table
<1>1. ASSUME NEW k \in Key PROVE Merged(files)[k] \in Value \cup {None}
  <2>1. CASE \E ts \in DOMAIN files : NewestWith(files, k, ts)
    BY <2>1, MergedAt DEF Files, Table
  <2>2. CASE ~\E ts \in DOMAIN files : NewestWith(files, k, ts)
    BY <2>2, MergedAt
  <2> QED
    BY <2>1, <2>2
<1>2. Merged(files) = [k \in Key |-> Merged(files)[k]]
  BY DEF Merged
<1> QED
  BY <1>1, <1>2 DEF Table

\* An SSTable with the newest name hides, key by key, what it contains
LEMMA MergedNewest ==
  ASSUME NEW files, Files(files), NEW new \in Nat, NEW table \in Table,
         \A u \in DOMAIN files : u < new,
         NEW more, Files(more), DOMAIN more = DOMAIN files \cup {new},
         more[new] = table, \A u \in DOMAIN files : more[u] = files[u]
  PROVE  Merged(more) = Overlay(table, Merged(files))
<1>1. \A u \in DOMAIN files : u \in Nat /\ u < new /\ more[u] = files[u]
  BY DEF Files
<1>2. ASSUME NEW k \in Key PROVE Merged(more)[k] = Overlay(table, Merged(files))[k]
  <2>0. Overlay(table, Merged(files))[k] = IF table[k] # None THEN table[k] ELSE Merged(files)[k]
    BY DEF Overlay
  <2>1. CASE table[k] # None
    <3>1. new \in DOMAIN more /\ NewestWith(more, k, new)
      BY <1>1, <2>1 DEF NewestWith
    <3> QED
      BY <2>0, <2>1, <3>1, MergedAt
  <2>2. CASE table[k] = None
    <3>1. ~NewestWith(more, k, new)
      BY <2>2 DEF NewestWith
    <3>2. \A ts \in DOMAIN files : NewestWith(more, k, ts) <=> NewestWith(files, k, ts)
      BY <1>1, <2>2 DEF NewestWith
    <3>3. CASE \E ts \in DOMAIN files : NewestWith(files, k, ts)
      <4>1. PICK ts \in DOMAIN files : NewestWith(files, k, ts)
        BY <3>3
      <4>2. Merged(files)[k] = files[ts][k]
        BY <4>1, MergedAt
      <4>3. ts \in DOMAIN more /\ NewestWith(more, k, ts) /\ more[ts] = files[ts]
        BY <1>1, <3>2, <4>1
      <4>4. Merged(more)[k] = more[ts][k]
        BY <4>3, MergedAt
      <4> QED
        BY <2>0, <2>2, <4>2, <4>3, <4>4
    <3>4. CASE ~\E ts \in DOMAIN files : NewestWith(files, k, ts)
      <4>1. \A ts \in DOMAIN more : ~NewestWith(more, k, ts)
        BY <3>1, <3>2, <3>4
      <4> QED
        BY <2>0, <2>2, <3>4, <4>1, MergedAt
    <3> QED
      BY <3>3, <3>4
  <2> QED
    BY <2>1, <2>2
<1>3. Merged(more) = [k \in Key |-> Merged(more)[k]]
  BY DEF Merged
<1> QED
  BY <1>2, <1>3 DEF Overlay

\* What is read through a MemTable and a list of SSTables is a table
LEMMA ViewType ==
  ASSUME NEW memtable \in Table, NEW sstables \in Seq(Table)
  PROVE  View(memtable, sstables) \in Table
<1>1. ASSUME NEW k \in Key PROVE get(memtable, sstables, k) \in Value \cup {None}
  <2>1. CASE \E i \in DOMAIN sstables : FirstHit(sstables, k, i)
    <3>1. PICK i \in DOMAIN sstables : i = CHOOSE j \in DOMAIN sstables : FirstHit(sstables, k, j)
      BY <2>1
    <3>2. sstables[i] \in Table
      BY <3>1, LenProperties, ElementOfSeq
    <3> QED
      BY <2>1, <3>1, <3>2 DEF get, Table
  <2>2. CASE ~\E i \in DOMAIN sstables : FirstHit(sstables, k, i)
    BY <2>2 DEF get, Table
  <2> QED
    BY <2>1, <2>2
<1> QED
  BY <1>1 DEF View, Table

\* An empty database reads nothing
LEMMA ViewEmpty == View(EmptyTable, <<>>) = EmptyTable
<1>1. DOMAIN <<>> = {}
  OBVIOUS
<1> QED
  BY <1>1 DEF View, get, EmptyTable

\* The rename that ends a flush puts the MemTable on top of what is on disk
LEMMA RenameOnDisk ==
  ASSUME TypeRest, TypeRest', NEW w \in Writer, FlushRename(w),
         \A u \in DOMAIN ssts : u < flush_ts[w]
  PROVE  OnDisk' = Overlay(fork[w], OnDisk)
<1>1. /\ DOMAIN ssts' = DOMAIN ssts \cup {flush_ts[w]} /\ ssts'[flush_ts[w]] = fork[w]
      /\ \A u \in DOMAIN ssts : u # flush_ts[w] /\ u \in Nat
      /\ flush_ts[w] \in Nat /\ fork[w] \in Table
  BY DEF FlushRename, TypeRest
<1>2. \A u \in DOMAIN ssts : ssts'[u] = ssts[u]
  BY <1>1 DEF FlushRename
<1>3. Files(ssts) /\ Files(ssts')
  BY DEF TypeRest, Files
<1> QED
  BY <1>1, <1>2, <1>3, MergedNewest DEF OnDisk

\* Db::open, which walks the files by descending name, reads what a merge of all
\* of them under the replayed log gives
LEMMA LoadView ==
  ASSUME TypeRest, GoodLog(wal), OpenLoad
  PROVE  Visible' = Overlay(LogTable, OnDisk) /\ readable'.active = LogTable
<1> DEFINE D == DOMAIN ssts
           N == Cardinality(D)
<1>0. Files(ssts)
  BY DEF TypeRest, Files
<1>1. PICK order \in [1..N -> D] :
        /\ NewestFirst(D, order)
        /\ readable' = [active |-> Replayed(wal.file),
                        sstables |-> [i \in DOMAIN order |-> ssts[order[i]]]]
  BY DEF OpenLoad
<1> DEFINE list == [i \in 1..N |-> ssts[order[i]]]
<1>2. readable'.active = LogTable /\ readable'.sstables = list
  BY <1>1 DEF LogTable
<1>3. IsFiniteSet(D) /\ D \subseteq Nat /\ N \in Nat
  BY FS_CardinalityType DEF TypeRest
<1>4. \A i, j \in 1..N : i < j => order[i] > order[j]
  BY <1>1 DEF NewestFirst
<1>5. \A ts \in D : \E i \in 1..N : order[i] = ts
  <2>1. order \in Injection(1..N, D)
    BY <1>3, <1>4 DEF Injection, IsInjective
  <2>2. IsFiniteSet(1..N) /\ Cardinality(1..N) = N
    BY <1>3, FS_Interval
  <2>3. order \in Surjection(1..N, D)
    BY <1>3, <2>1, <2>2, FS_Injection
  <2> QED
    BY <2>3 DEF Surjection
<1> HIDE DEF D, N
<1>6. ASSUME NEW k \in Key PROVE get(LogTable, list, k) = Overlay(LogTable, OnDisk)[k]
  <2>0. Overlay(LogTable, OnDisk)[k] = IF LogTable[k] # None THEN LogTable[k] ELSE OnDisk[k]
    BY DEF Overlay
  <2>1. DOMAIN list = 1..N /\ \A i \in 1..N : list[i] = ssts[order[i]]
    OBVIOUS
  <2> HIDE DEF list
  <2>2. ASSUME NEW i \in 1..N PROVE FirstHit(list, k, i) <=> NewestWith(ssts, k, order[i])
    <3>1. (\A j \in 1..(i - 1) : list[j][k] = None) <=> (\A u \in D : u > order[i] => ssts[u][k] = None)
      <4>1. ASSUME \A j \in 1..(i - 1) : list[j][k] = None, NEW u \in D, u > order[i]
            PROVE  ssts[u][k] = None
        <5>1. PICK j \in 1..N : order[j] = u
          BY <1>5
        <5>2. order[i] \in Nat /\ order[j] \in Nat
          BY <1>3
        <5>3. j \in 1..(i - 1)
          BY <1>3, <1>4, <4>1, <5>1, <5>2
        <5> QED
          BY <2>1, <4>1, <5>1, <5>3
      <4>2. ASSUME \A u \in D : u > order[i] => ssts[u][k] = None, NEW j \in 1..(i - 1)
            PROVE  list[j][k] = None
        <5>1. j \in 1..N /\ j < i
          BY <1>3
        <5>2. order[j] \in D /\ order[j] > order[i]
          BY <1>4, <5>1
        <5> QED
          BY <2>1, <4>2, <5>1, <5>2
      <4> QED
        BY <4>1, <4>2
    <3> QED
      BY <2>1, <3>1 DEF FirstHit, NewestWith, D
  <2>3. CASE LogTable[k] # None
    BY <2>0, <2>3 DEF get
  <2>4. CASE LogTable[k] = None /\ \E ts \in D : NewestWith(ssts, k, ts)
    <3>1. PICK ts \in D : NewestWith(ssts, k, ts)
      BY <2>4
    <3>2. PICK i \in 1..N : order[i] = ts
      BY <1>5
    <3>3. FirstHit(list, k, i)
      BY <2>2, <3>1, <3>2
    <3>4. \A j \in 1..N : FirstHit(list, k, j) => j = i
      BY <1>3, <3>3 DEF FirstHit
    <3>5. (CHOOSE j \in DOMAIN list : FirstHit(list, k, j)) = i
      BY <2>1, <3>3, <3>4
    <3>6. get(LogTable, list, k) = list[i][k]
      BY <2>1, <2>4, <3>3, <3>5 DEF get
    <3>7. OnDisk[k] = ssts[ts][k]
      BY <3>1, <1>0, MergedAt DEF D, OnDisk
    <3> QED
      BY <2>0, <2>1, <2>4, <3>2, <3>6, <3>7
  <2>5. CASE LogTable[k] = None /\ ~\E ts \in D : NewestWith(ssts, k, ts)
    <3>1. ~\E i \in DOMAIN list : FirstHit(list, k, i)
      BY <2>1, <2>2, <2>5
    <3>2. OnDisk[k] = None
      BY <2>5, <1>0, MergedAt DEF D, OnDisk
    <3> QED
      BY <2>0, <2>5, <3>1, <3>2 DEF get
  <2> QED
    BY <2>3, <2>4, <2>5
<1>7. Visible' = View(LogTable, list)
  BY <1>2 DEF Visible
<1> HIDE DEF list
<1> QED
  BY <1>2, <1>6, <1>7 DEF View, Overlay

-----------------------------------------------------------------------------
(* What is visible, what is on disk and what is in the log *)

\* Every entry of t is in u, with the same value
Agrees(t, u) == \A k \in Key : t[k] # None => u[k] = t[k]

\* The SSTables on disk hold what is visible under the MemTable, and all of it
\* between the rename that ends a flush and the reset of the log
Layers ==
  /\ db # "closed" => Visible = Overlay(readable.active, OnDisk)
  /\ db = "loaded" => readable.active = LogTable
  /\ \A w \in Writer : pc[w] \in {"renamed", "swapped"} => OnDisk = Visible

\* The log and the commits of the session are behind the visible state or, once
\* a commit record is written, behind the state its transaction will publish.
\* So a flush of that state makes both of them redundant
LogBehind ==
  /\ db = "open" /\ (\A w \in Writer : pc[w] # "logged") =>
       Agrees(LogTable, Visible) /\ Agrees(session, Visible)
  /\ \A w \in Writer : pc[w] = "logged" =>
       /\ Agrees(LogTable, Overlay(writes[w], Visible))
       /\ Agrees(session, Overlay(writes[w], Visible))

Tables == Layers /\ LogBehind /\ CommittedUpdatesAreBacked

\* The types of the tables the invariant compares
LEMMA TableTypes ==
  ASSUME Inductive
  PROVE  /\ Visible \in Table /\ OnDisk \in Table /\ LogTable \in Table
         /\ session \in Table /\ readable.active \in Table
         /\ \A w \in Writer : writes[w] \in Table /\ fork[w] \in Table
<1>1. readable.active \in Table /\ readable.sstables \in Seq(Table)
  BY DEF Inductive, TypeRest, Readable
<1>2. Files(ssts)
  BY DEF Inductive, TypeRest, Files
<1>3. LogTable \in Table
  BY ReplayedType DEF LogTable, Inductive, GoodLog
<1>4. Visible \in Table /\ OnDisk \in Table
  BY <1>1, <1>2, ViewType, MergedType DEF Visible, OnDisk
<1> QED
  BY <1>1, <1>3, <1>4 DEF Inductive, TypeRest

\* Overlays associate
LEMMA OverlayAssociates ==
  ASSUME NEW t \in Table, NEW u \in Table, NEW v \in Table
  PROVE  Overlay(t, Overlay(u, v)) = Overlay(Overlay(t, u), v)
BY DEF Overlay, Table

\* A table that agrees with what is under it adds nothing
LEMMA OverlayAgrees ==
  ASSUME NEW t \in Table, NEW u \in Table, Agrees(t, u)
  PROVE  Overlay(t, u) = u
BY DEF Overlay, Table, Agrees

\* Steps that move none of the tables
LEMMA TablesSame ==
  ASSUME Tables, LogTable' = LogTable,
         UNCHANGED <<ssts, readable, db, session, committed>>,
         \A x \in Writer : pc'[x] \in {"renamed", "swapped"} => pc[x] \in {"renamed", "swapped"},
         \A x \in Writer : (pc'[x] = "logged" <=> pc[x] = "logged")
                           /\ (pc[x] = "logged" => writes'[x] = writes[x])
  PROVE  Tables'
<1>1. OnDisk' = OnDisk /\ Visible' = Visible /\ readable'.active = readable.active
  BY DEF OnDisk, Visible
<1>2. Layers'
  BY <1>1 DEF Tables, Layers
<1>3. LogBehind'
  BY <1>1 DEF Tables, LogBehind, Agrees
<1>5. CommittedUpdatesAreBacked'
  BY <1>1 DEF Tables, CommittedUpdatesAreBacked, Recovered, LogTable
<1> QED
  BY <1>2, <1>3, <1>5 DEF Tables

\* The process stops: nothing is visible, and disk and log stay
LEMMA TablesStop ==
  ASSUME Tables, LogTable' = LogTable, UNCHANGED <<ssts, session, committed>>,
         db' = "closed", readable' = EmptyReadable, \A x \in Writer : pc'[x] = "idle"
  PROVE  Tables'
<1>1. OnDisk' = OnDisk /\ Visible' = EmptyTable
  BY ViewEmpty DEF OnDisk, Visible, EmptyReadable
<1>2. Layers' /\ LogBehind'
  BY DEF Layers, LogBehind
<1>4. CommittedUpdatesAreBacked'
  BY <1>1 DEF Tables, CommittedUpdatesAreBacked, Recovered, LogTable
<1> QED
  BY <1>2, <1>4 DEF Tables

\* The commit record: the log is now behind the state that will be published
LEMMA TablesWriteCommit ==
  ASSUME Inductive, LogSound, Tables, NEW w \in Writer, WriteCommit(w)
  PROVE  Tables'
<1>1. LogTable' = Overlay(writes[w], LogTable)
  BY WriteCommitLog
<1>2. /\ UNCHANGED <<ssts, readable, db, writes>> /\ pc[w] = "running"
      /\ pc' = [pc EXCEPT ![w] = "logged"] /\ pc \in [Writer -> WriterPc]
      /\ session' = Overlay(writes[w], session)
      /\ committed' = [k \in Key |-> committed[k] \cup ({writes[w][k]} \ {None})]
  BY DEF WriteCommit, Goto, Inductive, TypeRest
<1>3. OnDisk' = OnDisk /\ Visible' = Visible
  BY <1>2 DEF OnDisk, Visible
<1>4. db = "open" /\ \A x \in Writer : pc[x] \notin {"logged", "renamed", "swapped"}
  BY <1>2 DEF Inductive, Locking, Holding, WriterPc
<1>5. \A x \in Writer : /\ pc'[x] \notin {"renamed", "swapped"}
                        /\ pc'[x] = "logged" <=> x = w
  BY <1>2, <1>4
<1>6. Layers'
  BY <1>2, <1>3, <1>4, <1>5 DEF Tables, Layers
<1>7. LogBehind'
  <2>1. Agrees(LogTable, Visible) /\ Agrees(session, Visible)
    BY <1>4 DEF Tables, LogBehind
  <2>2. /\ Agrees(Overlay(writes[w], LogTable), Overlay(writes[w], Visible))
        /\ Agrees(Overlay(writes[w], session), Overlay(writes[w], Visible))
    BY <2>1 DEF Agrees, Overlay
  <2> QED
    BY <1>1, <1>2, <1>3, <1>5, <2>2 DEF LogBehind
<1>9. CommittedUpdatesAreBacked'
  <2>1. Recovered = Overlay(LogTable, OnDisk) /\ Recovered' = Overlay(Overlay(writes[w], LogTable), OnDisk)
    BY <1>1, <1>3 DEF Recovered, LogTable
  <2> QED
    BY <1>2, <2>1 DEF Tables, CommittedUpdatesAreBacked, Overlay
<1> QED
  BY <1>6, <1>7, <1>9 DEF Tables

\* Publishing: what the log was behind is now visible
LEMMA TablesPublish ==
  ASSUME Inductive, Tables, LogTable' = LogTable, NEW w \in Writer, Publish(w)
  PROVE  Tables'
<1>1. /\ UNCHANGED <<ssts, db, session, committed>> /\ pc[w] = "logged"
      /\ readable' = [active |-> fork[w], sstables |-> snapshot[w].sstables]
      /\ pc' \in {[pc EXCEPT ![w] = "idle"], [pc EXCEPT ![w] = "flushing"]}
      /\ pc \in [Writer -> WriterPc]
  BY DEF Publish, Release, Goto, Inductive, TypeRest, disk
<1>2. db = "open" /\ \A x \in Writer \ {w} : pc[x] \notin {"logged", "renamed", "swapped"}
  BY <1>1 DEF Inductive, Locking, Holding, WriterPc
<1>3. \A x \in Writer : pc'[x] \notin {"logged", "renamed", "swapped"}
  BY <1>1, <1>2
<1>4. /\ snapshot[w] = readable /\ fork[w] = Overlay(writes[w], readable.active)
      /\ writes[w] \in Table /\ readable.active \in Table /\ OnDisk \in Table
  BY <1>1, TableTypes DEF Inductive, Locals
<1>5. /\ readable'.active = Overlay(writes[w], readable.active)
      /\ readable'.sstables = readable.sstables
  BY <1>1, <1>4
<1>6. Visible' = Overlay(writes[w], Visible) /\ OnDisk' = OnDisk
  BY <1>1, <1>4, <1>5, ViewOverlay DEF Visible, OnDisk
<1>7. Layers'
  <2>1. Visible = Overlay(readable.active, OnDisk)
    BY <1>2 DEF Tables, Layers
  <2>2. Visible' = Overlay(readable'.active, OnDisk)
    BY <1>4, <1>5, <1>6, <2>1, OverlayAssociates
  <2> QED
    BY <1>1, <1>2, <1>3, <1>6, <2>2 DEF Layers
<1>8. LogBehind'
  BY <1>1, <1>3, <1>6 DEF Tables, LogBehind
<1>10. CommittedUpdatesAreBacked'
  BY <1>1, <1>6 DEF Tables, CommittedUpdatesAreBacked, Recovered, LogTable
<1> QED
  BY <1>7, <1>8, <1>10 DEF Tables

\* The rename: everything visible is on disk, and the log adds nothing to it
LEMMA TablesRename ==
  ASSUME Inductive, TypeRest', NewestIsOnTop, tally["staleRestarts"] = 0, Tables,
         LogTable' = LogTable, NEW w \in Writer, FlushRename(w)
  PROVE  Tables' /\ Visible' = Visible /\ OnDisk' = Visible /\ Recovered' = Visible
<1>1. /\ UNCHANGED <<db, readable, session, committed>> /\ pc[w] = "written"
      /\ pc' = [pc EXCEPT ![w] = "renamed"] /\ pc \in [Writer -> WriterPc]
  BY DEF FlushRename, Goto, Inductive, TypeRest
<1>2. db = "open" /\ \A x \in Writer : pc[x] # "logged"
  BY <1>1 DEF Inductive, Locking, Holding, WriterPc
<1>3. \A x \in Writer : pc'[x] # "logged"
  BY <1>1, <1>2
<1>4. \A u \in DOMAIN ssts : u < flush_ts[w]
  BY <1>1 DEF NewestIsOnTop
<1>5. readable.active = fork[w] /\ Visible' = Visible
  BY <1>1 DEF Inductive, Locals, Visible
<1>6. OnDisk' = Visible
  BY <1>2, <1>4, <1>5, RenameOnDisk DEF Tables, Layers, Inductive
<1>7. /\ Visible \in Table /\ LogTable \in Table /\ session \in Table
      /\ readable.active \in Table /\ OnDisk \in Table
  BY TableTypes
<1>8. Agrees(LogTable, Visible) /\ Agrees(session, Visible)
  BY <1>2 DEF Tables, LogBehind
<1>9. Recovered' = Visible
  BY <1>6, <1>7, <1>8, OverlayAgrees DEF Recovered, LogTable
<1>10. Layers'
  <2>1. Visible = Overlay(readable.active, OnDisk)
    BY <1>2 DEF Tables, Layers
  <2>2. Visible = Overlay(readable.active, Visible)
    BY <1>7, <2>1 DEF Overlay, Table
  <2> QED
    BY <1>1, <1>2, <1>5, <1>6, <2>2 DEF Layers
<1>11. LogBehind'
  BY <1>1, <1>3, <1>5, <1>8 DEF LogBehind
<1>13. CommittedUpdatesAreBacked'
  BY <1>1, <1>8, <1>9 DEF CommittedUpdatesAreBacked, Agrees
<1> QED
  BY <1>5, <1>6, <1>9, <1>10, <1>11, <1>13 DEF Tables

\* The swap: the SSTable takes the place of the MemTable
LEMMA TablesSwap ==
  ASSUME Inductive, Tables, LogTable' = LogTable, NEW w \in Writer, FlushSwap(w)
  PROVE  Tables' /\ Visible' = Visible
<1>1. /\ UNCHANGED <<ssts, db, session, committed>> /\ pc[w] = "renamed"
      /\ pc' = [pc EXCEPT ![w] = "swapped"] /\ pc \in [Writer -> WriterPc]
  BY DEF FlushSwap, Goto, Inductive, TypeRest, disk, ghosts
<1>2. db = "open" /\ \A x \in Writer : pc[x] # "logged"
  BY <1>1 DEF Inductive, Locking, Holding, WriterPc
<1>3. \A x \in Writer : pc'[x] # "logged"
  BY <1>1, <1>2
<1>4. /\ readable = [active |-> fork[w], sstables |-> snapshot[w].sstables]
      /\ ssts[flush_ts[w]] = fork[w] /\ fork[w] \in Table
      /\ snapshot[w].sstables \in Seq(Table)
  BY <1>1 DEF Inductive, Locals, TypeRest, Readable
<1>5. /\ readable.active = fork[w] /\ readable.sstables = snapshot[w].sstables
      /\ readable'.active = EmptyTable
      /\ readable'.sstables = <<fork[w]>> \o snapshot[w].sstables
  BY <1>4 DEF FlushSwap
<1>6. Visible' = Visible /\ OnDisk' = OnDisk
  BY <1>1, <1>4, <1>5, ViewFlushed DEF Visible, OnDisk
<1>7. OnDisk = Visible /\ OnDisk \in Table
  BY <1>1, TableTypes DEF Tables, Layers
<1>8. Layers'
  BY <1>1, <1>2, <1>5, <1>6, <1>7, OverlayEmpty DEF Layers
<1>9. LogBehind'
  BY <1>1, <1>2, <1>3, <1>6 DEF Tables, LogBehind
<1>11. CommittedUpdatesAreBacked'
  BY <1>1, <1>6 DEF Tables, CommittedUpdatesAreBacked, Recovered, LogTable
<1> QED
  BY <1>6, <1>8, <1>9, <1>11 DEF Tables

\* The reset of the log: everything that was in it is on disk
LEMMA TablesReset ==
  ASSUME Inductive, Tables, LogTable' = EmptyTable, NEW w \in Writer, WalReset(w)
  PROVE  Tables' /\ Visible' = Visible /\ Recovered = Visible /\ Recovered' = Visible
<1>1. /\ UNCHANGED <<ssts, readable, db, session, committed>> /\ pc[w] = "swapped"
      /\ pc' = [pc EXCEPT ![w] = "idle"] /\ pc \in [Writer -> WriterPc]
  BY DEF WalReset, Release, Goto, Inductive, TypeRest
<1>2. db = "open" /\ \A x \in Writer : pc[x] # "logged"
  BY <1>1 DEF Inductive, Locking, Holding, WriterPc
<1>3. \A x \in Writer : /\ pc'[x] # "logged"
                        /\ pc'[x] \in {"renamed", "swapped"} => pc[x] \in {"renamed", "swapped"}
  BY <1>1, <1>2
<1>4. Visible' = Visible /\ OnDisk' = OnDisk /\ OnDisk = Visible
  BY <1>1 DEF Visible, OnDisk, Tables, Layers
<1>5. OnDisk \in Table /\ LogTable \in Table /\ Visible \in Table
  BY TableTypes
<1>6. Agrees(LogTable, Visible) /\ Agrees(session, Visible)
  BY <1>2 DEF Tables, LogBehind
<1>7. Recovered = Visible /\ Recovered' = Visible
  BY <1>4, <1>5, <1>6, OverlayAgrees, OverlayEmpty DEF Recovered, LogTable
<1>8. Layers'
  BY <1>1, <1>2, <1>3, <1>4 DEF Tables, Layers
<1>9. LogBehind'
  BY <1>1, <1>3, <1>4, <1>6 DEF LogBehind, Agrees, EmptyTable
<1>11. CommittedUpdatesAreBacked'
  BY <1>1, <1>6, <1>7 DEF CommittedUpdatesAreBacked, Agrees
<1> QED
  BY <1>4, <1>7, <1>8, <1>9, <1>11 DEF Tables

\* Db::open up to the new log: what is visible is what was recovered
LEMMA TablesLoad ==
  ASSUME Inductive, Tables, LogTable' = LogTable, OpenLoad
  PROVE  Tables' /\ Visible' = Recovered
<1>1. /\ UNCHANGED <<wal, ssts, session, committed, pc>> /\ db = "closed" /\ db' = "loaded"
  BY DEF OpenLoad, ghosts
<1>2. \A x \in Writer : pc'[x] = "idle"
  BY <1>1 DEF Inductive, Locking
<1>3. Visible' = Overlay(LogTable, OnDisk) /\ readable'.active = LogTable /\ OnDisk' = OnDisk
  BY <1>1, LoadView DEF Inductive, OnDisk
<1>4. Layers' /\ LogBehind'
  BY <1>1, <1>2, <1>3 DEF Layers, LogBehind
<1>6. CommittedUpdatesAreBacked'
  BY <1>1, <1>3 DEF Tables, CommittedUpdatesAreBacked, Recovered, LogTable
<1> QED
  BY <1>3, <1>4, <1>6 DEF Tables, Recovered, LogTable

\* Db::open, the new log: the session begins with nothing in it
LEMMA TablesCreate ==
  ASSUME Inductive, Tables, LogTable' = EmptyTable, OpenCreate
  PROVE  Tables' /\ Visible' = Visible /\ OnDisk' = OnDisk
<1>1. /\ UNCHANGED <<ssts, readable, committed, pc>> /\ db = "loaded" /\ db' = "open"
      /\ session' = EmptyTable
  BY DEF OpenCreate
<1>2. \A x \in Writer : pc'[x] = "idle"
  BY <1>1 DEF Inductive, Locking
<1>3. Visible' = Visible /\ OnDisk' = OnDisk
  BY <1>1 DEF Visible, OnDisk
<1>4. Layers'
  BY <1>1, <1>2, <1>3 DEF Tables, Layers
<1>5. LogBehind' /\ CommittedUpdatesAreBacked'
  BY <1>1, <1>2 DEF LogBehind, Agrees, EmptyTable, CommittedUpdatesAreBacked
<1> QED
  BY <1>3, <1>4, <1>5 DEF Tables

-----------------------------------------------------------------------------
(* Recovery *)

\* As long as no write to the log has failed and no restart was stale, the log is
\* sound and the tables are related as they should be
Recovery ==
  tally["walErrors"] = 0 /\ tally["staleRestarts"] = 0 => LogSound /\ Tables

\* Every step keeps Recovery.  The steps that fail to write the log are not
\* among the cases that need an argument: they count an error
LEMMA RecoveryStep ==
  ASSUME Inductive, TypeRest', NewestIsOnTop, Recovery, [Next]_vars
  PROVE  Recovery'
<1> SUFFICES ASSUME tally'["walErrors"] = 0, tally'["staleRestarts"] = 0
             PROVE  LogSound' /\ Tables'
  BY DEF Recovery
<1> DEFINE Goal == LogSound' /\ Tables'
<1>a. /\ tally["walErrors"] = 0 /\ tally["staleRestarts"] = 0
      /\ LogSound /\ Tables /\ TypeRest
  BY CountsGrow DEF Recovery, Inductive, Counted
<1>b. /\ pc \in [Writer -> WriterPc] /\ tally["walErrors"] \in Nat
      /\ tally \in [Counted -> Nat] /\ writes \in [Writer -> Table]
  BY <1>a DEF TypeRest, Counted
<1> USE <1>a, <1>b DEF WriterPc, Goto, disk, memory, time, ghosts
\* A step that counts a failure of the log
<1>c. ASSUME Count("walErrors") PROVE FALSE
  BY <1>c DEF Count, Counted
<1>1. ASSUME NEW w \in Writer, Begin(w) PROVE Goal
  BY <1>1, LogUntouched, TablesSame DEF Begin
<1>2. ASSUME NEW w \in Writer, Lock(w) PROVE Goal
  BY <1>2, LogUntouched, TablesSame DEF Lock
<1>3. ASSUME NEW w \in Writer, Load(w) PROVE Goal
  <2>1. LogSound' /\ LogTable' = LogTable
    BY <1>3, LoadLog
  <2> QED
    BY <1>3, <2>1, TablesSame DEF Load
<1>4. ASSUME NEW w \in Writer, NEW k \in Key, NEW v \in Value, Insert(w, k, v)
      PROVE  Goal
  <2>1. LogSound' /\ LogTable' = LogTable
    BY <1>4, InsertLog
  <2> QED
    BY <1>4, <2>1, TablesSame DEF Insert
<1>5. ASSUME NEW w \in Writer, NEW k \in Key, NEW v \in Value, InsertFails(w, k, v)
      PROVE  Goal
  BY <1>5, <1>c DEF InsertFails
<1>6. ASSUME NEW w \in Writer, WriteCommit(w) PROVE Goal
  BY <1>6, WriteCommitLog, TablesWriteCommit
<1>7. ASSUME NEW w \in Writer, CommitFails(w) PROVE Goal
  BY <1>7, <1>c DEF CommitFails
<1>8. ASSUME NEW w \in Writer, Publish(w) PROVE Goal
  <2>1. LogSound' /\ LogTable' = LogTable
    BY <1>8, LogUntouched DEF Publish, Release
  <2> QED
    BY <1>8, <2>1, TablesPublish
<1>9. ASSUME NEW w \in Writer, Abort(w) PROVE Goal
  <2>1. LogSound' /\ LogTable' = LogTable
    BY <1>9, AbortLog
  <2> QED
    BY <1>9, <2>1, TablesSame DEF Abort, Release
<1>10. ASSUME NEW w \in Writer, AbortFails(w) PROVE Goal
  BY <1>10, <1>c DEF AbortFails
<1>11. ASSUME NEW w \in Writer, FlushWrite(w) PROVE Goal
  BY <1>11, LogUntouched, TablesSame DEF FlushWrite
<1>12. ASSUME NEW w \in Writer, FlushRename(w) PROVE Goal
  <2>1. LogSound' /\ LogTable' = LogTable
    BY <1>12, LogUntouched DEF FlushRename
  <2> QED
    BY <1>12, <2>1, TablesRename
<1>13. ASSUME NEW w \in Writer, FlushSwap(w) PROVE Goal
  <2>1. LogSound' /\ LogTable' = LogTable
    BY <1>13, LogUntouched DEF FlushSwap
  <2> QED
    BY <1>13, <2>1, TablesSwap
<1>14. ASSUME NEW w \in Writer, WalReset(w) PROVE Goal
  <2>1. wal' = create /\ \A x \in Writer : pc'[x] # "running"
    BY <1>14, EmptyLogs DEF WalReset, Release, Inductive, Locking, Holding
  <2>2. LogSound' /\ LogTable' = EmptyTable
    BY <2>1, EmptiedLog
  <2> QED
    BY <1>14, <2>2, TablesReset
<1>15. ASSUME NEW w \in Writer, FlushFails(w) PROVE Goal
  <2>1. LogSound' /\ LogTable' = LogTable
    BY <1>15, LogUntouched DEF FlushFails, Release
  <2> QED
    BY <1>15, <2>1, TablesSame DEF FlushFails, Release
<1>16. ASSUME NEW r \in Reader, BeginReadonly(r) PROVE Goal
  BY <1>16, LogUntouched, TablesSame DEF BeginReadonly
<1>17. ASSUME NEW r \in Reader, EndReadonly(r) PROVE Goal
  BY <1>17, LogUntouched, TablesSame DEF EndReadonly
<1>18. CASE OpenLoad
  <2>1. LogSound' /\ LogTable' = LogTable
    BY <1>18, LogUntouched DEF OpenLoad
  <2> QED
    BY <1>18, <2>1, TablesLoad
<1>19. CASE OpenFails
  <2>1. LogSound' /\ LogTable' = LogTable
    BY <1>19, LogUntouched DEF OpenFails
  <2>2. \A x \in Writer : pc'[x] = "idle"
    BY <1>19 DEF OpenFails, Inductive, Locking
  <2> QED
    BY <1>19, <2>1, <2>2, TablesStop DEF OpenFails
<1>20. CASE OpenCreate
  <2>1. wal' = create /\ \A x \in Writer : pc'[x] # "running"
    BY <1>20 DEF OpenCreate, Inductive, Locking
  <2>2. LogSound' /\ LogTable' = EmptyTable
    BY <2>1, EmptiedLog
  <2> QED
    BY <1>20, <2>2, TablesCreate
<1>21. CASE Close
  <2>1. LogSound' /\ LogTable' = LogTable
    BY <1>21, LogUntouched DEF Close
  <2> QED
    BY <1>21, <2>1, TablesStop DEF Close
<1>22. CASE Crash
  <2>1. LogSound' /\ LogTable' = LogTable
    BY <1>22, CrashLog DEF Crash
  <2> QED
    BY <1>22, <2>1, TablesStop DEF Crash, Dies
<1>25. CASE CrashStale
  BY <1>25 DEF CrashStale, Count, Counted
<1>23. CASE Tick
  BY <1>23, LogUntouched, TablesSame DEF Tick
<1>24. CASE UNCHANGED vars
  BY <1>24, LogUntouched, TablesSame DEF vars
<1> QED
  BY <1>1, <1>2, <1>3, <1>4, <1>5, <1>6, <1>7, <1>8, <1>9, <1>10, <1>11, <1>12,
     <1>13, <1>14, <1>15, <1>16, <1>17, <1>18, <1>19, <1>20, <1>21, <1>22, <1>23, <1>24, <1>25
  DEF Next, Inserts, Proceed, Open

\* A database directory that was never opened is in order
LEMMA RecoveryInit == Init => Recovery
<1> SUFFICES ASSUME Init PROVE LogSound /\ Tables
  BY DEF Recovery
<1>1. /\ wal = create /\ ssts = <<>> /\ db = "closed" /\ readable = EmptyReadable
      /\ \A w \in Writer : pc[w] = "idle"
      /\ session = EmptyTable /\ committed = [k \in Key |-> {}]
  BY DEF Init
<1>2. LogSound /\ LogTable = EmptyTable
  BY <1>1, CreateReplays DEF LogSound, LogTable
<1>3. Visible = EmptyTable /\ OnDisk = EmptyTable
  <2>1. DOMAIN <<>> = {}
    OBVIOUS
  <2> QED
    BY <1>1, <2>1, ViewEmpty DEF Visible, EmptyReadable, OnDisk, Merged, EmptyTable
<1>4. Layers /\ LogBehind
  BY <1>1 DEF Layers, LogBehind
<1>5. CommittedUpdatesAreBacked
  BY <1>1, <1>2, <1>3 DEF EmptyTable, CommittedUpdatesAreBacked
<1> QED
  BY <1>2, <1>4, <1>5 DEF Tables

\* Recovery holds in every state
LEMMA StoreRecovery == Spec => []Recovery
<1>1. Inductive /\ Inductive' /\ NewestIsOnTop /\ Recovery /\ [Next]_vars => Recovery'
  BY RecoveryStep DEF Inductive
<1> QED
  BY <1>1, RecoveryInit, StoreInductive, StoreNewestIsOnTop, PTL DEF Spec

\* Everything committed since the log was created survives a crash at any point:
\* between the commit record and its publication, in a flush, between the rename
\* of the SSTable and the reset of the log, in a write of another transaction;
\* as long as no write of the log fails and no restart is stale
THEOREM StoreSessionSurvives == Spec => []SessionSurvives
<1>1. Recovery => SessionSurvives
  BY DEF Recovery, Tables, SessionSurvives
<1> QED
  BY <1>1, StoreRecovery, PTL

-----------------------------------------------------------------------------
(* Only what was committed *)

\* Every entry of t was committed at some time
Within(t) == \A k \in Key : t[k] \in committed[k] \cup {None}

\* Nothing but committed values is in the MemTable, in an SSTable, open or on disk
\* and whatever its name, or in the part of the log that is replayed
OnlyCommitted ==
  /\ Within(readable.active)
  /\ \A i \in DOMAIN readable.sstables : Within(readable.sstables[i])
  /\ \A ts \in DOMAIN ssts : Within(ssts[ts])
  /\ Within(LogTable)
  /\ \A w \in Writer : pc[w] = "logged" => Within(writes[w])

Committed == tally["walErrors"] = 0 => LogSound /\ OnlyCommitted

\* Steps that move none of the tables
LEMMA CommittedSame ==
  ASSUME OnlyCommitted, LogTable' = LogTable, UNCHANGED <<ssts, readable, committed>>,
         \A x \in Writer : pc'[x] = "logged" => pc[x] = "logged" /\ writes'[x] = writes[x]
  PROVE  OnlyCommitted'
BY DEF OnlyCommitted, Within

\* The process stops
LEMMA CommittedStop ==
  ASSUME OnlyCommitted, LogTable' = LogTable, UNCHANGED <<ssts, committed>>,
         readable' = EmptyReadable, \A x \in Writer : pc'[x] = "idle"
  PROVE  OnlyCommitted'
<1>1. readable'.active = EmptyTable /\ DOMAIN readable'.sstables = {}
  BY DEF EmptyReadable
<1> QED
  BY <1>1 DEF OnlyCommitted, Within, EmptyTable

\* The log is emptied
LEMMA CommittedEmptied ==
  ASSUME OnlyCommitted, LogTable' = EmptyTable, UNCHANGED <<ssts, readable, committed>>,
         \A x \in Writer : pc'[x] # "logged"
  PROVE  OnlyCommitted'
BY DEF OnlyCommitted, Within, EmptyTable

\* The commit record commits the inserts of its transaction
LEMMA CommittedWriteCommit ==
  ASSUME Inductive, LogSound, OnlyCommitted, NEW w \in Writer, WriteCommit(w)
  PROVE  OnlyCommitted'
<1>1. LogTable' = Overlay(writes[w], LogTable)
  BY WriteCommitLog
<1>2. /\ UNCHANGED <<ssts, readable, writes>> /\ pc[w] = "running"
      /\ pc' = [pc EXCEPT ![w] = "logged"] /\ pc \in [Writer -> WriterPc]
      /\ committed' = [k \in Key |-> committed[k] \cup ({writes[w][k]} \ {None})]
  BY DEF WriteCommit, Goto, Inductive, TypeRest
<1>3. \A x \in Writer : pc'[x] = "logged" => x = w
  BY <1>2 DEF Inductive, Locking, Holding, WriterPc
<1>4. \A k \in Key : writes[w][k] \in committed'[k] \cup {None} /\ committed[k] \subseteq committed'[k]
  BY <1>2
<1>5. Within(writes[w])' /\ Within(LogTable)'
  BY <1>1, <1>2, <1>4 DEF OnlyCommitted, Within, Overlay
<1>6. ASSUME NEW t, Within(t) PROVE \A k \in Key : t[k] \in committed'[k] \cup {None}
  BY <1>4, <1>6 DEF Within
<1>7. /\ Within(readable.active)'
      /\ \A i \in DOMAIN readable'.sstables : Within(readable.sstables[i])'
      /\ \A ts \in DOMAIN ssts' : Within(ssts[ts])'
  BY <1>2, <1>6 DEF OnlyCommitted, Within
<1> QED
  BY <1>2, <1>3, <1>5, <1>7 DEF OnlyCommitted, Within

\* Publishing
LEMMA CommittedPublish ==
  ASSUME Inductive, OnlyCommitted, LogTable' = LogTable, NEW w \in Writer, Publish(w)
  PROVE  OnlyCommitted'
<1>1. /\ UNCHANGED <<ssts, committed>> /\ pc[w] = "logged"
      /\ readable' = [active |-> fork[w], sstables |-> snapshot[w].sstables]
      /\ pc' \in {[pc EXCEPT ![w] = "idle"], [pc EXCEPT ![w] = "flushing"]}
      /\ pc \in [Writer -> WriterPc]
  BY DEF Publish, Release, Goto, Inductive, TypeRest, disk
<1>2. \A x \in Writer : pc'[x] # "logged"
  BY <1>1 DEF Inductive, Locking, Holding, WriterPc
<1>3. snapshot[w] = readable /\ fork[w] = Overlay(writes[w], readable.active)
  BY <1>1 DEF Inductive, Locals
<1>4. /\ readable'.active = Overlay(writes[w], readable.active)
      /\ readable'.sstables = readable.sstables
  BY <1>1, <1>3
<1>5. Within(readable.active)'
  BY <1>1, <1>4 DEF OnlyCommitted, Within, Overlay
<1> QED
  BY <1>1, <1>2, <1>4, <1>5 DEF OnlyCommitted, Within

\* The rename, which may replace a file of the same name
LEMMA CommittedRename ==
  ASSUME Inductive, OnlyCommitted, LogTable' = LogTable, NEW w \in Writer, FlushRename(w)
  PROVE  OnlyCommitted'
<1>1. /\ UNCHANGED <<readable, committed>> /\ pc[w] = "written"
      /\ pc' = [pc EXCEPT ![w] = "renamed"] /\ pc \in [Writer -> WriterPc]
      /\ DOMAIN ssts' = DOMAIN ssts \cup {flush_ts[w]}
      /\ \A ts \in DOMAIN ssts' : ssts'[ts] = fork[w] \/ (ts \in DOMAIN ssts /\ ssts'[ts] = ssts[ts])
  BY DEF FlushRename, Goto, Inductive, TypeRest
<1>2. \A x \in Writer : pc'[x] # "logged"
  BY <1>1 DEF Inductive, Locking, Holding, WriterPc
<1>3. readable.active = fork[w]
  BY <1>1 DEF Inductive, Locals
<1>4. \A ts \in DOMAIN ssts' : Within(ssts[ts])'
  BY <1>1, <1>3 DEF OnlyCommitted, Within
<1> QED
  BY <1>1, <1>2, <1>4 DEF OnlyCommitted, Within

\* The swap
LEMMA CommittedSwap ==
  ASSUME Inductive, OnlyCommitted, LogTable' = LogTable, NEW w \in Writer, FlushSwap(w)
  PROVE  OnlyCommitted'
<1>1. /\ UNCHANGED <<ssts, committed>> /\ pc[w] = "renamed"
      /\ pc' = [pc EXCEPT ![w] = "swapped"] /\ pc \in [Writer -> WriterPc]
  BY DEF FlushSwap, Goto, Inductive, TypeRest, disk, ghosts
<1>2. \A x \in Writer : pc'[x] # "logged"
  BY <1>1 DEF Inductive, Locking, Holding, WriterPc
<1>3. /\ readable.active = fork[w] /\ readable.sstables = snapshot[w].sstables
      /\ ssts[flush_ts[w]] = fork[w] /\ fork[w] \in Table
      /\ snapshot[w].sstables \in Seq(Table)
  BY <1>1 DEF Inductive, Locals, TypeRest, Readable
<1>4. /\ readable'.active = EmptyTable
      /\ readable'.sstables = <<fork[w]>> \o readable.sstables
  BY <1>3 DEF FlushSwap
<1>5. \A i \in DOMAIN readable'.sstables :
        \/ readable'.sstables[i] = fork[w]
        \/ \E j \in DOMAIN readable.sstables : readable'.sstables[i] = readable.sstables[j]
  BY <1>3, <1>4
<1>6. \A i \in DOMAIN readable'.sstables : Within(readable.sstables[i])'
  BY <1>1, <1>3, <1>5 DEF OnlyCommitted, Within
<1>7. Within(readable.active)'
  BY <1>4 DEF Within, EmptyTable
<1> QED
  BY <1>1, <1>2, <1>6, <1>7 DEF OnlyCommitted, Within

\* Db::open up to the new log
LEMMA CommittedLoad ==
  ASSUME Inductive, OnlyCommitted, LogTable' = LogTable, OpenLoad
  PROVE  OnlyCommitted'
<1>1. UNCHANGED <<ssts, committed, pc>> /\ db = "closed"
  BY DEF OpenLoad, ghosts
<1>2. \A x \in Writer : pc'[x] # "logged"
  BY <1>1 DEF Inductive, Locking
<1>3. PICK order \in [1..Cardinality(DOMAIN ssts) -> DOMAIN ssts] :
        readable' = [active |-> Replayed(wal.file),
                     sstables |-> [i \in DOMAIN order |-> ssts[order[i]]]]
  BY DEF OpenLoad
<1>4. /\ readable'.active = LogTable
      /\ \A i \in DOMAIN readable'.sstables :
           \E ts \in DOMAIN ssts : readable'.sstables[i] = ssts[ts]
  BY <1>3 DEF LogTable
<1> QED
  BY <1>1, <1>2, <1>4 DEF OnlyCommitted, Within

\* Every step keeps Committed, a stale restart too
LEMMA CommittedStep ==
  ASSUME Inductive, Committed, [Next]_vars
  PROVE  Committed'
<1> SUFFICES ASSUME tally'["walErrors"] = 0 PROVE LogSound' /\ OnlyCommitted'
  BY DEF Committed
<1> DEFINE Goal == LogSound' /\ OnlyCommitted'
<1>a. tally["walErrors"] = 0 /\ LogSound /\ OnlyCommitted /\ TypeRest
  BY CountsGrow DEF Committed, Inductive, Counted
<1>b. /\ pc \in [Writer -> WriterPc] /\ tally["walErrors"] \in Nat
      /\ tally \in [Counted -> Nat] /\ writes \in [Writer -> Table]
  BY <1>a DEF TypeRest, Counted
<1> USE <1>a, <1>b DEF WriterPc, Goto, disk, memory, time, ghosts
<1>c. ASSUME Count("walErrors") PROVE FALSE
  BY <1>c DEF Count, Counted
<1>1. ASSUME NEW w \in Writer, Begin(w) PROVE Goal
  BY <1>1, LogUntouched, CommittedSame DEF Begin
<1>2. ASSUME NEW w \in Writer, Lock(w) PROVE Goal
  BY <1>2, LogUntouched, CommittedSame DEF Lock
<1>3. ASSUME NEW w \in Writer, Load(w) PROVE Goal
  <2>1. LogSound' /\ LogTable' = LogTable
    BY <1>3, LoadLog
  <2> QED
    BY <1>3, <2>1, CommittedSame DEF Load
<1>4. ASSUME NEW w \in Writer, NEW k \in Key, NEW v \in Value, Insert(w, k, v)
      PROVE  Goal
  <2>1. LogSound' /\ LogTable' = LogTable
    BY <1>4, InsertLog
  <2> QED
    BY <1>4, <2>1, CommittedSame DEF Insert
<1>5. ASSUME NEW w \in Writer, NEW k \in Key, NEW v \in Value, InsertFails(w, k, v)
      PROVE  Goal
  BY <1>5, <1>c DEF InsertFails
<1>6. ASSUME NEW w \in Writer, WriteCommit(w) PROVE Goal
  BY <1>6, WriteCommitLog, CommittedWriteCommit
<1>7. ASSUME NEW w \in Writer, CommitFails(w) PROVE Goal
  BY <1>7, <1>c DEF CommitFails
<1>8. ASSUME NEW w \in Writer, Publish(w) PROVE Goal
  <2>1. LogSound' /\ LogTable' = LogTable
    BY <1>8, LogUntouched DEF Publish, Release
  <2> QED
    BY <1>8, <2>1, CommittedPublish
<1>9. ASSUME NEW w \in Writer, Abort(w) PROVE Goal
  <2>1. LogSound' /\ LogTable' = LogTable
    BY <1>9, AbortLog
  <2> QED
    BY <1>9, <2>1, CommittedSame DEF Abort, Release
<1>10. ASSUME NEW w \in Writer, AbortFails(w) PROVE Goal
  BY <1>10, <1>c DEF AbortFails
<1>11. ASSUME NEW w \in Writer, FlushWrite(w) PROVE Goal
  BY <1>11, LogUntouched, CommittedSame DEF FlushWrite
<1>12. ASSUME NEW w \in Writer, FlushRename(w) PROVE Goal
  <2>1. LogSound' /\ LogTable' = LogTable
    BY <1>12, LogUntouched DEF FlushRename
  <2> QED
    BY <1>12, <2>1, CommittedRename
<1>13. ASSUME NEW w \in Writer, FlushSwap(w) PROVE Goal
  <2>1. LogSound' /\ LogTable' = LogTable
    BY <1>13, LogUntouched DEF FlushSwap
  <2> QED
    BY <1>13, <2>1, CommittedSwap
<1>14. ASSUME NEW w \in Writer, WalReset(w) PROVE Goal
  <2>1. wal' = create /\ \A x \in Writer : pc'[x] \notin {"running", "logged"}
    BY <1>14, EmptyLogs DEF WalReset, Release, Inductive, Locking, Holding
  <2>2. LogSound' /\ LogTable' = EmptyTable
    BY <2>1, EmptiedLog
  <2> QED
    BY <1>14, <2>1, <2>2, CommittedEmptied DEF WalReset
<1>15. ASSUME NEW w \in Writer, FlushFails(w) PROVE Goal
  <2>1. LogSound' /\ LogTable' = LogTable
    BY <1>15, LogUntouched DEF FlushFails, Release
  <2> QED
    BY <1>15, <2>1, CommittedSame DEF FlushFails, Release
<1>16. ASSUME NEW r \in Reader, BeginReadonly(r) PROVE Goal
  BY <1>16, LogUntouched, CommittedSame DEF BeginReadonly
<1>17. ASSUME NEW r \in Reader, EndReadonly(r) PROVE Goal
  BY <1>17, LogUntouched, CommittedSame DEF EndReadonly
<1>18. CASE OpenLoad
  <2>1. LogSound' /\ LogTable' = LogTable
    BY <1>18, LogUntouched DEF OpenLoad
  <2> QED
    BY <1>18, <2>1, CommittedLoad
<1>19. CASE OpenFails
  <2>1. LogSound' /\ LogTable' = LogTable
    BY <1>19, LogUntouched DEF OpenFails
  <2>2. \A x \in Writer : pc'[x] = "idle"
    BY <1>19 DEF OpenFails, Inductive, Locking
  <2> QED
    BY <1>19, <2>1, <2>2, CommittedStop DEF OpenFails
<1>20. CASE OpenCreate
  <2>1. wal' = create /\ \A x \in Writer : pc'[x] \notin {"running", "logged"}
    BY <1>20 DEF OpenCreate, Inductive, Locking
  <2>2. LogSound' /\ LogTable' = EmptyTable
    BY <2>1, EmptiedLog
  <2> QED
    BY <1>20, <2>1, <2>2, CommittedEmptied DEF OpenCreate
<1>21. CASE Close
  <2>1. LogSound' /\ LogTable' = LogTable
    BY <1>21, LogUntouched DEF Close
  <2> QED
    BY <1>21, <2>1, CommittedStop DEF Close
<1>22. CASE Crash \/ CrashStale
  <2>1. Dies
    BY <1>22 DEF Crash, CrashStale
  <2>2. LogSound' /\ LogTable' = LogTable
    BY <2>1, CrashLog
  <2> QED
    BY <2>1, <2>2, CommittedStop DEF Dies
<1>23. CASE Tick
  BY <1>23, LogUntouched, CommittedSame DEF Tick
<1>24. CASE UNCHANGED vars
  BY <1>24, LogUntouched, CommittedSame DEF vars
<1> QED
  BY <1>1, <1>2, <1>3, <1>4, <1>5, <1>6, <1>7, <1>8, <1>9, <1>10, <1>11, <1>12,
     <1>13, <1>14, <1>15, <1>16, <1>17, <1>18, <1>19, <1>20, <1>21, <1>22, <1>23, <1>24
  DEF Next, Inserts, Proceed, Open

\* A database directory that was never opened holds nothing
LEMMA CommittedInit == Init => Committed
<1> SUFFICES ASSUME Init PROVE LogSound /\ OnlyCommitted
  BY DEF Committed
<1>1. /\ wal = create /\ ssts = <<>> /\ db = "closed" /\ readable = EmptyReadable
      /\ \A w \in Writer : pc[w] = "idle"
  BY DEF Init
<1>2. LogSound /\ LogTable = EmptyTable
  BY <1>1, CreateReplays DEF LogSound, LogTable
<1>3. /\ DOMAIN ssts = {} /\ readable.active = EmptyTable
      /\ DOMAIN readable.sstables = {}
  BY <1>1 DEF EmptyReadable
<1> QED
  BY <1>1, <1>2, <1>3 DEF OnlyCommitted, Within, EmptyTable

\* What the SSTables on disk say together, one of them says
LEMMA MergedWithin ==
  ASSUME Inductive, OnlyCommitted
  PROVE  Within(OnDisk)
<1>1. Files(ssts)
  BY DEF Inductive, TypeRest, Files
<1>2. ASSUME NEW k \in Key PROVE OnDisk[k] \in committed[k] \cup {None}
  <2>1. CASE \E ts \in DOMAIN ssts : NewestWith(ssts, k, ts)
    <3>1. PICK ts \in DOMAIN ssts : NewestWith(ssts, k, ts)
      BY <2>1
    <3>2. OnDisk[k] = ssts[ts][k]
      BY <1>1, <3>1, MergedAt DEF OnDisk
    <3> QED
      BY <3>2 DEF OnlyCommitted, Within
  <2>2. CASE ~\E ts \in DOMAIN ssts : NewestWith(ssts, k, ts)
    BY <1>1, <2>2, MergedAt DEF OnDisk
  <2> QED
    BY <2>1, <2>2
<1> QED
  BY <1>2 DEF Within

\* No restart brings back what an unfinished or aborted transaction wrote, not
\* even one in a clock window that was used before, after which SSTables are
\* replaced or sort in the wrong order
THEOREM StoreRecoversOnlyCommitted == Spec => []RecoversOnlyCommitted
<1>1. Inductive /\ Committed => RecoversOnlyCommitted
  BY MergedWithin DEF Committed, OnlyCommitted, Within, LogTable, Recovered, Overlay,
         RecoversOnlyCommitted, ReplaysOnlyCommitted
<1>2. Inductive /\ Committed /\ [Next]_vars => Committed'
  BY CommittedStep
<1> QED
  BY <1>1, <1>2, CommittedInit, StoreInductive, PTL DEF Spec

=============================================================================
