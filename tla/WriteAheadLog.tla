--------------------------- MODULE WriteAheadLog ---------------------------
(***************************************************************************)
(* The write-ahead log (src/wal/mod.rs) at the level of whole records.     *)
(*                                                                         *)
(* A log is [file, last_commit_pos, rolling_crc]: the records on disk, how *)
(* many of them precede the end of the last commit record, and the CRC     *)
(* accumulated since.  The CRC is taken to be collision free: it is the    *)
(* sequence of everything hashed since it last was zero.  An update record *)
(* has ts = None, a commit record carries a timestamp and, as Db only uses *)
(* write_commit, no key or value.  Writing and set_len may fail; seek and  *)
(* stream_position on the open file do not.                                *)
(***************************************************************************)
EXTENDS LsmTree

Hashed == (Key \cup {None}) \X (Value \cup {None}) \X (Nat \cup {None})

Record == [key : Key \cup {None}, value : Value \cup {None},
           ts : Nat \cup {None}, crc : Seq(Hashed)]

Log == [file : Seq(Record), last_commit_pos : Nat, rolling_crc : Seq(Hashed)]

\* WriteAheadLog::create opens with truncate(true)
create == [file |-> <<>>, last_commit_pos |-> 0, rolling_crc |-> <<>>]

\* Bytes of a record whose write was cut short.  Nothing is hashed to the
\* empty sequence after at least one update, so its CRC never matches.
Torn == [key |-> None, value |-> None, ts |-> None, crc |-> <<>>]

\* The record write_record appends
NewRecord(wal, key, value, commit) ==
  [key |-> key, value |-> value, ts |-> commit,
   crc |-> Append(wal.rolling_crc, <<key, value, commit>>)]

\* WriteAheadLog::write_record, when every write succeeds
write_record(wal, key, value, commit) ==
  LET record == NewRecord(wal, key, value, commit)
      file   == Append(wal.file, record)
  IN  [file |-> file,
       last_commit_pos |-> IF commit = None THEN wal.last_commit_pos ELSE Len(file),
       rolling_crc |-> IF commit = None THEN record.crc ELSE <<>>]

write_commit(wal, ts) == write_record(wal, None, None, ts)

\* What a failed write_record leaves behind: nothing if its first write fails,
\* a torn record otherwise; rolling_crc has already moved if only the CRC
\* itself could not be written
FailedWrites(wal, key, value, commit) ==
  LET torn == [wal EXCEPT !.file = Append(wal.file, Torn)]
  IN  {wal, torn,
       [torn EXCEPT !.rolling_crc = NewRecord(wal, key, value, commit).crc]}

\* A truncation that forgets the rolling CRC
MutantKeepsCrc(wal) == [wal EXCEPT !.file = SubSeq(wal.file, 1, wal.last_commit_pos)]

truncate_to_last_commit(wal) ==
  [wal EXCEPT !.file = SubSeq(wal.file, 1, wal.last_commit_pos),
              !.rolling_crc = <<>>]

\* A reset that forgets the position of the last commit
MutantKeepsPosition(wal) == [wal EXCEPT !.file = <<>>, !.rolling_crc = <<>>]

reset(wal) == [file |-> <<>>, last_commit_pos |-> 0, rolling_crc |-> <<>>]

\* The rolling CRC of replay after record i - 1, hashed with record i, equals
\* the stored one; a commit record sets it back to zero
CrcMatches(file, i) ==
  file[i].crc = Append(IF i = 1 THEN <<>>
                       ELSE IF file[i - 1].ts # None THEN <<>>
                       ELSE file[i - 1].crc,
                       <<file[i].key, file[i].value, file[i].ts>>)

\* A replay that keeps what follows the last commit record
MutantReplaysTail(file, i) == \A j \in 1..i : CrcMatches(file, j)

\* WriteAheadLog::replay returns record i: it reads up to the first record that
\* is cut short or whose CRC does not match, and drops what follows the last
\* commit record it has read
Replays(file, i) ==
  \E n \in i..Len(file) : /\ file[n].ts # None
                          /\ \A j \in 1..n : CrcMatches(file, j)

\* The loop of Db::open over the replayed records: the last insert of a key
\* wins; commit-only records have no key
LastInsert(file, key, i) ==
  /\ file[i].key = key /\ Replays(file, i)
  /\ \A j \in (i + 1)..Len(file) : file[j].key # key \/ ~Replays(file, j)

Replayed(file) ==
  [k \in Key |-> IF \E i \in DOMAIN file : LastInsert(file, k, i)
                 THEN file[CHOOSE i \in DOMAIN file : LastInsert(file, k, i)].value
                 ELSE None]

=============================================================================
