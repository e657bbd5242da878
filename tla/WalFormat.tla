----------------------------- MODULE WalFormat -----------------------------
(***************************************************************************)
(* The bytes of the write-ahead log (src/wal/mod.rs), beside the log of    *)
(* whole records that module WriteAheadLog keeps and module Store uses:    *)
(* both take the same calls, and replaying the bytes is compared with      *)
(* replaying the records.                                                  *)
(*                                                                         *)
(* The file is a sequence of cells.  A length, a byte of a key or value    *)
(* and a timestamp are a cell <<number>>; a CRC is a cell <<"crc", cells>> *)
(* of all that was hashed.  So a CRC never collides, and no data looks     *)
(* like one.  As a number it, like uninitialised memory, may be anything.  *)
(***************************************************************************)
EXTENDS WriteAheadLog

CONSTANTS Half,         \* COMMIT_BIT, 2^15: lengths are taken modulo 2 * Half
          Time,         \* timestamps of commits
          Entry,        \* pairs <<key, value>> that are written
          MaxRecords,   \* bound: records in the file, torn ones too
          MaxTorn       \* bound: torn ones

ASSUME HalfAssumption == Half \in Nat \ {0, 1}
ASSUME CellsAssumption == Key \subseteq Seq(Nat) /\ Value \subseteq Seq(Nat) /\ Time \subseteq Nat
ASSUME EntryAssumption == Entry \subseteq Key \X Value
ASSUME MaxRecordsAssumption == MaxRecords \in Nat /\ MaxTorn \in Nat

VARIABLES
  wal,    \* the fields of WriteAheadLog: file, last_commit_pos, rolling_crc
  log,    \* the same calls in module WriteAheadLog
  ends    \* where in the file each record of log, torn ones too, ends

vars == <<wal, log, ends>>

U16 == 0..(2 * Half - 1)

Cells(bytes) == [i \in DOMAIN bytes |-> <<bytes[i]>>]

\* A commit record without an update has an empty key and value
OrEmpty(bytes) == IF bytes = None THEN <<>> ELSE bytes

\* What write_record hashes, and writes between the lengths and the CRC
Body(key, value, commit) ==
  Cells(OrEmpty(key)) \o Cells(OrEmpty(value)) \o (IF commit = None THEN <<>> ELSE <<<<commit>>>>)

\* key.len() as u16, then `|= COMMIT_BIT`
KeyLen(key, commit) ==
  LET len == Len(OrEmpty(key)) % (2 * Half)
  IN  IF commit # None /\ len < Half THEN len + Half ELSE len

\* All cells of a record
Encoded(crc, key, value, commit) ==
  <<<<KeyLen(key, commit)>>, <<Len(OrEmpty(value)) % (2 * Half)>>>>
    \o Body(key, value, commit)
    \o <<<<"crc", crc \o Body(key, value, commit)>>>>

-----------------------------------------------------------------------------
Init == wal = create /\ log = create /\ ends = <<>>

\* write_record and write_commit
Write(key, value, commit) ==
  LET file == wal.file \o Encoded(wal.rolling_crc, key, value, commit)
  IN  /\ Len(ends) < MaxRecords
      /\ wal' = [file |-> file,
                 last_commit_pos |-> IF commit = None THEN wal.last_commit_pos ELSE Len(file),
                 rolling_crc |-> IF commit = None THEN wal.rolling_crc \o Body(key, value, commit)
                                 ELSE <<>>]
      /\ log' = write_record(log, key, value, commit)
      /\ ends' = Append(ends, Len(file))

\* write_record fails after n cells; only a failure to write the CRC comes
\* after rolling_crc has moved
WriteFails(key, value, commit, n) ==
  LET cells == Encoded(wal.rolling_crc, key, value, commit)
      hashed == n = Len(cells) - 1
      torn == [log EXCEPT !.file = Append(@, Torn)]
  IN  /\ Len(ends) < MaxRecords
      /\ Cardinality({i \in DOMAIN log.file : log.file[i] = Torn}) < MaxTorn
      /\ n \in 1..(Len(cells) - 1)
      /\ wal' = [wal EXCEPT !.file = @ \o SubSeq(cells, 1, n),
                            !.rolling_crc = IF hashed THEN @ \o Body(key, value, commit) ELSE @]
      /\ log' = IF hashed THEN [torn EXCEPT !.rolling_crc = NewRecord(log, key, value, commit).crc]
                ELSE torn
      /\ ends' = Append(ends, Len(wal'.file))

\* truncate_to_last_commit
Truncate ==
  /\ wal' = [wal EXCEPT !.file = SubSeq(@, 1, wal.last_commit_pos), !.rolling_crc = <<>>]
  /\ log' = truncate_to_last_commit(log)
  /\ ends' = SubSeq(ends, 1, log.last_commit_pos)

\* A reset that forgets the position of the last commit
MutantResetKeepsPosition ==
  /\ wal' = [wal EXCEPT !.file = <<>>, !.rolling_crc = <<>>]
  /\ log' = reset(log)
  /\ ends' = <<>>

\* reset, and create after a restart
Reset == wal' = create /\ log' = reset(log) /\ ends' = <<>>

Next ==
  \/ \E e \in Entry, commit \in Time \cup {None} :
       \/ Write(e[1], e[2], commit)
       \/ \E n \in 1..(Len(e[1]) + Len(e[2]) + 3) : WriteFails(e[1], e[2], commit, n)
  \/ \E commit \in Time : \/ Write(None, None, commit)
                          \/ \E n \in 1..3 : WriteFails(None, None, commit, n)
  \/ Truncate \/ Reset

Spec == Init /\ [][Next]_vars

-----------------------------------------------------------------------------
(* replay *)

\* Cells i to j, as far as the file has them: read_exact fails if some are not
\* there, and then the cell of the CRC is not either
Slice(file, i, j) == SubSeq(file, i, IF j < Len(file) THEN j ELSE Len(file))

\* A cell as a number; a CRC, or memory that was never written, is any
Number(cell, any) == IF Len(cell) = 1 THEN cell[1] ELSE any

\* A reader that takes the timestamp before the key, as the layout in the
\* comment of WriteAheadLog has it
MutantStampFirst(file, pos, any) ==
  LET len == Number(file[pos + 1], any)
      is_commit == len >= Half
      key_len == len % Half
      value_len == Number(file[pos + 2], any)
      start == pos + 2 + (IF is_commit THEN 1 ELSE 0)
      value_end == start + key_len + value_len
  IN  [key |-> Slice(file, start + 1, start + key_len),
       value |-> Slice(file, start + key_len + 1, value_end),
       ts |-> IF is_commit THEN Slice(file, start, start) ELSE <<>>,
       crc |-> value_end + 1]

\* One round of the loop, behind position pos: what it takes for key, value
\* and timestamp, and where for the CRC.  Without a key no value is read, and
\* the buffer for it keeps what the memory held
ReadRecord(file, pos, any) ==
  LET len == Number(file[pos + 1], any)
      is_commit == len >= Half
      key_len == len % Half
      value_len == Number(file[pos + 2], any)
      key_end == pos + 2 + key_len
      value_end == IF key_len = 0 THEN key_end ELSE key_end + value_len
      stamp_end == IF is_commit THEN value_end + 1 ELSE value_end
  IN  [key |-> Slice(file, pos + 3, key_end),
       value |-> IF key_len = 0 THEN [i \in 1..value_len |-> <<any>>]
                 ELSE Slice(file, key_end + 1, value_end),
       ts |-> Slice(file, value_end + 1, stamp_end),
       crc |-> stamp_end + 1]

\* A comparison that always succeeds
MutantUnchecked(file, r, rolling_crc) == r.crc <= Len(file)

\* The record is complete, and the CRC in the file is the one computed
Verified(file, r, rolling_crc) ==
  /\ r.crc <= Len(file)
  /\ file[r.crc] = <<"crc", rolling_crc \o r.key \o r.value \o r.ts>>

\* The loop of replay behind pos: `pending` are the records since the last
\* commit, which are dropped when it ends
RECURSIVE ReplayLoop(_, _, _, _, _)
ReplayLoop(file, pos, rolling_crc, pending, any) ==
  IF pos + 2 > Len(file) THEN <<>>
  ELSE LET r == ReadRecord(file, pos, any)
           records == Append(pending, [key |-> r.key, value |-> r.value, ts |-> r.ts])
       IN  IF ~Verified(file, r, rolling_crc) THEN <<>>
           ELSE IF r.ts = <<>>
                THEN ReplayLoop(file, r.crc, rolling_crc \o r.key \o r.value, records, any)
                ELSE records \o ReplayLoop(file, r.crc, <<>>, <<>>, any)

replay(file, any) == ReplayLoop(file, 0, <<>>, <<>>, any)

-----------------------------------------------------------------------------
TypeOK ==
  /\ wal.last_commit_pos \in 0..Len(wal.file)
  /\ Len(ends) = Len(log.file)
  /\ ends # <<>> => Last(ends) = Len(wal.file)
  /\ log \in Log

\* What the record log replays of its first n records, as cells
RecordsReplayed(n) ==
  LET file == SubSeq(log.file, 1, n)
      kept == Cardinality({i \in 1..n : Replays(file, i)})
  IN  [i \in 1..kept |->
         [key |-> Cells(OrEmpty(file[i].key)), value |-> Cells(OrEmpty(file[i].value)),
          ts |-> IF file[i].ts = None THEN <<>> ELSE <<<<file[i].ts>>>>]]

\* Records that end at or before position n of the file
RecordsBefore(n) == Cardinality({i \in DOMAIN ends : ends[i] <= n})

\* A length that 16 bits, and the commit bit, leave room for; a value has a key
Fits(record) ==
  LET key == OrEmpty(record.key) value == OrEmpty(record.value)
  IN  Len(key) < Half /\ Len(value) < 2 * Half /\ (key = <<>> => value = <<>>)

\* wal.md, crash recovery: wherever the file is cut, replaying its bytes gives
\* exactly the transactions whose commit record is before the cut, as long as
\* every length fits; module Store may treat a record as a unit
BytesReplayLikeRecords ==
  (\A i \in DOMAIN log.file : Fits(log.file[i])) =>
    \A n \in 0..Len(wal.file), any \in U16 :
      replay(SubSeq(wal.file, 1, n), any) = RecordsReplayed(RecordsBefore(n))

\* A length that does not fit is never noticed when it is written
\* (key.len() as u16), and may set the commit bit.  Even then replay returns
\* whole committed transactions from the beginning, none invented or changed;
\* what is lost starts with the transaction of that record
OverflowLosesOnlyATail ==
  \A n \in 0..Len(wal.file), any \in U16 :
    LET returned == replay(SubSeq(wal.file, 1, n), any)
    IN  /\ IsPrefix(returned, RecordsReplayed(RecordsBefore(n)))
        /\ returned # <<>> => Last(returned).ts # <<>>
        /\ \A i \in DOMAIN log.file :
             /\ log.file[i].ts # None /\ ends[i] <= n
             /\ \A j \in 1..i : Fits(log.file[j]) /\ CrcMatches(log.file, j)
             => i <= Len(returned)

=============================================================================
