------------------------------ MODULE SSTable ------------------------------
(***************************************************************************)
(* The sorted table files: SSTableWriter (src/sst/write.rs), SSTableReader *)
(* (src/sst/read.rs), and the scan of the MemTable they are flushed from   *)
(* (src/sst/memtable.rs).                                                  *)
(*                                                                         *)
(* Bytes are 0..LastByte, so that a 16-bit length is a pair of them and    *)
(* wraps at (LastByte + 1)^2.  In the file an offset is one cell, and so   *)
(* are a checksum, the timestamps of a block and the hash count.  Files    *)
(* are taken to be complete, as flush_memtable renames them only then;     *)
(* checksums are written and never verified: they are 0.                   *)
(***************************************************************************)
EXTENDS Naturals, FiniteSets, SequencesExt

CONSTANTS Key, Value,              \* byte strings
          Prefix,                  \* byte strings that are scanned for
          LastByte,                \* 0xFF
          BLOCK_SIZE, PREFIX_RESET_INTERVAL,
          BLOOM_HASH_COUNT,
          h1(_), h2(_)             \* crc32fast with two initial values

ASSUME ConstantsAssumption ==
  /\ BLOCK_SIZE \in Nat \ {0} /\ PREFIX_RESET_INTERVAL \in Nat \ {0}
  /\ BLOOM_HASH_COUNT \in Nat
  /\ \A k \in Key : h1(k) \in Nat /\ h2(k) \in Nat

VARIABLES
  file,         \* what was emitted: blocks, block index, bloom filter
  block_buf,    \* the block being built
  entries_in_block,
  prev_key,     \* the latest key of that block
  index,        \* first key and offset of each block
  added,        \* all entries <<key, value>> added: all_keys, and the values
  bloom,        \* the bits set in the filter of the finished file
  footer,       \* offsets of the sections of the finished file
  block_index,  \* the index as a reader has parsed it
  state         \* "writing", "finished", "open" in a reader

vars == <<file, block_buf, entries_in_block, prev_key, index, added, bloom, footer,
          block_index, state>>

Lower(s, t) ==
  \E i \in 1..Len(t) : /\ i <= Len(s) + 1
                       /\ \A j \in 1..(i - 1) : s[j] = t[j]
                       /\ i <= Len(s) => s[i] < t[i]

common_prefix_len(s, t) == Len(LongestCommonPrefix({s, t}))

-----------------------------------------------------------------------------
(* SSTableWriter *)

Init ==
  /\ file = <<>> /\ block_buf = <<>> /\ entries_in_block = 0 /\ prev_key = <<>>
  /\ index = <<>> /\ added = <<>> /\ bloom = {}
  /\ footer = [index_offset |-> 0, bloom_offset |-> 0]
  /\ block_index = <<>> /\ state = "writing"

Byte == 0..LastByte

\* The number of lengths that 16 bits can say
MaxLength == Cardinality(Byte) * Cardinality(Byte)

\* `n as u16`, little endian, and back
to_le_bytes(n) == <<n % Cardinality(Byte), (n \div Cardinality(Byte)) % Cardinality(Byte)>>
from_le_bytes(low, high) == low + Cardinality(Byte) * high

\* An entry that shares its first bytes with the key before it
Encoded(shared, key, value) ==
  to_le_bytes(shared) \o to_le_bytes(Len(key) - shared) \o to_le_bytes(Len(value))
    \o SubSeq(key, shared + 1, Len(key)) \o value

\* finish_block and emit: the block and its checksum
Finished(block) == IF block = <<>> THEN <<>> ELSE Append(block, 0)

\* SSTableWriter::add.  A block that has reached BLOCK_SIZE is finished first;
\* the first entry of a block goes to the index; every PREFIX_RESET_INTERVAL
\* entries nothing is shared.  flush_memtable (src/db.rs) adds the entries of
\* a BTreeMap in its order, each key once
add(key, value) ==
  /\ state = "writing"
  /\ added # <<>> => Lower(Last(added)[1], key)
  /\ LET full   == block_buf # <<>> /\ Len(block_buf) >= BLOCK_SIZE
         before == IF full THEN 0 ELSE entries_in_block
         shared == IF before % PREFIX_RESET_INTERVAL = 0 THEN 0
                   ELSE common_prefix_len(prev_key, key) % MaxLength
     IN  /\ file' = IF full THEN file \o Finished(block_buf) ELSE file
         /\ index' = IF before = 0 THEN Append(index, <<key, Len(file')>>) ELSE index
         /\ block_buf' = (IF full THEN <<>> ELSE block_buf) \o Encoded(shared, key, value)
         /\ entries_in_block' = before + 1
  /\ prev_key' = key
  /\ added' = Append(added, <<key, value>>)
  /\ UNCHANGED <<bloom, footer, block_index, state>>

\* Bits of a filter for n keys: ten per key, rounded up to whole bytes
FilterBits(n) == 8 * (((IF n = 0 THEN 8 ELSE 10 * n) + 7) \div 8)

\* Double hashing; with 32-bit hashes and a small count nothing wraps
bloom_hash(key, i) == h1(key) + i * h2(key)

BitsOf(key, bits) == {bloom_hash(key, i) % bits : i \in 0..(BLOOM_HASH_COUNT - 1)}

\* An index whose offsets are written before the timestamps
MutantOffsetsFirst ==
  FlattenSeq([i \in DOMAIN index |->
                to_le_bytes(Len(index[i][1])) \o index[i][1] \o <<index[i][2], 0, 0>>])

\* The block index: length and bytes of each first key, timestamps, offset
IndexSection ==
  FlattenSeq([i \in DOMAIN index |->
                to_le_bytes(Len(index[i][1])) \o index[i][1] \o <<0, 0, index[i][2]>>])

\* SSTableWriter::finish
finish ==
  LET data == file \o Finished(block_buf)
  IN  /\ state = "writing"
      /\ file' = data \o IndexSection \o <<BLOOM_HASH_COUNT>>
                   \o [i \in 1..(FilterBits(Len(added)) \div 8) |-> 0]
      /\ footer' = [index_offset |-> Len(data), bloom_offset |-> Len(data \o IndexSection)]
      /\ block_buf' = <<>> /\ entries_in_block' = 0 /\ prev_key' = <<>>
      /\ bloom' = UNION {BitsOf(added[i][1], FilterBits(Len(added))) : i \in DOMAIN added}
      /\ state' = "finished"
      /\ UNCHANGED <<index, added, block_index>>

-----------------------------------------------------------------------------
(* SSTableReader *)

\* The loop of SSTableReader::open over the block index, pos bytes into the file
RECURSIVE IndexEntries(_)
IndexEntries(pos) ==
  IF pos + 2 > footer.bloom_offset THEN <<>>
  ELSE LET key_len == from_le_bytes(file[pos + 1], file[pos + 2])
           next == pos + 2 + key_len + 3
       IN  IF next > Len(file) THEN <<>>
           ELSE <<<<SubSeq(file, pos + 3, pos + 2 + key_len), file[next]>>>>
                \o IndexEntries(next)

\* SSTableReader::open of a complete file
open ==
  /\ state = "finished"
  /\ block_index' = IndexEntries(footer.index_offset)
  /\ state' = "open"
  /\ UNCHANGED <<file, block_buf, entries_in_block, prev_key, index, added, bloom, footer>>

Next == finish \/ open \/ \E key \in Key, value \in Value : add(key, value)

Spec == Init /\ [][Next]_vars

-----------------------------------------------------------------------------
(* Reads of an open file *)

bloom_may_contain(key) == BitsOf(key, 8 * (Len(file) - footer.bloom_offset - 1)) \subseteq bloom

\* The loop of decode_block over the rest of a block, after `count` entries the
\* last of which has the key prev: it ends where no whole entry is left
RECURSIVE Decoded(_, _, _)
Decoded(data, prev, count) ==
  IF Len(data) < 6 THEN <<>>
  ELSE LET shared     == from_le_bytes(data[1], data[2])
           suffix_len == from_le_bytes(data[3], data[4])
           value_len  == from_le_bytes(data[5], data[6])
           known == IF count % PREFIX_RESET_INTERVAL = 0 THEN <<>> ELSE prev
           key   == SubSeq(known, 1, IF shared < Len(known) THEN shared ELSE Len(known))
                      \o SubSeq(data, 7, 6 + suffix_len)
           value == SubSeq(data, 7 + suffix_len, 6 + suffix_len + value_len)
       IN  IF Len(data) < 6 + suffix_len + value_len THEN <<>>
           ELSE <<<<key, value>>>>
                \o Decoded(SubSeq(data, 7 + suffix_len + value_len, Len(data)), key, count + 1)

\* SSTableReader::decode_block: up to the next block or the index, without the
\* checksum
decode_block(i) ==
  LET end == IF i < Len(block_index) THEN block_index[i + 1][2] ELSE footer.index_offset
  IN  IF end <= block_index[i][2] + 1 THEN <<>>
      ELSE Decoded(SubSeq(file, block_index[i][2] + 1, end - 1), <<>>, 0)

\* A search that skips the block whose first key is the key
MutantStrictSearch(key) ==
  Cardinality({i \in DOMAIN block_index : Lower(block_index[i][1], key)})

\* Binary search of the index: the last block whose first key is not above the
\* key, or 0
BlockOf(key) ==
  Cardinality({i \in DOMAIN block_index : ~Lower(key, block_index[i][1])})

\* SSTableReader::get, as the set of at most one value
get(key) ==
  IF ~bloom_may_contain(key) \/ BlockOf(key) = 0 THEN {}
  ELSE LET entries == decode_block(BlockOf(key))
           hits == {j \in DOMAIN entries : entries[j][1] = key}
       IN  {entries[j][2] : j \in {j \in hits : \A h \in hits : j <= h}}

\* prefix_successor: the last byte below LastByte is incremented and what
\* follows it dropped; no successor if there is no such byte
Incrementable(prefix) == {i \in DOMAIN prefix : prefix[i] < LastByte}
\* A successor that keeps the bytes after the one it increments
MutantKeepsTail(prefix) ==
  LET i == CHOOSE i \in Incrementable(prefix) : \A j \in Incrementable(prefix) : j <= i
  IN  [prefix EXCEPT ![i] = @ + 1]

prefix_successor(prefix) ==
  LET i == CHOOSE i \in Incrementable(prefix) : \A j \in Incrementable(prefix) : j <= i
  IN  Append(SubSeq(prefix, 1, i - 1), prefix[i] + 1)

\* A scan that stops at the first key above the prefix
MutantStopsEarly(prefix, key) == Lower(prefix, key)

\* The key shows that nothing more will match the prefix
Past(prefix, key) ==
  /\ Lower(prefix, key) /\ ~IsPrefix(prefix, key)
  /\ Incrementable(prefix) # {} /\ ~Lower(key, prefix_successor(prefix))

\* SSTableReader::scan_prefix: from the block that may hold the prefix up to
\* the first block, or entry, past it
scan_prefix(prefix) ==
  LET start == IF BlockOf(prefix) = 0 THEN 1 ELSE BlockOf(prefix)
      stops == {i \in DOMAIN block_index : i > start /\ Past(prefix, block_index[i][1])}
      end == Cardinality({i \in DOMAIN block_index : \A s \in stops : i < s})
      read == FlattenSeq([i \in 1..(end + 1 - start) |-> decode_block(start + i - 1)])
      kept == {j \in DOMAIN read : \A h \in 1..j : ~Past(prefix, read[h][1])}
  IN  SelectSeq(SubSeq(read, 1, Cardinality(kept)), LAMBDA e : IsPrefix(prefix, e[1]))

-----------------------------------------------------------------------------
(* MemTable *)

\* MemTable::scan over the same entries: the range from the prefix up to its
\* successor
MemTableScan(prefix) ==
  SelectSeq(added, LAMBDA e : /\ ~Lower(e[1], prefix)
                              /\ Incrementable(prefix) # {} =>
                                   Lower(e[1], prefix_successor(prefix)))

-----------------------------------------------------------------------------
\* The lengths of the first keys of blocks fit in 16 bits
IndexFits == \A i \in DOMAIN index : Len(index[i][1]) < MaxLength

\* Sections follow one another, each block starts behind the one before, and
\* what a reader parses from the file is the index the writer kept
TypeOK ==
  /\ file \in Seq(Nat) /\ block_buf \in Seq(Byte)
  /\ entries_in_block \in Nat
  /\ prev_key \in Key \cup {<<>>}
  /\ index \in Seq(Key \X Nat)
  /\ added \in Seq(Key \X Value)
  /\ bloom \subseteq Nat
  /\ footer.index_offset \in Nat /\ footer.bloom_offset \in Nat
  /\ state # "writing" => /\ footer.index_offset <= footer.bloom_offset
                          /\ footer.bloom_offset < Len(file)
  /\ \A i, j \in DOMAIN index : i < j => index[i][2] < index[j][2] /\ index[j][2] <= Len(file)
  /\ state = "open" /\ IndexFits => block_index = index
  /\ state \in {"writing", "finished", "open"}

\* The entry's lengths fit in 16 bits
Fits(entry) == Len(entry[1]) < MaxLength /\ Len(entry[2]) < MaxLength

\* The entries of key's block keep decode_block from finding it: a length that
\* was cut off garbles what follows it in its block, and may look like any key
Garbled(key) ==
  \E i \in DOMAIN added :
    /\ ~Fits(added[i])
    /\ BlockOf(added[i][1]) = BlockOf(key)
    /\ (\E j \in DOMAIN added : added[j][1] = key) => ~Lower(key, added[i][1])

\* An open table answers for every key, present or not, what was added: no
\* false negative of the filter, no block missed by the search of the index,
\* no key garbled by the prefix compression; and a key or a value too long for
\* its length (lsm.md: such values "are split", which no code does) damages only
\* what follows it in its own block, unless the key goes into the index
GetsReturnWhatWasAdded ==
  state = "open" /\ IndexFits => \A key \in Key :
    ~Garbled(key) => get(key) = {added[i][2] : i \in {i \in DOMAIN added : added[i][1] = key}}

AllFit == \A i \in DOMAIN added : Fits(added[i])

\* An open table returns for every prefix all its entries in key order,
\* wherever the matches start and end among the blocks
ScansReturnEveryMatch ==
  state = "open" /\ AllFit => \A prefix \in Prefix :
    scan_prefix(prefix) = SelectSeq(added, LAMBDA e : IsPrefix(prefix, e[1]))

\* The range scan of a MemTable returns what the scan of the SSTable it is
\* flushed to returns, so a flush changes the result of no scan
FlushKeepsScans ==
  state = "open" /\ AllFit => \A prefix \in Prefix : MemTableScan(prefix) = scan_prefix(prefix)

=============================================================================
