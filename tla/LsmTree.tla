------------------------------ MODULE LsmTree ------------------------------
(***************************************************************************)
(* The in-memory half of the LSM tree (src/sst/memtable.rs) and the reads  *)
(* that merge it with the SSTables (src/transaction.rs).                   *)
(*                                                                         *)
(* A table is a function from keys to a value or None: what a BTreeMap of  *)
(* entries says about each key.  The database has no delete, so None means *)
(* only "not written here".  An SSTable holds the same kind of table: the  *)
(* flush writes every entry of a MemTable, which module SSTable justifies. *)
(***************************************************************************)
EXTENDS Naturals, Sequences, FiniteSetsExt, SequencesExt

CONSTANTS Key,          \* byte strings, as far as they are told apart
          Value,        \* byte strings, as far as they are told apart
          None,         \* Rust's Option::None
          EntryLen      \* EntryLen[k, v] = k.len() + v.len()

ASSUME NoneAssumption == None \notin Key /\ None \notin Value /\ None \notin Nat
ASSUME KeyAssumption == IsFiniteSet(Key)
ASSUME EntryLenAssumption == EntryLen \in [Key \X Value -> Nat]

Table == [Key -> Value \cup {None}]

ASSUME NoTableAssumption == None \notin Table

\* MemTable::new
EmptyTable == [k \in Key |-> None]

\* MemTable::insert; the returned previous value is unused by every caller
insert(table, key, value) == [table EXCEPT ![key] = value]

\* MemTable::estimated_size: the counter insert maintains is the sum of the
\* lengths of the entries present
estimated_size(table) ==
  MapThenSumSet(LAMBDA k : EntryLen[k, table[k]], {k \in Key : table[k] # None})

\* Entries of the first table win over those of the second one
Overlay(top, bottom) ==
  [k \in Key |-> IF top[k] # None THEN top[k] ELSE bottom[k]]

\* ReadOnlyTransaction::get and ReadWriteTransaction::get: the MemTable, then
\* the SSTables from newest (index 1) to oldest, the first hit wins
FirstHit(sstables, key, i) ==
  /\ sstables[i][key] # None
  /\ \A j \in 1..(i - 1) : sstables[j][key] = None

get(memtable, sstables, key) ==
  IF memtable[key] # None THEN memtable[key]
  ELSE IF \E i \in DOMAIN sstables : FirstHit(sstables, key, i)
  THEN sstables[CHOOSE i \in DOMAIN sstables : FirstHit(sstables, key, i)][key]
  ELSE None

\* A merge_scan that fills its map from the newest SSTable to the oldest
MutantScanOrder(memtable, sstables) ==
  Overlay(memtable, FoldLeft(LAMBDA merged, sst : Overlay(sst, merged), EmptyTable, sstables))

\* merge_scan: a map filled from the oldest SSTable to the newest, then from
\* the MemTable, later entries overwriting earlier ones.  The prefix only
\* selects keys, so a scan of the empty prefix stands for every other one.
merge_scan(memtable, sstables) ==
  Overlay(memtable,
          FoldLeft(LAMBDA merged, sst : Overlay(sst, merged),
                   EmptyTable, Reverse(sstables)))

\* What a transaction over these tables reads, key by key
View(memtable, sstables) == [k \in Key |-> get(memtable, sstables, k)]

=============================================================================
