# A TLA+ verification of cdoc

cdoc is an embedded document store in Rust: a log-structured merge tree with one
writer and many readers, whose keys are paths into documents and whose sequences
are ordered by fractional indices of the LSeq CRDT. This directory holds TLA+
modules translated from the code in `src/`, the TLC configurations that check
them and proofs that TLAPS checks. `PROJECT.json` lists components, runs,
hazards, theorems and the lines of code behind every definition.

    tlc -config MCStoreRecovery.cfg MCStore      # any run: its cfg and its module
    tlapm StoreProofs.tla                        # any module of proofs

## The system

| Component (code) | State | Operations | What is hard |
|---|---|---|---|
| `Db` (`db.rs`) | the readable state behind an `ArcSwap`, the writer mutex, the directories | `open`, `begin`, `begin_readonly`, `flush_memtable` | crash between any two effects, recovery, names of files as their age |
| Transactions (`transaction.rs`) | fork of the MemTable, snapshot, mutex guard, `finished` | `insert`, `get`, `scan`, `commit`, `abort`, `Drop` | snapshot taken early and published late, two swaps, every error path |
| Write-ahead log (`wal/mod.rs`) | file, `last_commit_pos`, `rolling_crc` | `create`, `write_record`, `write_commit`, `truncate_to_last_commit`, `reset`, `replay` | three pieces of state that must move together; torn records, 16-bit lengths |
| MemTable (`sst/memtable.rs`) | sorted map, size | `insert`, `get`, `scan`, `iter`, `estimated_size` | bounds of a prefix scan |
| SSTables (`sst/read.rs`, `sst/write.rs`, `sst/mod.rs`) | file of blocks, index, Bloom filter, footer | `add`, `finish`; `open`, `get`, `scan_prefix` | prefix compression and its resets, block boundaries, 16-bit lengths |
| Clock (`hlc.rs`) | the static `COUNTER` | `now`, `sync` | compare-and-swap by many threads, a clock that goes back, overflow |
| LSeq (`path/lseq.rs`), PID (`pid.rs`) | none | `between`, `from_bytes`, `is_valid` | peers of different identifiers at one place |
| Paths (`path/*.rs`), varints (`varint.rs`) | bytes and `written` of a writer | `push_field`, `push_index`, terminators; the reader | bytes of an index that equal the delimiter; the length limit |
| Mutations (`mutation.rs`) | a tree, a `PathWriter` | `for_each`, `execute` | one writer, truncated by every loop on the way back; errors half-way |
| LWW header (`path/lww.rs`) | none | `merge` | ties; registers that arrive late, twice or in another order |
| Queries (`query/*.rs`) | parser position | `parse`, the `query!` macro | two readers of one grammar; optional commas; which error for which text |
| Compaction (`sst/compaction.rs`) | none | an empty trait | |

How they interact: a client calls `Db::begin`, which waits for the mutex, loads
the readable state and clones its MemTable. `insert` appends to the log, then
writes to the clone. `commit` takes a timestamp from the clock, appends the commit
record, swaps the clone in and, past the size threshold, writes it to an SSTable
named after a second timestamp, renames that into place, swaps in an empty
MemTable, and resets the log. Readers load the readable state once and never
block. Keys are made by `PathWriter`, for a mutation one after the other with the
same writer; items of a sequence get their place from `FractionalIndex::between`.
Registers are meant to be exchanged between peers and decided by
`LWWHeader::merge`; nothing in `src/` sends them yet.

## Modules

| Module | Models | Correspondence |
|---|---|---|
| `LsmTree` | MemTable and the merged reads | a table is a function from keys to a value or `None`; `get` and `merge_scan` are the two ways the code merges tables |
| `WriteAheadLog` (extends `LsmTree`) | the log, record by record | the rolling CRC is the sequence of everything hashed, i.e. free of collisions; `Replays` is the loop of `replay` in closed form |
| `Store` (extends `WriteAheadLog`) | `Db`, transactions, flush, crash | one action per effect that another thread or a restart can see |
| `SnapshotKV` | nothing: the abstract store | one map, serial writers, snapshot readers, stable commits |
| `StoreProperties` (extends `Store`) | | properties, the refinement mapping, fairness |
| `MCStore` | | instances for TLC |
| `StoreProofs` (extends `StoreProperties`) | | proofs: types, the mutex and the locals of its owner, isolation, scans and gets |
| `StoreNamesProofs` (extends `StoreProofs`) | | proofs: names of SSTables and temporary files |
| `StoreRecoveryProofs` (extends `StoreNamesProofs`) | | proofs: what a restart finds |
| `StoreRefinementProofs` (extends `StoreRecoveryProofs`) | | proofs: `Store` implements `SnapshotKV` |
| `WalFormat` (extends `WriteAheadLog`), `MCWalFormat` | the log, byte by byte | takes every call twice, in bytes and in records; `ReplayLoop` is the loop of `replay` |
| `SSTable`, `MCSSTable` | writer and reader of table files, scan of the MemTable | blocks and index byte by byte, over a smaller byte; offsets are real |
| `Hlc`, `MCHlc`, `HlcProofs` | the clock | `now` is four steps: call, load, clock and add, compare-and-exchange |
| `LSeqCodec` | varints, segments and their parsers | operators on real bytes |
| `Path` (extends `LSeqCodec`) | `PathWriter`, `PathReader` | an operator per method, on a writer `[buf, written]` |
| `PathProofs` (extends `Path`) | | proofs: lengths, order and reading back of varints, indices and paths |
| `Mutation` (extends `Path`), `MCMutation` | `for_each`, `execute`, clients with a `PathWriter` | the stack of `for_each_internal` calls; one action per kind of node and per return |
| `MutationProofs` (extends `Mutation`, `PathProofs`) | | proofs: lengths, order and reading back of keys |
| `LSeq` | `between` | closed form of the two loops of `write_fractional_index` |
| `Replicas` (extends `LSeq`) | peers with documents, `merge`, `now`, `sync` | one action to insert, to replace, and to receive |
| `ReplicasProofs` (extends `Replicas`) | | proofs: `between`, convergence |
| `Query`, `MCQuery` | parser and macro | an operator per method or rule, on tokens |

### Store

`wal`, `ssts` and `tmps` are on disk and survive `Crash`; `db`, `readable`,
`owner`, `pc` and the locals of transactions do not. `writes`, `session`,
`committed`, `flushes`, `high` and `tally` are history: no action reads them
except for the bounds and, for `high`, to tell the two kinds of restart apart. Steps of `commit` are `WriteCommit`, `Publish`,
`FlushWrite`, `FlushRename`, `FlushSwap`, `WalReset`; `InsertFails`, `CommitFails`,
`AbortFails`, `FlushFails` and `OpenFails` are their `?` returns, with all the
state the code leaves behind. `Abort` is `abort()` and `Drop`. A failed write of
the log leaves nothing or a torn record, and perhaps a CRC that has moved
(`FailedWrites`). The process may die anywhere, inside a write too (`Dies`), and the
next one starts with a `COUNTER` of zero. There are two actions for that, because what is
recovered depends on it: after `Crash` the next process starts in a clock window past every
timestamp issued before; after `CrashStale` it does not, because it starts in the window of
the last one (256 ms), because `COUNTER` had run ahead of the clock, or because the clock was
set back, and it issues timestamps once more. The code does not tell the two apart. `flushes`
and `high` start anew at a stale restart, and `tally` counts it. A crash is the death of the
process: the operating system keeps what was written to files. The name of an SSTable is its timestamp; its RFC 3339 text
sorts the same way.

### WalFormat

A cell of the file is a length, a byte, a timestamp or a CRC; the CRC of a record
holds everything hashed since the last commit, so none collides. A torn record ends
between two cells: a half-written length, timestamp or CRC is not told from a
missing one. `replay` is told
what uninitialised memory and the bytes of a CRC read as (`any`): the code reads a
value of `value_len` uninitialised bytes when the key is empty, and properties
hold for every outcome. Module `Store` uses whole records; `BytesReplayLikeRecords`
is what entitles it to.

### Mutation and Path

The tree of a mutation is not built: `Compose`, `Nested`, `Apply` and `Return` are the
events of a walk, in every order some tree causes. A frame keeps the length its
loop truncates to. `keys` are what the callback received, each with the path it
stands for. `Begin`, `Push` and `Finish` are a client that builds one path. An index that
`FractionalIndex::new` refuses ends the walk with `InvalidIndex`; one that makes it panic
(`panics`) unwinds through all loops, which the model records as the error `Panic`. The
`mutation!` macro only constructs trees and needs no actions of its own.

### Replicas

Each peer has a document, a `COUNTER`, and what it has made or received. `Insert`
takes two neighbours in its own document and calls `between`; `Assign` replaces (a
deletion writes an empty value). `Receive` hands any write to any peer at any
time, again and again: a network that loses, delays, repeats and reorders. It is
an assumption, as is that a receiver does what the parts are made for:
`Deserialize` of a timestamp synchronises the clock (`hlc.rs:114`; `merge` itself does not), and `merge` picks a register.

### Query

A text is a sequence of Rust tokens. `RustReads` is what each is to the macro, `ParserReads`
the tokens its bytes are to the parser, which knows neither escapes nor Rust's literals:
`"\n"` is a string with a backslash in it, `"a\"b"` ends at the escaped quote, `r"q"` is two
fields, a name outside ASCII and `1_000` are refused or end early. A quote that is not
closed takes up the rest of the text; after it no further quote is typed (a bound). Rust
comments are left out. A client types the tokens one at a time, so every
prefix of a text is a text too. The macro matches groups in brackets whole; the
argument of a filter may be any Rust expression there, of which literals of the
right type are modelled.

### Definitions named `Mutant...`

Each stands before a definition of the code and is that definition with a
plausible bug. Replacing the definition by its mutant makes TLC report the
property that `PROJECT.json` pairs with it, so no property holds for want of
content. No specification uses them.

## Runs

| Run (cfg) | Checks | Bounds |
|---|---|---|
| `MCStoreRecovery` | what a session commits is recovered after a crash at any step, nothing uncommitted is, names follow age from the last stale restart on, temporary files are bounded | 1 writer, 2 keys, 2 values, 2 commits, 2 restarts of which 1 may be stale, 3 records, 1 failing flush or open |
| `MCStoreIsolation` | no lost update, scans agree with gets, commits atomic and flushes invisible, clean log between transactions; `Store` implements `SnapshotKV` | 2 writers, 1 reader, 2 commits, 1 restart, 1 failing flush or open; log writes do not fail here (they do in `MCStoreLiveness` and in the proofs) |
| `MCStoreLiveness` | every `begin` returns, every logged commit becomes visible | 2 writers, 1 key, 2 commits, all kinds of failure, no symmetry |
| `MCHlc` | timestamps unique and increasing, counter monotone | 3 threads, 16 values of the counter, windows of 4, clock readings in any order |
| `MCReplicas` | documents converge, no write is hidden by one its writer had replaced, inserts land after the previous and, with one exception, before the next item; an item gets into another peer's run, or onto an index of it, only from an item of that run; other indices collide only at the end | 2 peers, 4 writes, 4 timestamps, `seq` up to 4, wrapping |
| `MCMutation` | keys are read back as the path to their leaf, found by prefix, sorted like indices; the length limit is exceeded by a bounded amount, `TooLong` counts everything written before | 2 keys of 2 segments and a terminator, 2 calls deep; real bytes; 2 malformed indices; a limit of 12 |
| `MCSSTable` | opened files answer gets and scans as added; a key or value too long garbles only what follows in its block, and the index if it is the first key there; scans agree with the MemTable | every sorted set of entries over 8 keys, 2 of them too long, and 3 values, 1 too long, bytes 0..2, blocks of 3 or 4 entries, resets every 2 |
| `MCWalFormat` | bytes replay like records, wherever the file is cut; a length that does not fit loses a tail and nothing else | 3 records of 7 kinds, 2 of them torn at any cell, 2 as the commit bit |
| `MCQuery` | what the macro compiles the parser reads alike exactly if every token is the same to both; commas only separate; `UnexpectedEnd` is the error of texts that can be completed, other errors are final | 21 tokens, 5 of them different to Rust and to the parser, up to 4 typed after each of 7 beginnings |

The bounds let every interesting case happen: a threshold of two entries makes a
commit of two keys flush and one of one key not; two commits of two keys give two
SSTables of different age; three records hold a torn or foreign transaction in
front of another one; a window of 4 makes two flushes in one window; four writes let
each peer write a run of two, or one of them three beside the other's item, and a `seq` up to 4 lets
a run of two follow another item without wrapping and a run of four wrap; two keys, of which the second is
written after a truncation, are enough for a wrong one; the beginnings of queries
reach into filters and subselects. Symmetry is
over writers, keys and values (threads for the clock): no action tells them apart,
and the sizes of entries are equal. `CHECK_DEADLOCK FALSE` is used where the
system really stops: an open file, enough keys, a text that is refused, peers that
have written all they may, threads that panicked. `Store` has no deadlock; at its bounds a transaction can still abort
and a reader can still begin, and one-writer instances can still open or begin.

Fairness (`FairSpec`): weak fairness of the steps of a transaction that holds the
mutex, because they are straight-line code and its owner drops the transaction
in the end; strong fairness of `Lock`, because parking_lot's mutex is eventually
fair; weak fairness of opening. Inserts, begins, crashes and time have none.

### Runs that TLC refutes

Three runs state what the repository says and show that the code does otherwise.

* `MCStoreReopen`: `Db::open` truncates the log (`db.rs:90`) after replaying it into
  memory. A second restart before the next flush loses what the first recovered.
  `SnapshotKV` has the same behaviour on purpose (`Resume`), so that the refinement
  says exactly what holds.
* `MCStoreAdopted`: `commit` sets `finished` before `write_commit` (`transaction.rs:109`);
  if that fails the records stay in the log and the next commit adopts them.
* `MCReplicasPeers`: `between` uses `(pid, 1)` where the previous item has no segment
  (`path/lseq.rs:192`). If the next item has a smaller pid there, the new index sorts
  after it, and may even be the index of another item.

### Other divergences

Seen while modelling; the passing properties are stated around them.

* A torn record that stays in the log after a failed insert or commit hides every
  later commit from replay. `SessionSurvives` assumes that no write of the log failed.
* `COUNTER` (`hlc.rs:27`) starts at zero in every process and is not raised to the names on
  disk, so after a stale restart a flush may take an earlier or an existing name, and an
  equal name replaces the file. A clock that never goes back does not help: in
  `MCStoreSameWindow.cfg` (module `MCStore`) the clock stands still, and TLC refutes
  `CommittedUpdatesAreBacked`. A commit without updates and one whose flush is named `W+3` are
  followed by a restart in the same 256 ms; the first flush then is named `W+2`. Once the log is
  reset, recovery reads the older value in `W+3`, although `wal.md:3` says that each update is
  backed. `SessionSurvives` and the refinement are about behaviours without a stale restart,
  `LaterFlushesHaveGreaterNames` about the flushes since the last one, and
  `RecoversOnlyCommitted` holds across all of them.
* `now` wraps to zero in a build without overflow checks once `u64::MAX` was
  synchronised. The properties of the clock assume `OverflowChecks`.
* `hlc.rs:30` and `hlc.md` speak of 16 masked bits; `MASK` clears 8, which makes a
  window of 256 ms where the test `timestamp_precision` asserts less than 250.
* At the end of a sequence the new segment keeps the pid of the previous item
  (`path/lseq.rs:196`), where `lseq.md:20` says it has that of the peer who appended it. Peers 1
  and 5 that both append after `(1, 2)` both make `(1, 3)`, and `merge` keeps one of the two
  items; runs appended there collide item by item. `IndicesCollideOnlyAtTheEnd` says that indices
  collide nowhere else. `RunsDoNotInterleave` is about runs that their writer started at a place
  of its own, that is with a last segment of its own pid.
* `l.seq + 1` wraps in a build without overflow checks, and the new index sorts before
  the previous item; `LandsAfterPrevious` is stated for inserts whose own seq did not wrap.
  It also misleads later inserts: the successor of a wrapped seq is `(pid, 1)`, which is also
  what the code assumes in front of the first item; there is no room between the two, the
  code copies `(pid, 1)` and adds a segment, and the new index sorts after the item it was
  to precede. That takes more timestamps than `MCReplicas` has. `LandsBeforeNext` is therefore stated for
  writes of which none has wrapped; `RunsDoNotInterleave` needs no such condition.
* Indices contain bytes 0 and 255, which `lseq.md:15` excludes; `RoundTrips` shows that
  the reader copes.
* `read_from` slices a number that is cut off beyond the end of the buffer (`varint.rs:23`), so
  `FractionalIndex::new` panics on an index such as the bytes 2, 1, where `path/lseq.rs:14`
  promises `None`. `MCMutation` has such indices; its properties are about what was inserted before.
* `FractionalIndex::new` accepts the empty index, which is written and read back as an
  empty field. `MCMutation` has no empty index.
* `push_index` does not count its delimiter and `lww` and `counter` check no length, so
  a key can exceed `i16::MAX`; `OvershootIsBounded` says by how much. In the log a key of
  2^15 bytes sets the commit bit, and replay stops there.
* `for_each` shares one `PathWriter` and truncates its buffer but not its count, so a
  mutation whose keys are all short is refused with `TooLong` once its segments
  together exceed the limit, and the updates before stay inserted.
* An insert with an empty key and a value is logged with the value and read back
  without it; it and everything behind it in the log is lost on replay.
* Values longer than 16 bits can say are neither refused nor split, as `lsm.md:51` has
  it: the log cannot be replayed past them, and in an SSTable they damage what
  follows in their block. A key that long does the same, and as the first of its block
  garbles the block index from there on.
* The comment of `WriteAheadLog` puts the timestamp of a commit record before its key
  (`wal/mod.rs:11`); the code writes and reads it after the value.
* `Op::Delete` writes an empty value, which `get` returns as a value. Values carry no
  `LWWHeader`.
* A comma before a field named `as` separates, without it the field becomes an alias
  (`{ a, as b }`, `{ a as b }`), although the comma is optional. An unknown filter is only
  noticed once its colon is there. A bare word after `after:` is a name to the parser
  and a Rust variable to the macro. Strings with escapes, raw strings, names outside ASCII and
  numbers with underscores, suffixes or another base compile in `query!` and are other
  queries or errors to `Query::parse`, also when the same text is pasted. The documented `tx.query` does not exist.

## Proofs

TLAPS proves, for every set of threads, keys, values and peers and all bounds:

* `StoreTypeCorrect`: the type invariant, including that the position of the last
  commit lies inside the log.
* `StoreIdleLogIsClean`: with the mutex free the log ends with a commit record and a
  zero CRC, if no write of it failed.
* `StoreWritersBuildOnLatest`: no update is lost, whatever fails.
* `StoreCommitIsAtomic`: an action property; readers see commits whole and flushes
  not at all.
* `StoreScansAgreeWithGets`: a scan returns for every key what `get` returns.
* `StoreLaterFlushesHaveGreaterNames`, `StoreTempFilesAreBounded`: file names follow age from the
  last stale restart on; temporary files do not pile up.
* `StoreSessionSurvives`: a restart recovers what the session committed, if no write of the log
  failed and no restart was stale. `StoreRecoversOnlyCommitted`: nothing that was not committed,
  if no write of the log failed, whatever the clock showed.
* `StoreImplementsSnapshotKV`: behaviours of the store, seen through the mapping of
  `StoreProperties`, are behaviours of the atomic map, as long as no write of the log fails and no
  restart is stale.
* `HlcTypeCorrect`, `HlcKnownIsBounded`, `HlcTimestampsIncrease`, `HlcCounterNeverDrops`:
  the same for the clock, for any threads, clock readings and remote timestamps.
* `ReplicasTypeCorrect`, `ReplicasConverge`, `ReplicasKeepReplacements`: the same writes
  make the same document at every peer, and what was replaced stays replaced.
* `ReplicasLandAfter`, `ReplicasLandBefore`, `ReplicasRunsStayApart`, `ReplicasIndicesCollideOnlyAtTheEnd`: where the indices of
  `between` sort.
* `MutationTypeCorrect`, `MutationOvershootIsBounded`, `MutationTooLongIsCumulative`: the buffer
  and the count of a `PathWriter`, for any fields, indices, terminators and limit.
* `MutationRoundTrips`, `MutationPrefixScansFindDescendants`: if no index is empty, keys are read back as
  the path they were made of, and a scan for the bytes of a path finds what is below it and nothing else.
* `MutationKeysSortLikeIndices`: keys that agree up to an index sort as the indices do.
* `ReadEncoded`, `IndexOrder`: the facts about bytes that these rest on, for paths and indices of any
  length: what `PathReader` makes of the bytes of a path, and how the bytes of indices sort.

### The store

None of the properties of the store is inductive. The invariant `Inductive` adds:
`Locking` (exactly the owner of the mutex is past `lock_arc`, and nobody is unless
the database is open), `CleanUnlessRunning` (the log is clean except while a
transaction runs, if no write of it failed) and `Locals` (the snapshot of the
owner is the readable state until it publishes, the fork is that MemTable with the
owner's inserts over it, and the file being flushed is the fork). The lock part
makes the locals of one owner all that matters; with the locals, publishing adds
the inserts and nothing else, and the second swap puts the fork in front of the
SSTables, which reads the same (`ViewFlushed`).

Scans need no invariant beyond the types: `ScanIsView` shows that the fold of
`merge_scan` is `Topmost`, the value of the last SSTable that has the key, by looking
at the least number of SSTables for which it would not be; and that the last one of
the reversed list is the first hit of the list.

`Naming` is what makes names follow age: no name is above `high`, the greatest timestamp
issued since the last stale restart; the counter or the clock is at least `high` (`Fresh`), so the next
one is greater; and a flush that waits for its rename has a name above all those. A stale
restart starts `high` and `flushes` anew, so `Naming` needs no assumption; that the new names are also above
the files already on disk is `NewestIsOnTop`, which holds until the first stale restart.
`Temporaries` ties the temporary file of a waiting flush to the writer that holds the mutex, so
that its rename takes away the file that the bound counts for it.

Recovery is the invariant `Recovery`: while no write of the log has failed and no restart was stale,
`LogSound` and `Tables`.
`LogSound`: what `replay` returns is, key by key, the last record up to
`last_commit_pos`; the records behind it are the inserts of the running transaction; and,
while the database is open, every record is intact and `rolling_crc` continues the last one.
Without the second part a commit record could make anything replayable, without the third
replay could refuse it.
`Tables`: what is visible is the MemTable over the SSTables on disk, and from the rename to the
reset of the log the disk alone (`Layers`); the replayed log and the commits of the session
agree with what is visible, or with what the logged transaction will publish (`LogBehind`), so a
flush makes both redundant; and the session is backed. `Layers` needs `NewestIsOnTop`: the file
renamed last must be the one that wins when the SSTables are merged by name. That everything
recovered was committed does not depend on names, so it has an invariant of its own, `Committed`:
`LogSound`, and everything in the MemTable, in any SSTable and in the replayed log was
committed (`OnlyCommitted`); it is kept by stale restarts too. A crash inside a write leaves a torn
record, of which `TornReplays` shows that replay stops before it.

`StoreImplementsSnapshotKV` maps each state to the map readers see, the map on disk, the map
a restart would recover, the views of running writers and of readers, and the writer whose
commit record is in the log and not yet published. There is one lemma per action:
`Load` is `Begin`, `WriteCommit` is `Decide`, `Publish` is `Publish`, `FlushRename` is `Flush`,
`OpenLoad` and `OpenCreate` are `Recover` and `Resume`, `Crash`, `Close` and `OpenFails` are `Stop` (`CrashStale` is excluded by the condition); other steps of a flush, the reset of the log
and the waiting for the mutex change nothing abstract, or only forget the writes of a finished transaction.
The steps need `Ready`, the conjunction of all the invariants above: that the reset is
invisible, for instance, is that the replayed log agrees with the SSTables by then. The theorem is
about behaviours in which no write of the log fails and no restart is stale, which the code does not ensure: it is a
condition of the theorem and not an assumption of the module. `MCStoreAdopted` and
`MCStoreSameWindow` and the divergences say what happens otherwise.

### The clock and the replicas

For the clock `KnownIsBounded` is inductive together with the types, which also say that no thread
holds a loaded value above the counter: the counter is the greatest timestamp known, so a compare-and-exchange that succeeds stores something above it.

Convergence follows from `HoldsLast`: of all the registers of a key that reached a peer it
holds the one that wins against all others. Two peers with the same registers then hold the
same, since headers are unique. That and `ReplacedStaysReplaced` are from `Stamps`: the counter of a
peer is past every timestamp it has seen, its own included, so a write is later than everything its
writer had.

The places of indices are properties of `between` for indices as the program makes them.
`BetweenEnds`: the loops end, and the index copies lower segments up to a last one, the successor of
its lower segment. From that `BetweenAfter` (it sorts after the previous item unless its
seq wrapped) and `BetweenBefore` (it sorts before the next one if no segment of that has a lower
pid and none has wrapped). The invariant `Born` says that every insert was made by `between` from
neighbours its writer knew, with nothing it knew in between; `StaysWhole` that indices have neither a seq of 0 nor a
last seq of 1 until one wraps. For runs, `RunContinues` shows that the second item of a run agrees
with the first up to the last segment, which stays or takes the next seq, and `WithinRun` that
an index at the first, at the second or between them agrees with both up to that segment's pid.
`LentPlace` then says how another peer gets a segment of that pid: `between` only writes a pid
other than the caller's where the previous item has it, and takes its successor only past the
end of the next item. So the item was put after one of the run. The same lemma, for the last segment, says where two peers can
make one index.

### Writers of keys

`written` never drops while the buffer does, and it leaves out the delimiters of indices. The bound
on keys therefore comes from an invariant about what every running loop will truncate to. `Counted`: what was
counted is within the limit, and each loop's length is at most what was counted plus the indices
of that loop's path. `Stacked`: inner loops keep at least what outer ones keep, between two
changes the buffer is exactly what the innermost keeps, and a mutation has counted no more than it
visited. `OwnPath` is the first of these for a client that builds one path. `Covered` shows that one
more segment keeps the buffer covered, with its delimiter counted or being that of an index, and `Terminated` that a terminator then adds at most six bytes beyond
what was checked: `lww_chunked` checks all but one of its bytes, `lww` and `counter` check none of their two and six.
`TooLongIsCumulative` is from `Stacked` and `WriteResult`, which says when a segment is refused.

What the bytes of keys mean is the invariant `Coded`: the bytes each loop truncates to are the encoding
of that loop's path, all of whose segments were accepted, and every key is the encoding of such a path followed by the
bytes of a terminator. A loop that truncated too far or not far enough would break it. It is preserved because a
segment is refused before anything is written (`for_each` ends with the error then), and because loops further out
truncate to beginnings of the same buffer, which `Stacked` orders.

Reading back (`ReadEncoded`) goes segment by segment from the front. `ReadPlain`: behind a delimiter, one valid segment
is read whole and the reader stands at the next delimiter. For a field that is so because its bytes
are at least 32, so it has no delimiter inside and its first byte is not the length of a pid, for an index because `from_bytes` goes on exactly until what follows is not
a pid: a delimiter is the varint of zero, which `PID::new` refuses, and a byte 0 inside an index is
consumed as part of a seq. The same argument makes prefix scans exact: a key that begins with the bytes of a path and a
delimiter is read as that path first.

Order (`IndexOrder`): a varint with fewer bytes starts with a lower one, and of two with as many the bytes
decide as the numbers do, so segments sort by pid, then seq. Strings that differ at a byte both have (`Below`) stay in
that order whatever is added to them. The remaining case is an index that is the beginning of another: it is
followed by a delimiter, the other by a pid, which is not 0 and so starts with a greater byte.

`Significant`, `Value`, `is_valid`, `Consumed`, `Read` and `FlattenSeq` are recursive. The
library's theorems of induction cannot be instantiated by the provers, so what they compute is shown by refuting a least
counterexample: `Recursion` does that once for functions that call themselves on something shorter, and
gives each its defining equation; `FlattenedExists` and `FlattenedUnique` do it for the function inside
`FlattenSeq`; facts about all paths or all indices look at the shortest for which they fail.

### Assumptions, and what is only model-checked

The assumptions are those named `...Assumption`: finite keys, entry sizes in `Nat`,
`None` distinct from values, tables and readable states, positive windows, peers within the range of
pids, and at least three values of a seq; fields and indices made of bytes, pids and seqs of four
bytes and chunk indices of eight, as their types have it, and pids of an index that are not 0, which
`PID::new` and `PID::parse` refuse and `PID::random` does not draw. TLC evaluates them in every run.

`MutationRoundTrips` and `MutationPrefixScansFindDescendants` have a hypothesis besides, `NoEmptyIndex`. It is no assumption
of the module, since the code does not guarantee it: `FractionalIndex::new` accepts the empty
index, whose bytes are those of the field `""`, and both properties fail for it. The order of keys and all
bounds hold with an empty index too.

Only model-checked: liveness (fairness is outside what the prover does), and the invariants of `SSTable`, `WalFormat`
and `Query`, whose modules use recursive operators over bytes or tokens, which the provers cannot
expand.

## Not modelled

Compaction (an empty trait), the error type, serde and chrono glue, checksums of
SSTables (written, never verified) and files that are not complete, CBOR values,
power loss beyond a missing tail of the log (nothing calls fsync), two processes on
one directory (nothing locks it), the execution of queries (there is none).

## Plan

1. Done: store, log in records and in bytes, clock, SSTables, paths, mutations,
   replicas, queries; proofs for the store, its refinement, the clock, the replicas, and the
   lengths, the order and the reading back of keys.
2. Left: proofs for the files in bytes. `GetsReturnWhatWasAdded` and `BytesReplayLikeRecords` would need
   the loops of the readers as recursive functions and arguments like `ReadEncoded`, here with
   prefix compression and with records that are cut off.
