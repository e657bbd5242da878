------------------------------- MODULE Store -------------------------------
(***************************************************************************)
(* The embedded database: Db::open and begin_readonly (src/db.rs), the     *)
(* read-only and read-write transactions (src/transaction.rs), the flush   *)
(* of the MemTable, and what a crash leaves on disk.                       *)
(*                                                                         *)
(* Several threads call begin/insert/commit/abort; the writer mutex lets   *)
(* one of them through.  Each visible effect of commit() is a step of its  *)
(* own, so readers, I/O errors and crashes fall between any two of them.   *)
(***************************************************************************)
EXTENDS WriteAheadLog

CONSTANTS Writer, Reader,      \* threads that write, threads that read
          MemTableSize,        \* DbOptions::memtable_size
          Window,              \* timestamps per masked clock reading (256)
          MaxWal,              \* bound: records in the log when inserting
          MaxCommits,          \* bound: commit() calls
          MaxClock,            \* bound: clock windows
          MaxReopens,          \* bound: closes and crashes of both kinds
          MaxStaleRestarts,    \* bound: crashes after which timestamps recur
          MaxWalErrors,        \* bound: failed writes and truncations of the log
          MaxOtherErrors       \* bound: failures of the flush and of Db::open

ASSUME WindowAssumption == Window \in Nat \ {0}
ASSUME BoundsAssumption ==
  /\ MemTableSize \in Nat /\ MaxWal \in Nat /\ MaxCommits \in Nat
  /\ MaxClock \in Nat /\ MaxReopens \in Nat /\ MaxStaleRestarts \in Nat
  /\ MaxWalErrors \in Nat /\ MaxOtherErrors \in Nat
ASSUME ThreadAssumption == None \notin Writer /\ None \notin Reader

VARIABLES
  wal,        \* WriterState::wal: the file, and the handle of the open Db
  ssts,       \* the .sst files, a function from name (timestamp) to content
  tmps,       \* names of the .sst.tmp files
  db,         \* "closed", "loaded" (Db::open has replayed the log) or "open"
  readable,   \* DbInner::readable
  owner,      \* who holds DbInner::writer
  pc,         \* where each writer is
  fork, snapshot, flush_ts,   \* locals of each read-write transaction
  ro,         \* snapshot of each read-only transaction
  counter,    \* COUNTER of hlc.rs
  clock       \* system time, in windows of the mask

\* History of what was promised, read by the properties only
VARIABLES
  writes,     \* what each open transaction has inserted
  session,    \* what has been committed since the log was last created
  committed,  \* committed[k]: every value ever committed for k
  flushes,    \* names of the SSTables in the order of their flush, since the
              \* last stale restart
  high,       \* the greatest timestamp issued since the last stale restart
  tally       \* counts for the bounds

disk == <<wal, ssts, tmps>>
memory == <<db, readable, owner, pc, fork, snapshot, flush_ts, ro>>
time == <<counter, clock>>
ghosts == <<writes, session, committed, flushes, high, tally>>
vars == <<wal, ssts, tmps, db, readable, owner, pc, fork, snapshot, flush_ts,
          ro, counter, clock, writes, session, committed, flushes, high, tally>>

Readable == [active : Table, sstables : Seq(Table)]
ASSUME NoReadableAssumption == None \notin Readable
EmptyReadable == [active |-> EmptyTable, sstables |-> <<>>]

\* Program points: waiting for the mutex; holding it, snapshot not loaded;
\* running; commit record written; and the steps of the flush
WriterPc == {"idle", "waiting", "locked", "running", "logged",
             "flushing", "written", "renamed", "swapped"}
Holding == WriterPc \ {"idle", "waiting"}

\* What the bounds limit: calls of commit(), crashes and closes, failures of the
\* log, other failures, stale restarts
Counted == {"commits", "reopens", "staleRestarts", "walErrors", "otherErrors"}

TypeOK ==
  /\ wal \in Log /\ wal.last_commit_pos <= Len(wal.file)
  /\ DOMAIN ssts \in SUBSET Nat /\ IsFiniteSet(DOMAIN ssts)
  /\ ssts \in [DOMAIN ssts -> Table]
  /\ tmps \in SUBSET Nat
  /\ db \in {"closed", "loaded", "open"}
  /\ readable \in Readable
  /\ owner \in Writer \cup {None}
  /\ pc \in [Writer -> WriterPc]
  /\ fork \in [Writer -> Table]
  /\ snapshot \in [Writer -> Readable]
  /\ flush_ts \in [Writer -> Nat]
  /\ ro \in [Reader -> Readable \cup {None}]
  /\ counter \in Nat /\ clock \in Nat
  /\ writes \in [Writer -> Table]
  /\ session \in Table
  /\ committed \in [Key -> SUBSET Value]
  /\ flushes \in Seq(Nat)
  /\ high \in Nat
  /\ tally \in [Counted -> Nat]

Init ==
  /\ wal = create /\ ssts = <<>> /\ tmps = {}
  /\ db = "closed" /\ readable = EmptyReadable /\ owner = None
  /\ pc = [w \in Writer |-> "idle"]
  /\ fork = [w \in Writer |-> EmptyTable]
  /\ snapshot = [w \in Writer |-> EmptyReadable]
  /\ flush_ts = [w \in Writer |-> 0]
  /\ ro = [r \in Reader |-> None]
  /\ counter = 0 /\ clock = 0
  /\ writes = [w \in Writer |-> EmptyTable]
  /\ session = EmptyTable
  /\ committed = [k \in Key |-> {}]
  /\ flushes = <<>> /\ high = 0
  /\ tally = [what \in Counted |-> 0]

-----------------------------------------------------------------------------
(* Steps shared by several operations *)

Count(what) == tally' = [tally EXCEPT ![what] = @ + 1]

Goto(w, label) == pc' = [pc EXCEPT ![w] = label]

\* A clock that ignores the counter
MutantClockOnly == clock * Window + 1

\* A successful Timestamp::now (module Hlc has its retry loop)
NextTimestamp == IF clock * Window > counter THEN clock * Window + 1 ELSE counter + 1
TakeTimestamp ==
  /\ counter' = NextTimestamp
  /\ high' = IF NextTimestamp > high THEN NextTimestamp ELSE high
  /\ UNCHANGED clock

\* The transaction is consumed: its guard is dropped, which unlocks the mutex
Release(w) ==
  /\ owner' = None
  /\ Goto(w, "idle")
  /\ fork' = [fork EXCEPT ![w] = EmptyTable]
  /\ snapshot' = [snapshot EXCEPT ![w] = EmptyReadable]
  /\ flush_ts' = [flush_ts EXCEPT ![w] = 0]
  /\ writes' = [writes EXCEPT ![w] = EmptyTable]

-----------------------------------------------------------------------------
(* Read-write transactions *)

\* Db::begin is called and waits for the mutex
Begin(w) ==
  /\ db = "open" /\ pc[w] = "idle"
  /\ Goto(w, "waiting")
  /\ UNCHANGED <<disk, db, readable, owner, fork, snapshot, flush_ts, ro, time, ghosts>>

\* A begin that does not wait for the mutex
MutantNoMutex(w) ==
  /\ pc[w] = "waiting"
  /\ owner' = w
  /\ Goto(w, "locked")
  /\ UNCHANGED <<disk, db, readable, fork, snapshot, flush_ts, ro, time, ghosts>>

\* ReadWriteTransaction::new: lock_arc returns
Lock(w) ==
  /\ pc[w] = "waiting" /\ owner = None
  /\ owner' = w
  /\ Goto(w, "locked")
  /\ UNCHANGED <<disk, db, readable, fork, snapshot, flush_ts, ro, time, ghosts>>

\* A transaction that starts with a MemTable of its own
MutantEmptyFork(w) ==
  /\ pc[w] = "locked"
  /\ snapshot' = [snapshot EXCEPT ![w] = readable]
  /\ fork' = [fork EXCEPT ![w] = EmptyTable]
  /\ Goto(w, "running")
  /\ UNCHANGED <<disk, db, readable, owner, flush_ts, ro, time, ghosts>>

\* ReadWriteTransaction::new: load the readable state and fork its MemTable
Load(w) ==
  /\ pc[w] = "locked"
  /\ snapshot' = [snapshot EXCEPT ![w] = readable]
  /\ fork' = [fork EXCEPT ![w] = readable.active]
  /\ Goto(w, "running")
  /\ UNCHANGED <<disk, db, readable, owner, flush_ts, ro, time, ghosts>>

\* ReadWriteTransaction::insert: the log first, then the fork
Insert(w, k, v) ==
  /\ pc[w] = "running" /\ Len(wal.file) < MaxWal
  /\ wal' = write_record(wal, k, v, None)
  /\ fork' = [fork EXCEPT ![w] = insert(fork[w], k, v)]
  /\ writes' = [writes EXCEPT ![w] = insert(writes[w], k, v)]
  /\ UNCHANGED <<ssts, tmps, db, readable, owner, pc, snapshot, flush_ts, ro, time,
                 session, committed, flushes, high, tally>>

\* The same call when the log cannot be written: it returns the error before
\* touching the fork, and the transaction goes on if the caller wants it to
InsertFails(w, k, v) ==
  /\ pc[w] = "running" /\ Len(wal.file) < MaxWal
  /\ tally["walErrors"] < MaxWalErrors
  /\ wal' \in FailedWrites(wal, k, v, None)
  /\ Count("walErrors")
  /\ UNCHANGED <<ssts, tmps, memory, time, writes, session, committed, flushes, high>>

\* ReadWriteTransaction::commit up to and including write_commit.  From here
\* on the transaction is decided: a crash recovers it.
WriteCommit(w) ==
  /\ pc[w] = "running" /\ tally["commits"] < MaxCommits
  /\ TakeTimestamp
  /\ wal' = write_commit(wal, NextTimestamp)
  /\ Goto(w, "logged")
  /\ session' = Overlay(writes[w], session)
  /\ committed' = [k \in Key |-> committed[k] \cup ({writes[w][k]} \ {None})]
  /\ Count("commits")
  /\ UNCHANGED <<ssts, tmps, db, readable, owner, fork, snapshot, flush_ts, ro,
                 writes, flushes>>

\* write_commit fails: commit() returns the error with finished already set,
\* so Drop does not truncate the log
CommitFails(w) ==
  /\ pc[w] = "running" /\ tally["walErrors"] < MaxWalErrors
  /\ TakeTimestamp
  /\ wal' \in FailedWrites(wal, None, None, NextTimestamp)
  /\ Release(w)
  /\ Count("walErrors")
  /\ UNCHANGED <<ssts, tmps, db, readable, ro, session, committed, flushes>>

\* A commit that leaves the first swap to the flush when it will flush
MutantPublishesOnce(w) ==
  /\ pc[w] = "logged"
  /\ IF estimated_size(fork[w]) >= MemTableSize
     THEN /\ Goto(w, "flushing")
          /\ UNCHANGED <<readable, owner, fork, snapshot, flush_ts, writes>>
     ELSE /\ readable' = [active |-> fork[w], sstables |-> snapshot[w].sstables]
          /\ Release(w)
  /\ UNCHANGED <<disk, db, ro, time, session, committed, flushes, high, tally>>

\* commit() publishes the fork, and returns if it is below the threshold
Publish(w) ==
  /\ pc[w] = "logged"
  /\ readable' = [active |-> fork[w], sstables |-> snapshot[w].sstables]
  /\ IF estimated_size(fork[w]) >= MemTableSize
     THEN /\ Goto(w, "flushing")
          /\ UNCHANGED <<owner, fork, snapshot, flush_ts, writes>>
     ELSE Release(w)
  /\ UNCHANGED <<disk, db, ro, time, session, committed, flushes, high, tally>>

\* abort(), or Drop of a transaction that was not finished
Abort(w) ==
  /\ pc[w] = "running"
  /\ wal' = truncate_to_last_commit(wal)
  /\ Release(w)
  /\ UNCHANGED <<ssts, tmps, db, readable, ro, time, session, committed, flushes, high, tally>>

\* The same when set_len fails; Drop ignores the error, abort returns it
AbortFails(w) ==
  /\ pc[w] = "running" /\ tally["walErrors"] < MaxWalErrors
  /\ Release(w)
  /\ Count("walErrors")
  /\ UNCHANGED <<disk, db, readable, ro, time, session, committed, flushes, high>>

-----------------------------------------------------------------------------
(* The flush at the end of commit(): flush_memtable, the second swap of the
   readable state, the reset of the log *)

\* A flush that resets the log before the SSTable has its name
MutantResetsEarly(w) ==
  /\ pc[w] = "flushing"
  /\ TakeTimestamp
  /\ tmps' = tmps \cup {NextTimestamp}
  /\ wal' = reset(wal)
  /\ flush_ts' = [flush_ts EXCEPT ![w] = NextTimestamp]
  /\ Goto(w, "written")
  /\ UNCHANGED <<ssts, db, readable, owner, fork, snapshot, ro,
                 writes, session, committed, flushes, tally>>

\* Timestamp::now, then the temporary file is created and written
FlushWrite(w) ==
  /\ pc[w] = "flushing"
  /\ TakeTimestamp
  /\ tmps' = tmps \cup {NextTimestamp}
  /\ flush_ts' = [flush_ts EXCEPT ![w] = NextTimestamp]
  /\ Goto(w, "written")
  /\ UNCHANGED <<wal, ssts, db, readable, owner, fork, snapshot, ro,
                 writes, session, committed, flushes, tally>>

\* fs::rename to the final name, replacing a file that has it already
FlushRename(w) ==
  /\ pc[w] = "written"
  /\ tmps' = tmps \ {flush_ts[w]}
  /\ ssts' = [ts \in DOMAIN ssts \cup {flush_ts[w]} |->
                IF ts = flush_ts[w] THEN fork[w] ELSE ssts[ts]]
  /\ flushes' = Append(flushes, flush_ts[w])
  /\ Goto(w, "renamed")
  /\ UNCHANGED <<wal, db, readable, owner, fork, snapshot, flush_ts, ro, time,
                 writes, session, committed, high, tally>>

\* A flush that appends the new SSTable as if it were the oldest
MutantAppendsSst(w) ==
  /\ pc[w] = "renamed"
  /\ readable' = [active |-> EmptyTable,
                  sstables |-> Append(snapshot[w].sstables, ssts[flush_ts[w]])]
  /\ Goto(w, "swapped")
  /\ UNCHANGED <<disk, db, owner, fork, snapshot, flush_ts, ro, time, ghosts>>

\* The new SSTable is opened and swapped in together with an empty MemTable
FlushSwap(w) ==
  /\ pc[w] = "renamed"
  /\ readable' = [active |-> EmptyTable,
                  sstables |-> <<ssts[flush_ts[w]]>> \o snapshot[w].sstables]
  /\ Goto(w, "swapped")
  /\ UNCHANGED <<disk, db, owner, fork, snapshot, flush_ts, ro, time, ghosts>>

\* wal.reset(), and commit() returns
WalReset(w) ==
  /\ pc[w] = "swapped"
  /\ wal' = reset(wal)
  /\ Release(w)
  /\ UNCHANGED <<ssts, tmps, db, readable, ro, time, session, committed, flushes, high, tally>>

\* A failed flush that keeps the mutex
MutantKeepsMutex(w) ==
  /\ pc[w] \in {"flushing", "written", "renamed", "swapped"}
  /\ tally["otherErrors"] < MaxOtherErrors
  /\ Goto(w, "idle")
  /\ Count("otherErrors")
  /\ UNCHANGED <<disk, db, readable, owner, fork, snapshot, flush_ts, ro, time,
                 writes, session, committed, flushes, high>>

\* Any step of the flush fails: commit() returns an error although the
\* transaction is committed; a temporary file that exists stays
FlushFails(w) ==
  /\ pc[w] \in {"flushing", "written", "renamed", "swapped"}
  /\ tally["otherErrors"] < MaxOtherErrors
  /\ IF pc[w] = "flushing"
     THEN TakeTimestamp /\ tmps' \in {tmps, tmps \cup {NextTimestamp}}
     ELSE UNCHANGED <<time, high, tmps>>
  /\ Release(w)
  /\ Count("otherErrors")
  /\ UNCHANGED <<wal, ssts, db, readable, ro, session, committed, flushes>>

-----------------------------------------------------------------------------
(* Read-only transactions *)

\* Db::begin_readonly
BeginReadonly(r) ==
  /\ db = "open" /\ ro[r] = None
  /\ ro' = [ro EXCEPT ![r] = readable]
  /\ UNCHANGED <<disk, db, readable, owner, pc, fork, snapshot, flush_ts, time, ghosts>>

\* The read-only transaction is dropped
EndReadonly(r) ==
  /\ ro[r] # None
  /\ ro' = [ro EXCEPT ![r] = None]
  /\ UNCHANGED <<disk, db, readable, owner, pc, fork, snapshot, flush_ts, time, ghosts>>

-----------------------------------------------------------------------------
(* Opening, closing, crashing *)

\* The names of the SSTables, sorted and reversed.  A name is its timestamp
\* displayed as RFC 3339, whose text sorts like the timestamp (to the year 9999)
NewestFirst(names, order) ==
  /\ order \in [1..Cardinality(names) -> names]
  /\ \A i, j \in DOMAIN order : i < j => order[i] > order[j]

\* An open that leaves temporary files behind
MutantKeepsTemps ==
  /\ db = "closed"
  /\ \E order \in [1..Cardinality(DOMAIN ssts) -> DOMAIN ssts] :
       /\ NewestFirst(DOMAIN ssts, order)
       /\ readable' = [active |-> Replayed(wal.file),
                       sstables |-> [i \in DOMAIN order |-> ssts[order[i]]]]
  /\ db' = "loaded"
  /\ UNCHANGED <<disk, owner, pc, fork, snapshot, flush_ts, ro, time, ghosts>>

\* Db::open: remove the temporary files, load the SSTables newest first,
\* replay the log into a fresh MemTable
OpenLoad ==
  /\ db = "closed"
  /\ tmps' = {}
  /\ \E order \in [1..Cardinality(DOMAIN ssts) -> DOMAIN ssts] :
       /\ NewestFirst(DOMAIN ssts, order)
       /\ readable' = [active |-> Replayed(wal.file),
                       sstables |-> [i \in DOMAIN order |-> ssts[order[i]]]]
  /\ db' = "loaded"
  /\ UNCHANGED <<wal, ssts, owner, pc, fork, snapshot, flush_ts, ro, time, ghosts>>

\* Db::open returns an error before it reaches the log
OpenFails ==
  /\ db = "loaded" /\ tally["otherErrors"] < MaxOtherErrors
  /\ db' = "closed"
  /\ readable' = EmptyReadable
  /\ Count("otherErrors")
  /\ UNCHANGED <<disk, owner, pc, fork, snapshot, flush_ts, ro, time,
                 writes, session, committed, flushes, high>>

\* Db::open: WriteAheadLog::create, and the database is open
OpenCreate ==
  /\ db = "loaded"
  /\ wal' = create
  /\ db' = "open"
  /\ session' = EmptyTable
  /\ UNCHANGED <<ssts, tmps, readable, owner, pc, fork, snapshot, flush_ts, ro, time,
                 writes, committed, flushes, high, tally>>

MayStop == tally["reopens"] + tally["staleRestarts"] < MaxReopens

\* The last handle is dropped; read-only transactions keep their snapshot
Close ==
  /\ db = "open" /\ MayStop
  /\ \A w \in Writer : pc[w] = "idle"
  /\ db' = "closed"
  /\ readable' = EmptyReadable
  /\ Count("reopens")
  /\ UNCHANGED <<disk, owner, pc, fork, snapshot, flush_ts, ro, time,
                 writes, session, committed, flushes, high>>

\* The process dies at any point, possibly inside a write to the log; in the
\* next one COUNTER starts at zero
Dies ==
  /\ wal' \in {wal} \cup {[wal EXCEPT !.file = Append(wal.file, Torn)] :
                           w \in {w \in Writer : pc[w] = "running"}}
  /\ counter' = 0
  /\ db' = "closed" /\ readable' = EmptyReadable /\ owner' = None
  /\ pc' = [w \in Writer |-> "idle"]
  /\ fork' = [w \in Writer |-> EmptyTable]
  /\ snapshot' = [w \in Writer |-> EmptyReadable]
  /\ flush_ts' = [w \in Writer |-> 0]
  /\ ro' = [r \in Reader |-> None]
  /\ writes' = [w \in Writer |-> EmptyTable]
  /\ UNCHANGED <<ssts, tmps, session, committed>>

\* The next process starts in a clock window past every timestamp issued before
Crash ==
  /\ MayStop
  /\ Dies
  /\ \E now \in 0..MaxClock : now * Window >= high /\ clock' = now
  /\ Count("reopens")
  /\ UNCHANGED <<flushes, high>>

\* The next process starts in the window of the last one, in one that COUNTER
\* had run ahead of, or with a clock set back: it issues timestamps once more
CrashStale ==
  /\ MayStop /\ tally["staleRestarts"] < MaxStaleRestarts
  /\ Dies
  /\ \E now \in 0..MaxClock : now * Window < high /\ clock' = now
  /\ Count("staleRestarts")
  /\ flushes' = <<>> /\ high' = 0

\* Time passes
Tick ==
  /\ clock < MaxClock
  /\ clock' = clock + 1
  /\ UNCHANGED <<disk, memory, counter, ghosts>>

-----------------------------------------------------------------------------
Inserts(w) == \E k \in Key, v \in Value : Insert(w, k, v) \/ InsertFails(w, k, v)

\* The steps a transaction takes once it has the mutex, inserts left out
Proceed(w) ==
  \/ Load(w) \/ WriteCommit(w) \/ CommitFails(w) \/ Publish(w)
  \/ Abort(w) \/ AbortFails(w)
  \/ FlushWrite(w) \/ FlushRename(w) \/ FlushSwap(w) \/ WalReset(w) \/ FlushFails(w)

Open == OpenLoad \/ OpenFails \/ OpenCreate

Next ==
  \/ \E w \in Writer : Begin(w) \/ Lock(w) \/ Inserts(w) \/ Proceed(w)
  \/ \E r \in Reader : BeginReadonly(r) \/ EndReadonly(r)
  \/ Open \/ Close \/ Crash \/ CrashStale \/ Tick

Spec == Init /\ [][Next]_vars

=============================================================================
