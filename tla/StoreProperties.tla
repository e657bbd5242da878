-------------------------- MODULE StoreProperties --------------------------
(* What the database of module Store guarantees. *)
EXTENDS Store

\* What a transaction that begins now reads
Visible == View(readable.active, readable.sstables)

\* The SSTables on disk, merged in the order of their names
NewestWith(files, k, ts) ==
  /\ files[ts][k] # None
  /\ \A u \in DOMAIN files : u > ts => files[u][k] = None

Merged(files) ==
  [k \in Key |-> IF \E ts \in DOMAIN files : NewestWith(files, k, ts)
                 THEN files[CHOOSE ts \in DOMAIN files : NewestWith(files, k, ts)][k]
                 ELSE None]

OnDisk == Merged(ssts)

\* What Db::open would read if the process stopped now
Recovered == Overlay(Replayed(wal.file), OnDisk)

Reads(w) == View(fork[w], snapshot[w].sstables)

\* No update is lost: the fork a transaction will publish (transaction.rs
\* `commit`) is the state readers see now plus its own inserts, although it
\* was taken when the transaction began
WritersBuildOnLatest ==
  \A w \in Writer : pc[w] \in {"running", "logged"} =>
     Reads(w) = Overlay(writes[w], Visible)

\* merge_scan and get, which walk the SSTables in opposite directions, return
\* the same value of every key to every transaction
ScansAgreeWithGets ==
  /\ \A w \in Writer : merge_scan(fork[w], snapshot[w].sstables) = Reads(w)
  /\ \A r \in Reader : ro[r] # None =>
       merge_scan(ro[r].active, ro[r].sstables) = View(ro[r].active, ro[r].sstables)

\* While the database is open what a new transaction reads changes only when
\* a commit publishes, and then by exactly its inserts: the steps of the flush
\* are invisible
CommitIsAtomic ==
  [][db = "open" /\ db' = "open" =>
       \/ Visible' = Visible
       \/ \E w \in Writer : /\ pc[w] = "logged" /\ pc'[w] # "logged"
                            /\ Visible' = Overlay(writes[w], Visible)]_vars

\* With the mutex free the log ends with a commit record and the CRC is zero,
\* so the next transaction cannot be parsed as a continuation of an earlier one
IdleLogIsClean ==
  db = "open" /\ owner = None /\ tally["walErrors"] = 0 =>
    Len(wal.file) = wal.last_commit_pos /\ wal.rolling_crc = <<>>

\* wal.md: "Each transaction update is backed by the Write-Ahead Log".  Every
\* update committed since the log was created is what Db::open would read
CommittedUpdatesAreBacked ==
  \A k \in Key : session[k] # None => Recovered[k] = session[k]

\* Everything committed since the log was created survives a crash at any
\* point, whether it is in the log, in an SSTable or in both, as long as no
\* write or truncation of the log has failed and every process has started in a
\* clock window past the timestamps of the ones before it, which hlc.rs does
\* not ensure: without that a flush may get a name below an older SSTable's
SessionSurvives ==
  tally["walErrors"] = 0 /\ tally["staleRestarts"] = 0 => CommittedUpdatesAreBacked

\* wal/mod.rs: replay returns "only entries from committed transactions"
ReplaysOnlyCommitted ==
  \A k \in Key : Recovered[k] \in committed[k] \cup {None}

\* Nothing that an unfinished or aborted transaction wrote is recovered, as
\* long as no write or truncation of the log has failed, whatever the clock
\* shows at a restart and whichever names SSTables get
RecoversOnlyCommitted ==
  tally["walErrors"] = 0 => ReplaysOnlyCommitted

\* db.rs: "SSTables sorted by name descending (newest first)".  A later flush
\* has the greater name, in one process and across restarts, from the last
\* stale restart on: one in a clock window that was used before breaks the order
LaterFlushesHaveGreaterNames ==
  \A i, j \in DOMAIN flushes : i < j => flushes[i] < flushes[j]

\* README.md: "Document is persistent by design"; lsm_test.rs, after a commit:
\* "Re-open the database - WAL should be replayed".  When no transaction is
\* running, stopping and reopening the database would show what readers see now
ReopeningShowsTheSame ==
  db = "open" /\ owner = None => Recovered = Visible

\* An open database keeps at most the temporary files of failed flushes and
\* the one being written: those of earlier crashes are removed
TempFilesAreBounded ==
  db # "closed" =>
    Cardinality(tmps) <= tally["otherErrors"]
                         + Cardinality({w \in Writer : pc[w] = "written"})

\* The state of SnapshotKV that a state of the database stands for
Status == CASE db = "closed" -> "down" [] db = "loaded" -> "recovered" [] OTHER -> "up"
Active == [w \in Writer |-> IF pc[w] \in {"running", "logged"} THEN Reads(w) ELSE None]
Decided == IF \E w \in Writer : pc[w] = "logged"
           THEN CHOOSE w \in Writer : pc[w] = "logged" ELSE None
Held == [r \in Reader |-> IF ro[r] = None THEN None ELSE View(ro[r].active, ro[r].sstables)]

Abstract == INSTANCE SnapshotKV WITH
  status <- Status, visible <- Visible, flushed <- OnDisk, stable <- Recovered,
  tx <- Active, delta <- writes, decided <- Decided, reads <- Held

\* The database implements SnapshotKV: serial writers, snapshot readers,
\* commits that are stable in one step and before they are visible, restarts
\* that resume from the stable map
ImplementsSnapshotKV == Abstract!Spec

-----------------------------------------------------------------------------
(* Liveness.  A client that holds the mutex eventually commits, aborts or
   drops its transaction, and the steps of commit() themselves end; the
   eventual fairness of parking_lot's mutex lets every waiter through some
   time; Db::open ends. *)
FairSpec ==
  /\ Spec
  /\ \A w \in Writer : WF_vars(Proceed(w)) /\ SF_vars(Lock(w))
  /\ WF_vars(Open)

\* Every call of Db::begin returns, whatever way other transactions end,
\* unless the database is gone: no path of commit, abort or a failed flush
\* keeps the mutex
EveryBeginReturns ==
  \A w \in Writer : pc[w] = "waiting" ~> (pc[w] = "running" \/ db = "closed")

\* A commit that was logged reaches readers: after the commit record the
\* inserts become visible unless the process dies first
LoggedCommitsBecomeVisible ==
  \A w \in Writer : pc[w] = "logged" ~> (pc[w] # "logged" /\ (db = "open" =>
     \A k \in Key : session[k] # None => Visible[k] = session[k]))

=============================================================================
