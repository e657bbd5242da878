----------------------- MODULE StoreRefinementProofs -----------------------
(* The database implements the map of module SnapshotKV, for any sets of   *)
(* keys, values and threads, as long as the log can be written and no      *)
(* restart sets the clock back.                                            *)
EXTENDS StoreRecoveryProofs

-----------------------------------------------------------------------------
(* The refinement mapping *)

\* While a transaction is logged it is the decided one; otherwise none is
DecidedIsLogged ==
  /\ \A w \in Writer : pc[w] = "logged" => Decided = w
  /\ (\A w \in Writer : pc[w] # "logged") => Decided = None

\* The mutex makes the logged transaction unique
LEMMA DecidedUnique == Locking => DecidedIsLogged
<1> SUFFICES ASSUME Locking PROVE DecidedIsLogged
  OBVIOUS
<1>1. ASSUME NEW w \in Writer, pc[w] = "logged" PROVE Decided = w
  <2>1. \A x \in Writer : pc[x] = "logged" => x = w
    BY <1>1 DEF Locking, Holding, WriterPc
  <2>2. (CHOOSE x \in Writer : pc[x] = "logged") = w
    BY <1>1, <2>1
  <2> QED
    BY <1>1, <2>2 DEF Decided
<1>2. ASSUME \A w \in Writer : pc[w] # "logged" PROVE Decided = None
  BY <1>2 DEF Decided
<1> QED
  BY <1>1, <1>2 DEF DecidedIsLogged

\* Steps of transactions that begin, write, publish and end neither
LEMMA SameActive ==
  ASSUME \A x \in Writer :
           /\ pc'[x] \in {"running", "logged"} <=> pc[x] \in {"running", "logged"}
           /\ pc[x] \in {"running", "logged"} => fork'[x] = fork[x] /\ snapshot'[x] = snapshot[x]
  PROVE  Active' = Active
BY DEF Active, Reads

\* The state between "running" and "logged" that the other writers are not in
LEMMA OthersInactive ==
  ASSUME TypeRest, Locking, NEW w \in Writer, pc[w] \in Holding
  PROVE  /\ db = "open"
         /\ \A x \in Writer \ {w} : /\ pc[x] \in {"idle", "waiting"}
                                    /\ Active[x] = None
BY DEF TypeRest, Locking, Holding, WriterPc, Active

\* A transaction that reads is distinct from none
LEMMA ActiveReads ==
  ASSUME TypeRest, NEW w \in Writer
  PROVE  /\ pc[w] \in {"running", "logged"} => Active[w] = Reads(w) /\ Reads(w) # None
                                               /\ Reads(w) \in Table
         /\ pc[w] \notin {"running", "logged"} => Active[w] = None
<1>1. Reads(w) \in Table
  BY ViewType DEF TypeRest, Readable, Reads
<1> QED
  BY <1>1, NoTableAssumption DEF Active

\* Inserting into a fork changes what the transaction reads at that key
LEMMA ViewInsert ==
  ASSUME NEW memtable \in Table, NEW sstables, NEW k \in Key, NEW v \in Value
  PROVE  View(insert(memtable, k, v), sstables) = [View(memtable, sstables) EXCEPT ![k] = v]
<1>1. ASSUME NEW x \in Key
      PROVE  get(insert(memtable, k, v), sstables, x)
               = IF x = k THEN v ELSE get(memtable, sstables, x)
  BY NoneAssumption DEF get, insert, Table
<1> QED
  BY <1>1 DEF View

-----------------------------------------------------------------------------
(* The steps *)

\* What the states of a behaviour without failures of the log satisfy
Ready ==
  /\ Inductive /\ NewestIsOnTop /\ LogSound /\ Tables /\ DecidedIsLogged
  /\ tally["walErrors"] = 0 /\ tally["staleRestarts"] = 0

\* The maps of SnapshotKV that depend on shared state only
LEMMA SameMaps ==
  /\ UNCHANGED readable => Visible' = Visible
  /\ UNCHANGED ssts => OnDisk' = OnDisk
  /\ UNCHANGED db => Status' = Status
  /\ UNCHANGED ro => Held' = Held
  /\ UNCHANGED ssts /\ LogTable' = LogTable => Recovered' = Recovered
BY DEF Visible, OnDisk, Status, Held, Recovered, LogTable

\* The decided transaction changes only with the set of logged ones
LEMMA SameDecided ==
  ASSUME DecidedIsLogged, DecidedIsLogged',
         \A x \in Writer : pc'[x] = "logged" <=> pc[x] = "logged"
  PROVE  Decided' = Decided
<1>1. CASE \E w \in Writer : pc[w] = "logged"
  BY <1>1 DEF DecidedIsLogged
<1>2. CASE \A w \in Writer : pc[w] # "logged"
  BY <1>2 DEF DecidedIsLogged
<1> QED
  BY <1>1, <1>2

\* Steps that SnapshotKV does not see: waiting for the mutex, taking it, writing
\* the temporary file, swapping the SSTable for the MemTable, the clock
LEMMA Stutters ==
  ASSUME Ready, Ready', UNCHANGED <<ssts, db, ro, writes>>, Visible' = Visible,
         LogTable' = LogTable,
         \A x \in Writer :
           /\ pc'[x] = "logged" <=> pc[x] = "logged"
           /\ pc'[x] = "running" <=> pc[x] = "running"
           /\ pc[x] \in {"running", "logged"} => fork'[x] = fork[x] /\ snapshot'[x] = snapshot[x]
  PROVE  UNCHANGED Abstract!vars
<1>1. Status' = Status /\ OnDisk' = OnDisk /\ Held' = Held /\ Recovered' = Recovered
  BY SameMaps
<1>2. Active' = Active
  BY SameActive
<1>3. Decided' = Decided
  BY SameDecided DEF Ready
<1> QED
  BY <1>1, <1>2, <1>3 DEF Abstract!vars

\* Loading the snapshot is the begin of SnapshotKV
LEMMA LoadBegins ==
  ASSUME Ready, Ready', NEW w \in Writer, Load(w)
  PROVE  Abstract!Begin(w)
<1>1. /\ UNCHANGED <<wal, ssts, readable, db, ro, writes>> /\ pc[w] = "locked"
      /\ pc' = [pc EXCEPT ![w] = "running"] /\ pc \in [Writer -> WriterPc]
      /\ fork' = [fork EXCEPT ![w] = readable.active]
      /\ snapshot' = [snapshot EXCEPT ![w] = readable]
      /\ DOMAIN fork = Writer /\ DOMAIN snapshot = Writer
  BY DEF Load, Goto, Ready, Inductive, TypeRest, disk, ghosts
<1>2. db = "open" /\ \A x \in Writer \ {w} : pc[x] \in {"idle", "waiting"}
  BY <1>1, OthersInactive DEF Ready, Inductive, Holding, WriterPc
<1>3. /\ Visible' = Visible /\ OnDisk' = OnDisk /\ Status' = Status /\ Held' = Held
      /\ Recovered' = Recovered
  BY <1>1, SameMaps DEF LogTable
<1>4. \A x \in Writer : pc'[x] = "logged" <=> pc[x] = "logged"
  BY <1>1
<1>5. Decided' = Decided
  BY <1>4, SameDecided DEF Ready
<1>6. \A x \in Writer : Active[x] = None
  BY <1>1, <1>2 DEF Active
<1>7. Active' = [Active EXCEPT ![w] = Visible]
  <2>1. ASSUME NEW x \in Writer
        PROVE  Active'[x] = IF x = w THEN Visible ELSE None
    <3>1. CASE x = w
      BY <1>1, <3>1 DEF Active, Reads, Visible
    <3>2. CASE x # w
      BY <1>1, <1>2, <3>2 DEF Active
    <3> QED
      BY <3>1, <3>2
  <2> QED
    BY <1>6, <2>1 DEF Active
<1>8. Status = "up"
  BY <1>2 DEF Status
<1> QED
  BY <1>1, <1>3, <1>5, <1>6, <1>7, <1>8 DEF Abstract!Begin

\* An insert writes one key of the transaction's map
LEMMA InsertWrites ==
  ASSUME Ready, Ready', NEW w \in Writer, NEW k \in Key, NEW v \in Value, Insert(w, k, v)
  PROVE  Abstract!Write(w, k, v)
<1>1. /\ UNCHANGED <<ssts, readable, db, ro, pc, snapshot>> /\ pc[w] = "running"
      /\ fork' = [fork EXCEPT ![w] = insert(fork[w], k, v)]
      /\ writes' = [writes EXCEPT ![w] = insert(writes[w], k, v)]
      /\ DOMAIN fork = Writer /\ fork[w] \in Table
  BY DEF Insert, Ready, Inductive, TypeRest
<1>2. \A x \in Writer \ {w} : pc[x] \in {"idle", "waiting"} /\ Active[x] = None
  BY <1>1, OthersInactive DEF Ready, Inductive, Holding, WriterPc
<1>3. /\ Visible' = Visible /\ OnDisk' = OnDisk /\ Status' = Status /\ Held' = Held
      /\ Recovered' = Recovered
  BY <1>1, SameMaps, InsertLog DEF Ready
<1>4. Decided' = Decided
  BY <1>1, SameDecided DEF Ready
<1>5. Decided = None
  BY <1>1, <1>2 DEF Ready, DecidedIsLogged
<1>6. Active[w] = Reads(w) /\ Reads(w) # None
  BY <1>1, ActiveReads DEF Ready, Inductive
<1>7. Reads(w)' = [Reads(w) EXCEPT ![k] = v]
  BY <1>1, ViewInsert DEF Reads
<1>8. Active' = [Active EXCEPT ![w] = [Reads(w) EXCEPT ![k] = v]]
  <2>1. ASSUME NEW x \in Writer
        PROVE  Active'[x] = IF x = w THEN [Reads(w) EXCEPT ![k] = v] ELSE Active[x]
    <3>1. CASE x = w
      BY <1>1, <1>7, <3>1 DEF Active
    <3>2. CASE x # w
      BY <1>1, <1>2, <3>2 DEF Active
    <3> QED
      BY <3>1, <3>2
  <2> QED
    BY <2>1 DEF Active
<1>9. Active' = [Active EXCEPT ![w][k] = v]
  BY <1>6, <1>8
<1>10. writes' = [writes EXCEPT ![w][k] = v]
  BY <1>1 DEF insert
<1> QED
  BY <1>3, <1>4, <1>5, <1>6, <1>9, <1>10 DEF Abstract!Write

\* The commit record decides the transaction: in one step all of its inserts,
\* and nothing else, are what a restart would recover
LEMMA WriteCommitDecides ==
  ASSUME Ready, Ready', NEW w \in Writer, WriteCommit(w)
  PROVE  Abstract!Decide(w)
<1>1. /\ UNCHANGED <<ssts, readable, db, ro, fork, snapshot, writes>> /\ pc[w] = "running"
      /\ pc' = [pc EXCEPT ![w] = "logged"] /\ pc \in [Writer -> WriterPc]
  BY DEF WriteCommit, Goto, Ready, Inductive, TypeRest
<1>2. \A x \in Writer \ {w} : pc[x] \in {"idle", "waiting"}
  BY <1>1, OthersInactive DEF Ready, Inductive, Holding, WriterPc
<1>3. /\ Visible' = Visible /\ OnDisk' = OnDisk /\ Status' = Status /\ Held' = Held
  BY <1>1, SameMaps
<1>4. Decided = None /\ Decided' = w
  BY <1>1, <1>2 DEF Ready, DecidedIsLogged
<1>5. Active' = Active
  <2>1. \A x \in Writer : pc'[x] \in {"running", "logged"} <=> pc[x] \in {"running", "logged"}
    BY <1>1
  <2> QED
    BY <1>1, <2>1, SameActive
<1>6. Active[w] # None
  BY <1>1, ActiveReads DEF Ready, Inductive
<1>7. Recovered' = Overlay(writes[w], Recovered)
  <2>1. LogTable' = Overlay(writes[w], LogTable)
    BY WriteCommitLog DEF Ready
  <2>2. writes[w] \in Table /\ LogTable \in Table /\ OnDisk \in Table
    BY TableTypes DEF Ready
  <2> QED
    BY <1>3, <2>1, <2>2, OverlayAssociates DEF Recovered, LogTable
<1>8. Recovered' = Abstract!Update(Recovered, writes[w])
  BY <1>7 DEF Abstract!Update, Overlay
<1> QED
  BY <1>1, <1>3, <1>4, <1>5, <1>6, <1>8 DEF Abstract!Decide

\* The end of a transaction, as SnapshotKV sees it
LEMMA Ended ==
  ASSUME Ready, Ready', NEW w \in Writer, pc[w] \in Holding,
         pc' = [pc EXCEPT ![w] = "idle"] \/ pc' = [pc EXCEPT ![w] = "flushing"]
  PROVE  /\ db = "open"
         /\ Decided' = None /\ (pc[w] # "logged" => Decided = None)
         /\ Active' = [Active EXCEPT ![w] = None]
<1>1. pc \in [Writer -> WriterPc]
  BY DEF Ready, Inductive, TypeRest
<1>2. /\ db = "open"
      /\ \A x \in Writer \ {w} : pc[x] \in {"idle", "waiting"} /\ Active[x] = None
  BY OthersInactive DEF Ready, Inductive
<1>3. \A x \in Writer : pc'[x] \in {"idle", "waiting", "flushing"}
  BY <1>1, <1>2
<1>4. Decided' = None
  BY <1>3 DEF Ready, DecidedIsLogged
<1>5. pc[w] # "logged" => Decided = None
  BY <1>2 DEF Ready, DecidedIsLogged
<1>6. \A x \in Writer : Active'[x] = None
  BY <1>3 DEF Active
<1>7. Active' = [Active EXCEPT ![w] = None]
  BY <1>2, <1>6 DEF Active
<1> QED
  BY <1>2, <1>4, <1>5, <1>7

\* commit() publishes: the transaction's map becomes the visible one
LEMMA PublishPublishes ==
  ASSUME Ready, Ready', NEW w \in Writer, Publish(w)
  PROVE  Abstract!Publish(w)
<1>1. /\ UNCHANGED <<wal, ssts, db, ro>> /\ pc[w] = "logged"
      /\ readable' = [active |-> fork[w], sstables |-> snapshot[w].sstables]
      /\ pc' = [pc EXCEPT ![w] = "idle"] \/ pc' = [pc EXCEPT ![w] = "flushing"]
      /\ writes' \in {writes, [writes EXCEPT ![w] = EmptyTable]}
  BY DEF Publish, Release, Goto, disk
<1>2. Decided = w
  BY <1>1 DEF Ready, DecidedIsLogged
<1>3. Decided' = None /\ Active' = [Active EXCEPT ![w] = None]
  BY <1>1, Ended DEF Holding, WriterPc
<1>4. OnDisk' = OnDisk /\ Status' = Status /\ Held' = Held /\ Recovered' = Recovered
  BY <1>1, SameMaps DEF LogTable
<1>5. Visible' = Active[w]
  BY <1>1 DEF Visible, Active, Reads
<1>6. writes' \in {writes, [writes EXCEPT ![w] = Abstract!Empty]}
  BY <1>1 DEF Abstract!Empty, EmptyTable
<1> QED
  BY <1>2, <1>3, <1>4, <1>5, <1>6 DEF Abstract!Publish

\* An abort discards the transaction's map
LEMMA AbortAborts ==
  ASSUME Ready, Ready', NEW w \in Writer, Abort(w)
  PROVE  Abstract!Abort(w)
<1>1. /\ UNCHANGED <<ssts, readable, db, ro>> /\ pc[w] = "running"
      /\ pc' = [pc EXCEPT ![w] = "idle"]
      /\ writes' = [writes EXCEPT ![w] = EmptyTable]
  BY DEF Abort, Release, Goto
<1>2. Decided = None /\ Decided' = None /\ Active' = [Active EXCEPT ![w] = None]
  BY <1>1, Ended DEF Holding, WriterPc
<1>3. /\ Visible' = Visible /\ OnDisk' = OnDisk /\ Status' = Status /\ Held' = Held
      /\ Recovered' = Recovered
  BY <1>1, SameMaps, AbortLog DEF Ready
<1>4. Active[w] # None
  BY <1>1, ActiveReads DEF Ready, Inductive
<1>5. writes' = [writes EXCEPT ![w] = Abstract!Empty]
  BY <1>1 DEF Abstract!Empty, EmptyTable
<1>6. Decided # w
  BY <1>2, ThreadAssumption
<1> QED
  BY <1>2, <1>3, <1>4, <1>5, <1>6 DEF Abstract!Abort

\* The rename that gives the SSTable its name is the flush of SnapshotKV
LEMMA RenameFlushes ==
  ASSUME Ready, Ready', NEW w \in Writer, FlushRename(w)
  PROVE  Abstract!Flush
<1>1. /\ UNCHANGED <<wal, readable, db, ro, fork, snapshot, writes>> /\ pc[w] = "written"
      /\ pc' = [pc EXCEPT ![w] = "renamed"] /\ pc \in [Writer -> WriterPc]
  BY DEF FlushRename, Goto, Ready, Inductive, TypeRest
<1>2. Visible' = Visible /\ OnDisk' = Visible /\ Recovered' = Visible
  BY <1>1, TablesRename DEF LogTable, Ready, Inductive
<1>3. db = "open" /\ \A x \in Writer : pc[x] # "logged"
  BY <1>1, OthersInactive DEF Ready, Inductive, Holding, WriterPc
<1>4. \A x \in Writer : /\ pc'[x] = "logged" <=> pc[x] = "logged"
                        /\ pc'[x] \in {"running", "logged"} <=> pc[x] \in {"running", "logged"}
  BY <1>1
<1>5. Active' = Active /\ Decided' = Decided
  BY <1>1, <1>4, SameActive, SameDecided DEF Ready
<1>6. Status = "up" /\ Decided = None
  BY <1>3 DEF Ready, DecidedIsLogged, Status
<1>7. Status' = Status /\ Held' = Held
  BY <1>1, SameMaps
<1> QED
  BY <1>1, <1>2, <1>5, <1>6, <1>7 DEF Abstract!Flush

\* A flush that ends or fails forgets what its transaction wrote
LEMMA FlushForgets ==
  ASSUME Ready, Ready', NEW w \in Writer, WalReset(w) \/ FlushFails(w)
  PROVE  Abstract!Forget(w)
<1>1. /\ UNCHANGED <<ssts, readable, db, ro>>
      /\ pc[w] \in {"flushing", "written", "renamed", "swapped"}
      /\ pc' = [pc EXCEPT ![w] = "idle"]
      /\ writes' = [writes EXCEPT ![w] = EmptyTable]
  BY DEF WalReset, FlushFails, Release, Goto
<1>2. Decided = None /\ Decided' = None /\ Active' = [Active EXCEPT ![w] = None]
  BY <1>1, Ended DEF Holding, WriterPc
<1>3. Active[w] = None
  BY <1>1 DEF Active
<1>4. Active' = Active
  BY <1>2, <1>3 DEF Active
<1>5. /\ Visible' = Visible /\ OnDisk' = OnDisk /\ Status' = Status /\ Held' = Held
  BY <1>1, SameMaps
<1>6. Recovered' = Recovered
  <2>1. CASE WalReset(w)
    <3>1. wal' = create /\ \A x \in Writer : pc'[x] # "running"
      BY <1>1, <2>1, EmptyLogs, OthersInactive DEF WalReset, Ready, Inductive, TypeRest, Holding, WriterPc
    <3>2. LogTable' = EmptyTable
      BY <3>1, EmptiedLog
    <3> QED
      BY <2>1, <3>2, TablesReset DEF Ready
  <2>2. CASE FlushFails(w)
    BY <1>1, <2>2, SameMaps DEF FlushFails, LogTable
  <2> QED
    BY <2>1, <2>2
<1>7. writes' = [writes EXCEPT ![w] = Abstract!Empty]
  BY <1>1 DEF Abstract!Empty, EmptyTable
<1> QED
  BY <1>2, <1>3, <1>4, <1>5, <1>6, <1>7 DEF Abstract!Forget

\* What a transaction reads over a snapshot is not None
LEMMA HeldIsMap ==
  ASSUME Ready, NEW r \in Reader
  PROVE  Held[r] = None <=> ro[r] = None
<1>1. ro[r] \in Readable \cup {None}
  BY DEF Ready, Inductive, TypeRest
<1>2. ASSUME ro[r] # None PROVE View(ro[r].active, ro[r].sstables) # None
  BY <1>1, <1>2, ViewType, NoTableAssumption DEF Readable
<1> QED
  BY <1>2 DEF Held

\* A read-only transaction holds the map that was visible when it began
LEMMA ReadonlyBegins ==
  ASSUME Ready, Ready', NEW r \in Reader, BeginReadonly(r)
  PROVE  Abstract!BeginReadonly(r)
<1>1. /\ UNCHANGED <<wal, ssts, readable, db, writes, pc, fork, snapshot>>
      /\ db = "open" /\ ro[r] = None /\ ro' = [ro EXCEPT ![r] = readable]
      /\ DOMAIN ro = Reader /\ readable \in Readable
  BY DEF BeginReadonly, disk, ghosts, Ready, Inductive, TypeRest
<1>2. /\ Visible' = Visible /\ OnDisk' = OnDisk /\ Status' = Status /\ Recovered' = Recovered
      /\ Active' = Active /\ Decided' = Decided
  BY <1>1, SameMaps, SameActive, SameDecided DEF LogTable, Ready
<1>3. Status = "up" /\ Held[r] = None
  BY <1>1, HeldIsMap DEF Status
<1>4. Held' = [Held EXCEPT ![r] = Visible]
  <2>1. ASSUME NEW x \in Reader
        PROVE  Held'[x] = IF x = r THEN Visible ELSE Held[x]
    <3>1. CASE x = r
      BY <1>1, <3>1, NoReadableAssumption DEF Held, Visible
    <3>2. CASE x # r
      BY <1>1, <3>2 DEF Held
    <3> QED
      BY <3>1, <3>2
  <2> QED
    BY <2>1 DEF Held
<1> QED
  BY <1>1, <1>2, <1>3, <1>4 DEF Abstract!BeginReadonly

\* Dropping a read-only transaction drops its map
LEMMA ReadonlyEnds ==
  ASSUME Ready, Ready', NEW r \in Reader, EndReadonly(r)
  PROVE  Abstract!EndReadonly(r)
<1>1. /\ UNCHANGED <<wal, ssts, readable, db, writes, pc, fork, snapshot>>
      /\ ro[r] # None /\ ro' = [ro EXCEPT ![r] = None] /\ DOMAIN ro = Reader
  BY DEF EndReadonly, disk, ghosts, Ready, Inductive, TypeRest
<1>2. /\ Visible' = Visible /\ OnDisk' = OnDisk /\ Status' = Status /\ Recovered' = Recovered
      /\ Active' = Active /\ Decided' = Decided
  BY <1>1, SameMaps, SameActive, SameDecided DEF LogTable, Ready
<1>3. Held[r] # None
  BY <1>1, HeldIsMap
<1>4. Held' = [Held EXCEPT ![r] = None]
  BY <1>1 DEF Held
<1> QED
  BY <1>1, <1>2, <1>3, <1>4 DEF Abstract!EndReadonly

\* Db::open shows what was stable, then makes stable what was flushed
LEMMA OpenRecovers ==
  ASSUME Ready, Ready', OpenLoad
  PROVE  Abstract!Recover
<1>1. /\ UNCHANGED <<wal, ssts, ro, writes, pc, fork, snapshot>>
      /\ db = "closed" /\ db' = "loaded"
  BY DEF OpenLoad, ghosts
<1>2. /\ OnDisk' = OnDisk /\ Held' = Held /\ Recovered' = Recovered
      /\ Active' = Active /\ Decided' = Decided
  BY <1>1, SameMaps, SameActive, SameDecided DEF LogTable, Ready
<1>3. Visible' = Recovered
  BY <1>1, TablesLoad DEF LogTable, Ready
<1>4. Status = "down" /\ Status' = "recovered"
  BY <1>1 DEF Status
<1> QED
  BY <1>1, <1>2, <1>3, <1>4 DEF Abstract!Recover

\* The new log: what was replayed from the old one is no longer stable
LEMMA OpenResumes ==
  ASSUME Ready, Ready', OpenCreate
  PROVE  Abstract!Resume
<1>1. /\ UNCHANGED <<ssts, readable, ro, writes, pc, fork, snapshot>> /\ wal' = create
      /\ db = "loaded" /\ db' = "open"
  BY DEF OpenCreate
<1>2. /\ Visible' = Visible /\ OnDisk' = OnDisk /\ Held' = Held
      /\ Active' = Active /\ Decided' = Decided
  BY <1>1, SameMaps, SameActive, SameDecided DEF Ready
<1>3. Recovered' = OnDisk
  <2>1. Replayed(wal'.file) = EmptyTable /\ OnDisk \in Table
    BY <1>1, CreateReplays, TableTypes DEF Ready
  <2> QED
    BY <1>2, <2>1, OverlayEmpty DEF Recovered
<1>4. Status = "recovered" /\ Status' = "up"
  BY <1>1 DEF Status
<1> QED
  BY <1>1, <1>2, <1>3, <1>4 DEF Abstract!Resume

\* Closing, crashing and a failed open stop the database
LEMMA Stops ==
  ASSUME Ready, Ready', UNCHANGED ssts, LogTable' = LogTable,
         db' = "closed", readable' = EmptyReadable,
         \A x \in Writer : pc'[x] = "idle",
         writes' = [x \in Writer |-> EmptyTable],
         ro' = ro \/ ro' = [r \in Reader |-> None]
  PROVE  Abstract!Stop
<1>1. Status' = "down"
  BY DEF Status
<1>2. Visible' = Abstract!Empty
  BY ViewEmpty DEF Visible, EmptyReadable, Abstract!Empty, EmptyTable
<1>3. Decided' = None
  BY DEF Ready, DecidedIsLogged
<1>4. Active' = [x \in Writer |-> None]
  BY DEF Active
<1>5. writes' = [x \in Writer |-> Abstract!Empty]
  BY DEF EmptyTable, Abstract!Empty
<1>6. Held' \in {Held, [r \in Reader |-> None]}
  BY DEF Held
<1>7. OnDisk' = OnDisk /\ Recovered' = Recovered
  BY SameMaps
<1> QED
  BY <1>1, <1>2, <1>3, <1>4, <1>5, <1>6, <1>7 DEF Abstract!Stop

-----------------------------------------------------------------------------
(* The refinement *)

\* Every step of the database is a step of SnapshotKV or leaves its state alone
LEMMA RefinementStep ==
  ASSUME Ready, Ready', [Next]_vars
  PROVE  [Abstract!Next]_(Abstract!vars)
<1> DEFINE Goal == [Abstract!Next]_(Abstract!vars)
<1>a. /\ pc \in [Writer -> WriterPc] /\ tally \in [Counted -> Nat]
      /\ tally["walErrors"] = 0 /\ tally'["walErrors"] = 0
      /\ tally["staleRestarts"] = 0 /\ tally'["staleRestarts"] = 0
      /\ writes \in [Writer -> Table]
  BY DEF Ready, Inductive, TypeRest
<1>b. ASSUME Count("walErrors") PROVE FALSE
  BY <1>a, <1>b DEF Count, Counted
<1>c. UNCHANGED <<wal, readable>> => Visible' = Visible /\ LogTable' = LogTable
  BY SameMaps DEF LogTable
\* Moves of a writer outside its transaction
<1>d. ASSUME NEW w \in Writer, NEW label \in WriterPc, Goto(w, label),
             pc[w] \notin {"running", "logged"}, label \notin {"running", "logged"}
      PROVE  \A x \in Writer : /\ pc'[x] = "logged" <=> pc[x] = "logged"
                               /\ pc'[x] = "running" <=> pc[x] = "running"
  BY <1>a, <1>d DEF Goto
<1>1. ASSUME NEW w \in Writer, Begin(w) PROVE Goal
  <2>1. \A x \in Writer : /\ pc'[x] = "logged" <=> pc[x] = "logged"
                          /\ pc'[x] = "running" <=> pc[x] = "running"
    BY <1>1, <1>d DEF Begin, WriterPc
  <2> QED
    BY <1>1, <1>c, <2>1, Stutters DEF Begin, disk, ghosts
<1>2. ASSUME NEW w \in Writer, Lock(w) PROVE Goal
  <2>1. \A x \in Writer : /\ pc'[x] = "logged" <=> pc[x] = "logged"
                          /\ pc'[x] = "running" <=> pc[x] = "running"
    BY <1>2, <1>d DEF Lock, WriterPc
  <2> QED
    BY <1>2, <1>c, <2>1, Stutters DEF Lock, disk, ghosts
<1>3. ASSUME NEW w \in Writer, Load(w) PROVE Goal
  BY <1>3, LoadBegins DEF Abstract!Next
<1>4. ASSUME NEW w \in Writer, NEW k \in Key, NEW v \in Value, Insert(w, k, v)
      PROVE  Goal
  BY <1>4, InsertWrites DEF Abstract!Next
<1>5. ASSUME NEW w \in Writer, NEW k \in Key, NEW v \in Value, InsertFails(w, k, v)
      PROVE  Goal
  BY <1>5, <1>b DEF InsertFails
<1>6. ASSUME NEW w \in Writer, WriteCommit(w) PROVE Goal
  BY <1>6, WriteCommitDecides DEF Abstract!Next
<1>7. ASSUME NEW w \in Writer, CommitFails(w) PROVE Goal
  BY <1>7, <1>b DEF CommitFails
<1>8. ASSUME NEW w \in Writer, Publish(w) PROVE Goal
  BY <1>8, PublishPublishes DEF Abstract!Next
<1>9. ASSUME NEW w \in Writer, Abort(w) PROVE Goal
  BY <1>9, AbortAborts DEF Abstract!Next
<1>10. ASSUME NEW w \in Writer, AbortFails(w) PROVE Goal
  BY <1>10, <1>b DEF AbortFails
<1>11. ASSUME NEW w \in Writer, FlushWrite(w) PROVE Goal
  <2>1. \A x \in Writer : /\ pc'[x] = "logged" <=> pc[x] = "logged"
                          /\ pc'[x] = "running" <=> pc[x] = "running"
    BY <1>11, <1>d DEF FlushWrite, WriterPc
  <2> QED
    BY <1>11, <1>c, <2>1, Stutters DEF FlushWrite
<1>12. ASSUME NEW w \in Writer, FlushRename(w) PROVE Goal
  BY <1>12, RenameFlushes DEF Abstract!Next
<1>13. ASSUME NEW w \in Writer, FlushSwap(w) PROVE Goal
  <2>1. \A x \in Writer : /\ pc'[x] = "logged" <=> pc[x] = "logged"
                          /\ pc'[x] = "running" <=> pc[x] = "running"
    BY <1>13, <1>d DEF FlushSwap, WriterPc
  <2>2. LogTable' = LogTable
    BY <1>13 DEF FlushSwap, disk, LogTable
  <2>3. Visible' = Visible
    BY <1>13, <2>2, TablesSwap DEF Ready
  <2> QED
    BY <1>13, <2>1, <2>2, <2>3, Stutters DEF FlushSwap, disk, ghosts
<1>14. ASSUME NEW w \in Writer, WalReset(w) PROVE Goal
  BY <1>14, FlushForgets DEF Abstract!Next
<1>15. ASSUME NEW w \in Writer, FlushFails(w) PROVE Goal
  BY <1>15, FlushForgets DEF Abstract!Next
<1>16. ASSUME NEW r \in Reader, BeginReadonly(r) PROVE Goal
  BY <1>16, ReadonlyBegins DEF Abstract!Next
<1>17. ASSUME NEW r \in Reader, EndReadonly(r) PROVE Goal
  BY <1>17, ReadonlyEnds DEF Abstract!Next
<1>18. CASE OpenLoad
  BY <1>18, OpenRecovers DEF Abstract!Next
<1>19. CASE OpenCreate
  BY <1>19, OpenResumes DEF Abstract!Next
\* Without a transaction there is nothing to forget
<1>e. ASSUME \A x \in Writer : pc[x] = "idle" PROVE writes = [x \in Writer |-> EmptyTable]
  BY <1>a, <1>e DEF Ready, Inductive, Locals
<1>20. CASE OpenFails
  <2>1. /\ UNCHANGED <<wal, ssts, ro, writes, pc>> /\ db = "loaded" /\ db' = "closed"
        /\ readable' = EmptyReadable
    BY <1>20 DEF OpenFails, disk
  <2>2. \A x \in Writer : pc[x] = "idle"
    BY <2>1 DEF Ready, Inductive, Locking
  <2> QED
    BY <1>e, <2>1, <2>2, Stops DEF LogTable, Abstract!Next
<1>21. CASE Close
  <2>1. /\ UNCHANGED <<wal, ssts, ro, writes, pc>> /\ db' = "closed"
        /\ readable' = EmptyReadable /\ \A x \in Writer : pc[x] = "idle"
    BY <1>21 DEF Close, disk
  <2> QED
    BY <1>e, <2>1, Stops DEF LogTable, Abstract!Next
<1>22. CASE Crash
  <2>1. /\ UNCHANGED ssts /\ db' = "closed" /\ readable' = EmptyReadable
        /\ \A x \in Writer : pc'[x] = "idle"
        /\ writes' = [x \in Writer |-> EmptyTable]
        /\ ro' = [r \in Reader |-> None]
    BY <1>22 DEF Crash, Dies
  <2>2. LogTable' = LogTable
    BY <1>22, CrashLog DEF Ready, Crash
  <2> QED
    BY <2>1, <2>2, Stops DEF Abstract!Next
<1>25. CASE CrashStale
  BY <1>a, <1>25 DEF CrashStale, Count, Counted
<1>23. CASE Tick
  BY <1>23, <1>c, Stutters DEF Tick, disk, memory, ghosts
<1>24. CASE UNCHANGED vars
  BY <1>24, <1>c, Stutters DEF vars
<1> QED
  BY <1>1, <1>2, <1>3, <1>4, <1>5, <1>6, <1>7, <1>8, <1>9, <1>10, <1>11, <1>12,
     <1>13, <1>14, <1>15, <1>16, <1>17, <1>18, <1>19, <1>20, <1>21, <1>22, <1>23, <1>24, <1>25
  DEF Next, Inserts, Proceed, Open

\* A database that was never opened is the empty map
LEMMA RefinementInit == Init => Abstract!Init
<1> SUFFICES ASSUME Init PROVE Abstract!Init
  OBVIOUS
<1>1. /\ wal = create /\ ssts = <<>> /\ db = "closed" /\ readable = EmptyReadable
      /\ \A w \in Writer : pc[w] = "idle"
      /\ writes = [w \in Writer |-> EmptyTable] /\ ro = [r \in Reader |-> None]
  BY DEF Init
<1>2. EmptyTable = Abstract!Empty
  BY DEF EmptyTable, Abstract!Empty
<1>3. Visible = EmptyTable
  BY <1>1, ViewEmpty DEF Visible, EmptyReadable
<1>4. OnDisk = EmptyTable
  <2>1. DOMAIN <<>> = {}
    OBVIOUS
  <2> QED
    BY <1>1, <2>1 DEF OnDisk, Merged, EmptyTable
<1>5. Recovered = EmptyTable
  BY <1>1, <1>4, CreateReplays, OverlayEmpty, TableType DEF Recovered
<1>6. Status = "down" /\ Decided = None
  BY <1>1 DEF Status, Decided
<1>7. Active = [w \in Writer |-> None] /\ Held = [r \in Reader |-> None]
  BY <1>1 DEF Active, Held
<1> QED
  BY <1>1, <1>2, <1>3, <1>4, <1>5, <1>6, <1>7 DEF Abstract!Init

\* The database implements SnapshotKV in every behaviour in which no write or
\* truncation of the log fails and every new process starts in a clock window
\* past the timestamps issued before: whatever the threads do and wherever the
\* process dies, writers are serial, readers hold a snapshot, a commit becomes
\* stable in one step and before it is visible, and a restart resumes from the
\* stable map
THEOREM StoreImplementsSnapshotKV ==
  Spec /\ [](tally["walErrors"] = 0 /\ tally["staleRestarts"] = 0) => ImplementsSnapshotKV
<1>1. Inductive /\ NewestIsOnTop /\ Recovery /\ tally["walErrors"] = 0 /\ tally["staleRestarts"] = 0
        => Ready
  BY DecidedUnique DEF Ready, Recovery, Inductive
<1>2. Ready /\ Ready' /\ [Next]_vars => [Abstract!Next]_(Abstract!vars)
  BY RefinementStep
<1> QED
  BY <1>1, <1>2, RefinementInit, StoreInductive, StoreNewestIsOnTop, StoreRecovery, PTL
  DEF Spec, ImplementsSnapshotKV, Abstract!Spec

=============================================================================
