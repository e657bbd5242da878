-------------------------- MODULE StoreNamesProofs --------------------------
(* The files of the database directory other than the log: the order of    *)
(* the names of the SSTables, and how many temporary files there are.      *)
EXTENDS StoreProofs

-----------------------------------------------------------------------------
(* Names of SSTables *)

\* The next timestamp is past every one issued before
Fresh == clock * Window >= high \/ counter >= high

\* Every name given since the last stale restart is a timestamp issued since, and
\* a temporary file waiting for its rename carries the newest one
Naming ==
  /\ Fresh
  /\ \A i \in DOMAIN flushes : flushes[i] <= high
  /\ \A w \in Writer : pc[w] = "written" =>
       flush_ts[w] <= high /\ \A i \in DOMAIN flushes : flushes[i] < flush_ts[w]
  /\ LaterFlushesHaveGreaterNames

\* Without a stale restart that is true of all the SSTables on disk
NewestIsOnTop ==
  tally["staleRestarts"] = 0 =>
    /\ \A ts \in DOMAIN ssts : ts <= high
    /\ \A w \in Writer : pc[w] = "written" => \A u \in DOMAIN ssts : u < flush_ts[w]

\* Timestamp::now of hlc.rs returns a timestamp past every earlier one as long
\* as the counter or the clock is
LEMMA TakeFresh ==
  ASSUME TypeRest, Fresh, TakeTimestamp
  PROVE  Fresh' /\ high' = NextTimestamp /\ NextTimestamp > high
<1>1. clock * Window \in Nat
  BY WindowAssumption DEF TypeRest
<1>2. clock' * Window = clock * Window
  BY DEF TakeTimestamp
<1> QED
  BY <1>1, <1>2 DEF TypeRest, Fresh, TakeTimestamp, NextTimestamp

\* Every step keeps the names in the order of the flushes: the writer that holds
\* a newest name is the only one that can rename, because it holds the mutex, and
\* a stale restart begins another order
LEMMA NamingStep ==
  TypeRest /\ Locking /\ Naming /\ [Next]_vars => Naming'
<1> SUFFICES ASSUME TypeRest, Locking, Naming, [Next]_vars PROVE Naming'
  OBVIOUS
<1>a. DOMAIN flushes \subseteq Nat /\ flushes \in [DOMAIN flushes -> Nat]
  BY LenProperties DEF TypeRest
<1> USE <1>a DEF TypeRest, WriterPc, Goto, disk, memory, time, ghosts
<1>b. ASSUME UNCHANGED <<clock, counter, high, flushes>>,
             \A w \in Writer : pc'[w] = "written" => pc[w] = "written" /\ flush_ts'[w] = flush_ts[w]
      PROVE  Naming'
  BY <1>b DEF Naming, Fresh, LaterFlushesHaveGreaterNames
<1>c. ASSUME TakeTimestamp, UNCHANGED flushes,
             \A w \in Writer : pc'[w] # "written"
      PROVE  Naming'
  <2>1. Fresh' /\ high' > high /\ high' \in Nat
    BY <1>c, TakeFresh, TakeTimestampType DEF Naming
  <2>2. \A i \in DOMAIN flushes' : flushes'[i] <= high'
    BY <1>c, <2>1 DEF Naming
  <2> QED
    BY <1>c, <2>1, <2>2 DEF Naming, LaterFlushesHaveGreaterNames
<1>d. ASSUME NEW w \in Writer, pc[w] \in Holding \ {"written"}
      PROVE  \A x \in Writer : pc[x] # "written"
  BY <1>c, <1>d DEF Locking, Holding
<1>1. ASSUME NEW w \in Writer, Begin(w) PROVE Naming'
  BY <1>1, <1>b DEF Begin
<1>2. ASSUME NEW w \in Writer, Lock(w) PROVE Naming'
  BY <1>2, <1>b DEF Lock
<1>3. ASSUME NEW w \in Writer, Load(w) PROVE Naming'
  BY <1>3, <1>b DEF Load
<1>4. ASSUME NEW w \in Writer, NEW k \in Key, NEW v \in Value, Insert(w, k, v)
      PROVE  Naming'
  BY <1>4, <1>b DEF Insert
<1>5. ASSUME NEW w \in Writer, NEW k \in Key, NEW v \in Value, InsertFails(w, k, v)
      PROVE  Naming'
  BY <1>5, <1>b DEF InsertFails
<1>6. ASSUME NEW w \in Writer, WriteCommit(w) PROVE Naming'
  BY <1>6, <1>c, <1>c, <1>d DEF WriteCommit, Holding
<1>7. ASSUME NEW w \in Writer, CommitFails(w) PROVE Naming'
  BY <1>7, <1>c, <1>c, <1>d DEF CommitFails, Release, Holding
<1>8. ASSUME NEW w \in Writer, Publish(w) PROVE Naming'
  BY <1>8, <1>b DEF Publish, Release
<1>9. ASSUME NEW w \in Writer, Abort(w) PROVE Naming'
  BY <1>9, <1>b DEF Abort, Release
<1>10. ASSUME NEW w \in Writer, AbortFails(w) PROVE Naming'
  BY <1>10, <1>b DEF AbortFails, Release
<1>11. ASSUME NEW w \in Writer, FlushWrite(w) PROVE Naming'
  <2>1. Fresh' /\ high' = NextTimestamp /\ NextTimestamp > high /\ NextTimestamp \in Nat
    BY <1>11, TakeFresh, NextTimestampType DEF FlushWrite, Naming
  <2>2. \A x \in Writer : pc'[x] = "written" => x = w /\ flush_ts'[w] = NextTimestamp
    BY <1>11, <1>c, <1>d DEF FlushWrite, Holding
  <2> QED
    BY <1>11, <2>1, <2>2 DEF FlushWrite, Naming, LaterFlushesHaveGreaterNames
<1>12. ASSUME NEW w \in Writer, FlushRename(w) PROVE Naming'
  <2>1. flush_ts[w] <= high /\ \A i \in DOMAIN flushes : flushes[i] < flush_ts[w]
    BY <1>12 DEF FlushRename, Naming
  <2>2. \A x \in Writer : pc'[x] # "written"
    BY <1>12 DEF FlushRename, Locking, Holding
  <2>3. UNCHANGED <<clock, counter, high>>
    BY <1>12 DEF FlushRename
  <2>4. /\ DOMAIN flushes = 1..Len(flushes) /\ Len(flushes) \in Nat
        /\ DOMAIN flushes' = 1..(Len(flushes) + 1)
        /\ \A i \in DOMAIN flushes : flushes'[i] = flushes[i]
        /\ flushes'[Len(flushes) + 1] = flush_ts[w]
    <3>1. flush_ts[w] \in Nat
      OBVIOUS
    <3>2. flushes' \in Seq(Nat) /\ Len(flushes') = Len(flushes) + 1
      BY <1>12, AppendProperties DEF FlushRename
    <3> QED
      BY <1>12, <3>1, <3>2, AppendProperties, LenProperties DEF FlushRename
  <2>5. Fresh'
    BY <2>3 DEF Naming, Fresh
  <2>6. \A i \in DOMAIN flushes' :
          \/ i \in DOMAIN flushes /\ flushes'[i] = flushes[i]
          \/ i = Len(flushes) + 1 /\ flushes'[i] = flush_ts[w]
    BY <2>4
  <2>7. LaterFlushesHaveGreaterNames'
    <3> SUFFICES ASSUME NEW i \in DOMAIN flushes', NEW j \in DOMAIN flushes', i < j
                 PROVE  flushes'[i] < flushes'[j]
      BY DEF LaterFlushesHaveGreaterNames
    <3>1. i \in DOMAIN flushes /\ flushes'[i] = flushes[i]
      BY <2>4
    <3> QED
      BY <2>1, <2>6, <3>1 DEF Naming, LaterFlushesHaveGreaterNames
  <2>8. \A i \in DOMAIN flushes' : flushes'[i] <= high'
    BY <2>1, <2>3, <2>6 DEF Naming
  <2> QED
    BY <2>1, <2>2, <2>3, <2>5, <2>7, <2>8 DEF Naming
<1>13. ASSUME NEW w \in Writer, FlushSwap(w) PROVE Naming'
  BY <1>13, <1>b DEF FlushSwap
<1>14. ASSUME NEW w \in Writer, WalReset(w) PROVE Naming'
  BY <1>14, <1>b DEF WalReset, Release
<1>15. ASSUME NEW w \in Writer, FlushFails(w) PROVE Naming'
  <2>1. CASE pc[w] = "flushing"
    BY <1>15, <2>1, <1>c, <1>c, <1>d DEF FlushFails, Release, Holding
  <2>2. CASE pc[w] # "flushing"
    BY <1>15, <2>2, <1>b DEF FlushFails, Release
  <2> QED
    BY <2>1, <2>2
<1>16. ASSUME NEW r \in Reader, BeginReadonly(r) PROVE Naming'
  BY <1>16, <1>b DEF BeginReadonly
<1>17. ASSUME NEW r \in Reader, EndReadonly(r) PROVE Naming'
  BY <1>17, <1>b DEF EndReadonly
<1>18. CASE OpenLoad
  BY <1>18, <1>b DEF OpenLoad
<1>19. CASE OpenFails
  BY <1>19, <1>b DEF OpenFails
<1>20. CASE OpenCreate
  BY <1>20, <1>b DEF OpenCreate
<1>21. CASE Close
  BY <1>21, <1>b DEF Close
<1>22. CASE Crash
  <2>1. Fresh'
    BY <1>22 DEF Crash, Fresh
  <2> QED
    BY <1>22, <2>1 DEF Crash, Dies, Naming, LaterFlushesHaveGreaterNames
<1>25. CASE CrashStale
  <2>1. flushes' = <<>> /\ high' = 0 /\ counter' = 0 /\ \A x \in Writer : pc'[x] = "idle"
    BY <1>25 DEF CrashStale, Dies
  <2>2. Fresh'
    BY <2>1 DEF Fresh
  <2>3. DOMAIN flushes' = {}
    BY <2>1
  <2> QED
    BY <2>1, <2>2, <2>3 DEF Naming, LaterFlushesHaveGreaterNames
<1>23. CASE Tick
  <2>1. (clock + 1) * Window >= clock * Window
    BY WindowAssumption
  <2>2. Fresh'
    BY <1>23, <2>1, WindowAssumption DEF Tick, Naming, Fresh
  <2> QED
    BY <1>23, <2>2 DEF Tick, Naming, LaterFlushesHaveGreaterNames
<1>24. CASE UNCHANGED vars
  BY <1>24, <1>b DEF vars
<1> QED
  BY <1>1, <1>2, <1>3, <1>4, <1>5, <1>6, <1>7, <1>8, <1>9, <1>10, <1>11, <1>12, <1>13,
     <1>14, <1>15, <1>16, <1>17, <1>18, <1>19, <1>20, <1>21, <1>22, <1>23, <1>24, <1>25
  DEF Next, Inserts, Proceed, Open

\* Names are in their place, in every state
LEMMA StoreNaming == Spec => []Naming
<1>1. Init => Naming
  BY WindowAssumption DEF Init, Naming, Fresh, LaterFlushesHaveGreaterNames
<1>2. Inductive /\ Naming /\ [Next]_vars => Naming'
  BY NamingStep DEF Inductive
<1> QED
  BY <1>1, <1>2, StoreInductive, PTL DEF Spec

\* Db::open may take the order of the names for the order of the flushes within a
\* process, and across restarts as far back as the last stale one: in whatever
\* order writers begin, commit and fail, a later flush has the greater name
THEOREM StoreLaterFlushesHaveGreaterNames == Spec => []LaterFlushesHaveGreaterNames
<1>1. Naming => LaterFlushesHaveGreaterNames
  BY DEF Naming
<1> QED
  BY <1>1, StoreNaming, PTL

\* No count goes back to zero
LEMMA CountsGrow ==
  ASSUME TypeRest, [Next]_vars, NEW what \in Counted, tally'[what] = 0
  PROVE  tally[what] = 0
<1>1. tally' = tally \/ \E other \in Counted : tally' = [tally EXCEPT ![other] = @ + 1]
  BY DEF Next, Inserts, Proceed, Open, Begin, Lock, Load, Insert, InsertFails, WriteCommit,
         CommitFails, Publish, Abort, AbortFails, FlushWrite, FlushRename, FlushSwap, WalReset,
         FlushFails, BeginReadonly, EndReadonly, OpenLoad, OpenFails, OpenCreate, Close, Crash,
         CrashStale, Tick, Count, Counted, vars, ghosts
<1> QED
  BY <1>1 DEF TypeRest

\* As long as no restart is stale, a flush gets a name past every SSTable on disk
LEMMA NewestIsOnTopStep ==
  TypeRest /\ Locking /\ Naming /\ NewestIsOnTop /\ [Next]_vars => NewestIsOnTop'
<1> SUFFICES ASSUME TypeRest, Locking, Naming, [Next]_vars, tally'["staleRestarts"] = 0,
                    tally["staleRestarts"] = 0,
                    \A ts \in DOMAIN ssts : ts <= high,
                    \A w \in Writer : pc[w] = "written" => \A u \in DOMAIN ssts : u < flush_ts[w]
             PROVE  /\ \A ts \in DOMAIN ssts' : ts <= high'
                    /\ \A w \in Writer : pc'[w] = "written" => \A u \in DOMAIN ssts' : u < flush_ts'[w]
  BY CountsGrow DEF NewestIsOnTop, Counted
<1> DEFINE Goal == /\ \A ts \in DOMAIN ssts' : ts <= high'
                   /\ \A w \in Writer : pc'[w] = "written" => \A u \in DOMAIN ssts' : u < flush_ts'[w]
<1> USE DEF TypeRest, WriterPc, Goto, disk, memory, time, ghosts
<1>b. ASSUME UNCHANGED <<high, ssts>>,
             \A w \in Writer : pc'[w] = "written" => pc[w] = "written" /\ flush_ts'[w] = flush_ts[w]
      PROVE  Goal
  BY <1>b
<1>c. ASSUME TakeTimestamp, UNCHANGED ssts, \A w \in Writer : pc'[w] # "written"
      PROVE  Goal
  <2>1. high' > high /\ high' \in Nat
    BY <1>c, TakeFresh, TakeTimestampType DEF Naming
  <2> QED
    BY <1>c, <2>1
<1>d. ASSUME NEW w \in Writer, pc[w] \in Holding \ {"written"}
      PROVE  \A x \in Writer : pc[x] # "written"
  BY <1>d DEF Locking, Holding
<1>1. ASSUME NEW w \in Writer, Begin(w) PROVE Goal
  BY <1>1, <1>b DEF Begin
<1>2. ASSUME NEW w \in Writer, Lock(w) PROVE Goal
  BY <1>2, <1>b DEF Lock
<1>3. ASSUME NEW w \in Writer, Load(w) PROVE Goal
  BY <1>3, <1>b DEF Load
<1>4. ASSUME NEW w \in Writer, NEW k \in Key, NEW v \in Value, Insert(w, k, v)
      PROVE  Goal
  BY <1>4, <1>b DEF Insert
<1>5. ASSUME NEW w \in Writer, NEW k \in Key, NEW v \in Value, InsertFails(w, k, v)
      PROVE  Goal
  BY <1>5, <1>b DEF InsertFails
<1>6. ASSUME NEW w \in Writer, WriteCommit(w) PROVE Goal
  BY <1>6, <1>c, <1>d DEF WriteCommit, Release, Holding
<1>7. ASSUME NEW w \in Writer, CommitFails(w) PROVE Goal
  BY <1>7, <1>c, <1>d DEF CommitFails, Release, Holding
<1>8. ASSUME NEW w \in Writer, Publish(w) PROVE Goal
  BY <1>8, <1>b DEF Publish, Release
<1>9. ASSUME NEW w \in Writer, Abort(w) PROVE Goal
  BY <1>9, <1>b DEF Abort, Release
<1>10. ASSUME NEW w \in Writer, AbortFails(w) PROVE Goal
  BY <1>10, <1>b DEF AbortFails, Release
<1>11. ASSUME NEW w \in Writer, FlushWrite(w) PROVE Goal
  <2>1. high' = NextTimestamp /\ NextTimestamp > high /\ NextTimestamp \in Nat
    BY <1>11, TakeFresh, NextTimestampType DEF FlushWrite, Naming
  <2>2. \A x \in Writer : pc'[x] = "written" => x = w /\ flush_ts'[w] = NextTimestamp
    BY <1>11, <1>d DEF FlushWrite, Holding
  <2> QED
    BY <1>11, <2>1, <2>2 DEF FlushWrite
<1>12. ASSUME NEW w \in Writer, FlushRename(w) PROVE Goal
  <2>1. flush_ts[w] <= high /\ high' = high /\ DOMAIN ssts' = DOMAIN ssts \cup {flush_ts[w]}
    BY <1>12 DEF FlushRename, Naming
  <2>2. \A x \in Writer : pc'[x] # "written"
    BY <1>12 DEF FlushRename, Locking, Holding
  <2> QED
    BY <2>1, <2>2
<1>13. ASSUME NEW w \in Writer, FlushSwap(w) PROVE Goal
  BY <1>13, <1>b DEF FlushSwap
<1>14. ASSUME NEW w \in Writer, WalReset(w) PROVE Goal
  BY <1>14, <1>b DEF WalReset, Release
<1>15. ASSUME NEW w \in Writer, FlushFails(w) PROVE Goal
  <2>1. CASE pc[w] = "flushing"
    BY <1>15, <2>1, <1>c, <1>d DEF FlushFails, Release, Holding
  <2>2. CASE pc[w] # "flushing"
    BY <1>15, <2>2, <1>b DEF FlushFails, Release
  <2> QED
    BY <2>1, <2>2
<1>16. ASSUME NEW r \in Reader, BeginReadonly(r) PROVE Goal
  BY <1>16, <1>b DEF BeginReadonly
<1>17. ASSUME NEW r \in Reader, EndReadonly(r) PROVE Goal
  BY <1>17, <1>b DEF EndReadonly
<1>18. CASE OpenLoad
  BY <1>18, <1>b DEF OpenLoad
<1>19. CASE OpenFails
  BY <1>19, <1>b DEF OpenFails
<1>20. CASE OpenCreate
  BY <1>20, <1>b DEF OpenCreate
<1>21. CASE Close
  BY <1>21, <1>b DEF Close
<1>22. CASE Crash
  BY <1>22, <1>b DEF Crash, Dies
<1>23. CASE CrashStale
  BY <1>23 DEF CrashStale, Count, Counted
<1>24. CASE Tick
  BY <1>24, <1>b DEF Tick
<1>25. CASE UNCHANGED vars
  BY <1>25, <1>b DEF vars
<1> QED
  BY <1>1, <1>2, <1>3, <1>4, <1>5, <1>6, <1>7, <1>8, <1>9, <1>10, <1>11, <1>12, <1>13,
     <1>14, <1>15, <1>16, <1>17, <1>18, <1>19, <1>20, <1>21, <1>22, <1>23, <1>24, <1>25
  DEF Next, Inserts, Proceed, Open

\* The same of every state
LEMMA StoreNewestIsOnTop == Spec => []NewestIsOnTop
<1>1. Init => NewestIsOnTop
  <2>1. DOMAIN <<>> = {}
    OBVIOUS
  <2> QED
    BY <2>1 DEF Init, NewestIsOnTop
<1>2. Inductive /\ Naming /\ NewestIsOnTop /\ [Next]_vars => NewestIsOnTop'
  BY NewestIsOnTopStep DEF Inductive
<1> QED
  BY <1>1, <1>2, StoreInductive, StoreNaming, PTL DEF Spec

-----------------------------------------------------------------------------
(* Temporary files *)

\* 1 while a temporary file waits for its rename, 0 otherwise
Waiting == IF \E w \in Writer : pc[w] = "written" THEN 1 ELSE 0

\* The temporary file a flush has written stays until it is renamed, and what
\* else an open database finds in its directory was left by failures
Temporaries ==
  /\ IsFiniteSet(tmps)
  /\ \A w \in Writer : pc[w] = "written" => flush_ts[w] \in tmps
  /\ db # "closed" => Cardinality(tmps) <= tally["otherErrors"] + Waiting

\* The mutex lets one writer flush at a time
LEMMA OneWaits ==
  ASSUME Locking
  PROVE  Cardinality({w \in Writer : pc[w] = "written"}) = Waiting
<1> DEFINE S == {w \in Writer : pc[w] = "written"}
<1>1. CASE \E w \in Writer : pc[w] = "written"
  <2>1. PICK w \in Writer : pc[w] = "written"
    BY <1>1
  <2>2. S = {w}
    BY <2>1 DEF Locking, Holding, WriterPc
  <2>3. Cardinality(S) = 1
    BY <2>2, FS_Singleton
  <2> QED
    BY <1>1, <2>3 DEF Waiting
<1>2. CASE ~\E w \in Writer : pc[w] = "written"
  <2>1. S = {}
    BY <1>2
  <2>2. Cardinality(S) = 0
    BY <2>1, FS_EmptySet
  <2> QED
    BY <1>2, <2>2 DEF Waiting
<1> QED
  BY <1>1, <1>2

\* A flush creates one temporary file and either renames it, is counted as a
\* failure, or dies with the process; Db::open removes what is left
LEMMA TemporariesStep ==
  TypeRest /\ Locking /\ Temporaries /\ [Next]_vars => Temporaries'
<1> SUFFICES ASSUME TypeRest, Locking, Temporaries, [Next]_vars PROVE Temporaries'
  OBVIOUS
<1>a. Cardinality(tmps) \in Nat /\ tally["otherErrors"] \in Nat
  BY FS_CardinalityType DEF Temporaries, TypeRest, Counted
<1>f. /\ IsFiniteSet(tmps \cup {NextTimestamp})
      /\ Cardinality(tmps \cup {NextTimestamp}) <= Cardinality(tmps) + 1
  <2>1. IsFiniteSet(tmps)
    BY DEF Temporaries
  <2>2. /\ IsFiniteSet(tmps \cup {NextTimestamp})
        /\ Cardinality(tmps \cup {NextTimestamp})
             = IF NextTimestamp \in tmps THEN Cardinality(tmps) ELSE Cardinality(tmps) + 1
    BY <2>1, FS_AddElement
  <2> QED
    BY <1>a, <2>2
<1>g. ASSUME NEW ts \in tmps
      PROVE  IsFiniteSet(tmps \ {ts}) /\ Cardinality(tmps \ {ts}) = Cardinality(tmps) - 1
  BY <1>a, FS_RemoveElement DEF Temporaries
<1> USE <1>a DEF TypeRest, WriterPc, Goto, disk, memory, time, ghosts
\* Steps that leave the files alone and the waiting writer where it is
<1>b. ASSUME UNCHANGED <<tmps, flush_ts>>, db' # "closed" => db # "closed",
             tally'["otherErrors"] >= tally["otherErrors"], tally'["otherErrors"] \in Nat,
             \A x \in Writer : pc'[x] = "written" <=> pc[x] = "written"
      PROVE  Temporaries'
  <2>1. Waiting' = Waiting /\ Waiting \in 0..1
    BY <1>b DEF Waiting
  <2> QED
    BY <1>b, <2>1 DEF Temporaries
<1>c. ASSUME NEW w \in Writer, pc[w] \in Holding \ {"written"}
      PROVE  (\A x \in Writer : pc[x] # "written") /\ Waiting = 0 /\ db = "open"
  BY <1>c DEF Locking, Holding, Waiting
\* Steps that end a transaction no file of which is waiting
<1>d. ASSUME Waiting = 0, \A x \in Writer : pc'[x] # "written", UNCHANGED <<tmps, db>>,
             tally'["otherErrors"] >= tally["otherErrors"], tally'["otherErrors"] \in Nat
      PROVE  Temporaries'
  <2>1. Waiting' = 0
    BY <1>c, <1>d DEF Waiting
  <2> QED
    BY <1>d, <2>1 DEF Temporaries
<1>1. ASSUME NEW w \in Writer, Begin(w) PROVE Temporaries'
  BY <1>1, <1>b DEF Begin
<1>2. ASSUME NEW w \in Writer, Lock(w) PROVE Temporaries'
  BY <1>2, <1>b DEF Lock
<1>3. ASSUME NEW w \in Writer, Load(w) PROVE Temporaries'
  BY <1>3, <1>b DEF Load
<1>4. ASSUME NEW w \in Writer, NEW k \in Key, NEW v \in Value, Insert(w, k, v)
      PROVE  Temporaries'
  BY <1>4, <1>b DEF Insert
<1>5. ASSUME NEW w \in Writer, NEW k \in Key, NEW v \in Value, InsertFails(w, k, v)
      PROVE  Temporaries'
  BY <1>5, <1>b DEF InsertFails, Count, Counted
<1>6. ASSUME NEW w \in Writer, WriteCommit(w) PROVE Temporaries'
  BY <1>6, <1>b DEF WriteCommit, Count, Counted
<1>7. ASSUME NEW w \in Writer, CommitFails(w) PROVE Temporaries'
  <2>1. Waiting = 0 /\ \A x \in Writer : pc[x] # "written"
    BY <1>7, <1>c DEF CommitFails, Holding
  <2>2. \A x \in Writer : pc'[x] # "written"
    BY <1>7, <2>1 DEF CommitFails, Release
  <2> QED
    BY <1>7, <1>d, <2>1, <2>2 DEF CommitFails, Count, Counted
<1>8. ASSUME NEW w \in Writer, Publish(w) PROVE Temporaries'
  <2>1. Waiting = 0 /\ \A x \in Writer : pc[x] # "written"
    BY <1>8, <1>c DEF Publish, Holding
  <2>2. \A x \in Writer : pc'[x] # "written"
    BY <1>8, <2>1 DEF Publish, Release
  <2> QED
    BY <1>8, <1>d, <2>1, <2>2 DEF Publish
<1>9. ASSUME NEW w \in Writer, Abort(w) PROVE Temporaries'
  <2>1. Waiting = 0 /\ \A x \in Writer : pc[x] # "written"
    BY <1>9, <1>c DEF Abort, Holding
  <2>2. \A x \in Writer : pc'[x] # "written"
    BY <1>9, <2>1 DEF Abort, Release
  <2> QED
    BY <1>9, <1>d, <2>1, <2>2 DEF Abort
<1>10. ASSUME NEW w \in Writer, AbortFails(w) PROVE Temporaries'
  <2>1. Waiting = 0 /\ \A x \in Writer : pc[x] # "written"
    BY <1>10, <1>c DEF AbortFails, Holding
  <2>2. \A x \in Writer : pc'[x] # "written"
    BY <1>10, <2>1 DEF AbortFails, Release
  <2> QED
    BY <1>10, <1>d, <2>1, <2>2 DEF AbortFails, Count, Counted
<1>11. ASSUME NEW w \in Writer, FlushWrite(w) PROVE Temporaries'
  <2>1. tmps' = tmps \cup {NextTimestamp} /\ UNCHANGED <<db, tally>>
    BY <1>11 DEF FlushWrite
  <2>2. IsFiniteSet(tmps') /\ Cardinality(tmps') <= Cardinality(tmps) + 1
    BY <1>f, <2>1, Zenon
  <2>3. \A x \in Writer : pc'[x] = "written" => x = w /\ flush_ts'[x] = NextTimestamp
    BY <1>11, <1>c DEF FlushWrite, Holding
  <2>4. Waiting = 0 /\ Waiting' = 1
    BY <1>11, <1>c DEF FlushWrite, Waiting, Holding
  <2>5. Cardinality(tmps') \in Nat
    BY <2>2, FS_CardinalityType
  <2> QED
    BY <2>1, <2>2, <2>3, <2>4, <2>5 DEF Temporaries
<1>12. ASSUME NEW w \in Writer, FlushRename(w) PROVE Temporaries'
  <2>1. tmps' = tmps \ {flush_ts[w]} /\ UNCHANGED <<db, tally>> /\ flush_ts[w] \in tmps
    BY <1>12 DEF FlushRename, Temporaries
  <2>2. IsFiniteSet(tmps') /\ Cardinality(tmps') = Cardinality(tmps) - 1
    <3>1. IsFiniteSet(tmps \ {flush_ts[w]}) /\ Cardinality(tmps \ {flush_ts[w]}) = Cardinality(tmps) - 1
      BY <1>g, <2>1, Zenon
    <3> QED
      BY <2>1, <3>1, Zenon
  <2>3. \A x \in Writer : pc'[x] # "written"
    BY <1>12 DEF FlushRename, Locking, Holding
  <2>4. Waiting = 1 /\ Waiting' = 0
    BY <1>12, <2>3 DEF FlushRename, Waiting
  <2> QED
    BY <2>1, <2>2, <2>3, <2>4 DEF Temporaries
<1>13. ASSUME NEW w \in Writer, FlushSwap(w) PROVE Temporaries'
  BY <1>13, <1>b DEF FlushSwap
<1>14. ASSUME NEW w \in Writer, WalReset(w) PROVE Temporaries'
  <2>1. Waiting = 0 /\ \A x \in Writer : pc[x] # "written"
    BY <1>14, <1>c DEF WalReset, Holding
  <2>2. \A x \in Writer : pc'[x] # "written"
    BY <1>14, <2>1 DEF WalReset, Release
  <2> QED
    BY <1>14, <1>d, <2>1, <2>2 DEF WalReset
<1>15. ASSUME NEW w \in Writer, FlushFails(w) PROVE Temporaries'
  <2>1. \A x \in Writer : pc'[x] # "written"
    BY <1>15 DEF FlushFails, Release, Locking, Holding
  <2>2. Waiting' = 0 /\ Waiting \in 0..1
    BY <2>1 DEF Waiting
  <2>h. pc[w] = "flushing" => Waiting = 0
    BY <1>c DEF Holding
  <2>3. tally'["otherErrors"] = tally["otherErrors"] + 1 /\ db' = db
    BY <1>15 DEF FlushFails, Count, Counted
  <2>4. tmps' = tmps \/ (pc[w] = "flushing" /\ tmps' = tmps \cup {NextTimestamp})
    BY <1>15 DEF FlushFails
  <2>g. IsFiniteSet(tmps) /\ Cardinality(tmps) <= Cardinality(tmps)
    BY DEF Temporaries
  <2>5. /\ IsFiniteSet(tmps')
        /\ \/ Cardinality(tmps') <= Cardinality(tmps)
           \/ pc[w] = "flushing" /\ Cardinality(tmps') <= Cardinality(tmps) + 1
    BY <1>f, <2>4, <2>g, Zenon
  <2>6. Cardinality(tmps') \in Nat
    BY <2>5, FS_CardinalityType
  <2> QED
    BY <2>1, <2>2, <2>h, <2>3, <2>5, <2>6 DEF Temporaries
<1>16. ASSUME NEW r \in Reader, BeginReadonly(r) PROVE Temporaries'
  BY <1>16, <1>b DEF BeginReadonly
<1>17. ASSUME NEW r \in Reader, EndReadonly(r) PROVE Temporaries'
  BY <1>17, <1>b DEF EndReadonly
<1>18. CASE OpenLoad
  <2>1. tmps' = {} /\ IsFiniteSet(tmps') /\ Cardinality(tmps') = 0
    BY <1>18, FS_EmptySet DEF OpenLoad
  <2>2. \A x \in Writer : pc'[x] = "idle"
    BY <1>18 DEF OpenLoad, Locking
  <2>3. Waiting' = 0 /\ tally' = tally
    BY <1>18, <2>2 DEF OpenLoad, Waiting
  <2> QED
    BY <2>1, <2>2, <2>3 DEF Temporaries
<1>19. CASE OpenFails
  BY <1>19 DEF OpenFails, Temporaries
<1>20. CASE OpenCreate
  BY <1>20, <1>b DEF OpenCreate
<1>21. CASE Close
  BY <1>21 DEF Close, Temporaries
<1>22. CASE Crash \/ CrashStale
  BY <1>22 DEF Crash, CrashStale, Dies, Temporaries
<1>23. CASE Tick
  BY <1>23, <1>b DEF Tick
<1>24. CASE UNCHANGED vars
  BY <1>24, <1>b DEF vars
<1> QED
  BY <1>1, <1>2, <1>3, <1>4, <1>5, <1>6, <1>7, <1>8, <1>9, <1>10, <1>11, <1>12,
     <1>13, <1>14, <1>15, <1>16, <1>17, <1>18, <1>19, <1>20, <1>21, <1>22, <1>23, <1>24
  DEF Next, Inserts, Proceed, Open

\* The temporary files of an open database never pile up: each one beyond the
\* file being written is accounted for by a failure since
THEOREM StoreTempFilesAreBounded == Spec => []TempFilesAreBounded
<1>1. Init => Temporaries
  BY FS_EmptySet DEF Init, Temporaries
<1>2. Inductive /\ Temporaries /\ [Next]_vars => Temporaries'
  BY TemporariesStep DEF Inductive
<1>3. Inductive /\ Temporaries => TempFilesAreBounded
  BY OneWaits DEF Inductive, Temporaries, TempFilesAreBounded
<1> QED
  BY <1>1, <1>2, <1>3, StoreInductive, PTL DEF Spec

=============================================================================
