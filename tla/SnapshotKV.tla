----------------------------- MODULE SnapshotKV -----------------------------
(***************************************************************************)
(* What the database promises its callers, with no MemTable, SSTable or    *)
(* log in it: one map from keys to values.                                 *)
(*                                                                         *)
(* Transactions that write run one after the other on the latest map and   *)
(* become visible all at once; transactions that read keep the map they    *)
(* started with.  A commit is added to the stable map in one step, before  *)
(* it is visible.  A restart resumes from the stable map.  Reopening keeps *)
(* as stable only what had been flushed: what was recovered from the log   *)
(* is visible, but not stable until the next flush.                        *)
(***************************************************************************)
CONSTANTS Key, Value, None, Writer, Reader

VARIABLES status,    \* "down", "recovered" or "up"
          visible,   \* what a transaction that begins now reads
          flushed,   \* the part that survives any number of restarts
          stable,    \* what a restart would recover
          tx,        \* what each active transaction reads, None if there is none
          delta,     \* what each active transaction has written
          decided,   \* the transaction that is committed but not yet visible
          reads      \* the map each read-only transaction holds

vars == <<status, visible, flushed, stable, tx, delta, decided, reads>>

Map == [Key -> Value \cup {None}]
Empty == [k \in Key |-> None]
Update(map, changes) ==
  [k \in Key |-> IF changes[k] # None THEN changes[k] ELSE map[k]]

Init ==
  /\ status = "down" /\ decided = None
  /\ visible = Empty /\ flushed = Empty /\ stable = Empty
  /\ tx = [w \in Writer |-> None]
  /\ delta = [w \in Writer |-> Empty]
  /\ reads = [r \in Reader |-> None]

Begin(w) ==
  /\ status = "up" /\ \A x \in Writer : tx[x] = None
  /\ tx' = [tx EXCEPT ![w] = visible]
  /\ UNCHANGED <<status, decided, delta, reads, visible, flushed, stable>>

Write(w, k, v) ==
  /\ tx[w] # None /\ decided = None
  /\ tx' = [tx EXCEPT ![w][k] = v]
  /\ delta' = [delta EXCEPT ![w][k] = v]
  /\ UNCHANGED <<status, decided, reads, visible, flushed, stable>>

Decide(w) ==
  /\ tx[w] # None /\ decided = None
  /\ decided' = w
  /\ stable' = Update(stable, delta[w])
  /\ UNCHANGED <<status, delta, tx, reads, visible, flushed>>

\* delta is cleared together with the transaction or, if a flush follows,
\* when that flush ends
Publish(w) ==
  /\ decided = w
  /\ decided' = None
  /\ visible' = tx[w]
  /\ tx' = [tx EXCEPT ![w] = None]
  /\ delta' \in {delta, [delta EXCEPT ![w] = Empty]}
  /\ UNCHANGED <<status, reads, flushed, stable>>

Forget(w) ==
  /\ tx[w] = None
  /\ delta' = [delta EXCEPT ![w] = Empty]
  /\ UNCHANGED <<status, decided, tx, reads, visible, flushed, stable>>

Abort(w) ==
  /\ tx[w] # None /\ decided # w
  /\ tx' = [tx EXCEPT ![w] = None]
  /\ delta' = [delta EXCEPT ![w] = Empty]
  /\ UNCHANGED <<status, decided, reads, visible, flushed, stable>>

\* The whole visible map is made to survive every later restart
Flush ==
  /\ status = "up" /\ decided = None
  /\ flushed' = visible
  /\ stable' = visible
  /\ UNCHANGED <<status, decided, delta, tx, reads, visible>>

BeginReadonly(r) ==
  /\ status = "up" /\ reads[r] = None
  /\ reads' = [reads EXCEPT ![r] = visible]
  /\ UNCHANGED <<status, decided, delta, tx, visible, flushed, stable>>

EndReadonly(r) ==
  /\ reads[r] # None
  /\ reads' = [reads EXCEPT ![r] = None]
  /\ UNCHANGED <<status, decided, delta, tx, visible, flushed, stable>>

\* Closed, or crashed: readers survive only the former
Stop ==
  /\ status' = "down" /\ visible' = Empty /\ decided' = None
  /\ tx' = [w \in Writer |-> None]
  /\ delta' = [w \in Writer |-> Empty]
  /\ reads' \in {reads, [r \in Reader |-> None]}
  /\ UNCHANGED <<flushed, stable>>

Recover ==
  /\ status = "down"
  /\ status' = "recovered" /\ visible' = stable
  /\ UNCHANGED <<decided, delta, tx, reads, flushed, stable>>

Resume ==
  /\ status = "recovered"
  /\ status' = "up" /\ stable' = flushed
  /\ UNCHANGED <<decided, delta, tx, reads, visible, flushed>>

Next ==
  \/ \E w \in Writer : \/ Begin(w) \/ Decide(w) \/ Publish(w) \/ Abort(w) \/ Forget(w)
                       \/ \E k \in Key, v \in Value : Write(w, k, v)
  \/ \E r \in Reader : BeginReadonly(r) \/ EndReadonly(r)
  \/ Flush \/ Stop \/ Recover \/ Resume

Spec == Init /\ [][Next]_vars

=============================================================================
