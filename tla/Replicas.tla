------------------------------ MODULE Replicas ------------------------------
(***************************************************************************)
(* A sequence edited by several peers: positions from FractionalIndex::    *)
(* between (module LSeq), items that are last-write-wins registers         *)
(* (src/path/lww.rs) stamped by the clock of their writer (src/hlc.rs).    *)
(*                                                                         *)
(* No code in src/ sends registers yet.  A network is assumed that may     *)
(* lose, delay, reorder and repeat them, and a receiver that does what the *)
(* parts offer: deserialising a timestamp synchronises the clock, and      *)
(* LWWHeader::merge decides which register stays.                          *)
(***************************************************************************)
EXTENDS LSeq, FiniteSets

CONSTANTS Peer,             \* peer identifiers
          OverflowChecks,   \* TRUE: + panics on overflow, FALSE: it wraps
          MaxWrites,        \* bound: registers written
          MaxTime           \* bound: timestamps

ASSUME PeerAssumption == Peer \subseteq 1..MaxPid
ASSUME BoundsAssumption == OverflowChecks \in BOOLEAN /\ MaxWrites \in Nat /\ MaxTime \in Nat

VARIABLES
  writes,    \* all registers ever written, in the order of real time: header,
             \* key and (history) the neighbours and what the writer had seen
  doc,       \* the document of each peer: from keys to members of DOMAIN writes
  counter,   \* COUNTER of each peer
  seen       \* history: the writes each peer has made or received

vars == <<writes, doc, counter, seen>>

TypeOK ==
  /\ \A v \in DOMAIN writes :
       /\ writes[v].timestamp \in 1..MaxTime
       /\ writes[v].pid \in Peer
       /\ writes[v].index \in Seq(Segment) \ {<<>>}
  /\ \A p \in Peer : /\ counter[p] \in 0..MaxTime
                     /\ seen[p] \subseteq DOMAIN writes
                     /\ DOMAIN doc[p] = {writes[v].index : v \in seen[p]}
                     /\ \A i \in DOMAIN doc[p] : doc[p][i] \in seen[p]

Init ==
  /\ writes = <<>>
  /\ doc = [p \in Peer |-> <<>>]
  /\ counter = [p \in Peer |-> 0]
  /\ seen = [p \in Peer |-> {}]

\* document with register v under its key
Put(document, index, v) ==
  [i \in DOMAIN document \cup {index} |-> IF i = index THEN v ELSE document[i]]

\* lo and hi are neighbours in p's document, <<>> standing for the start and
\* for the end
Adjacent(p, lo, hi) ==
  /\ lo # <<>> /\ hi # <<>> => Less(lo, hi)
  /\ ~\E x \in DOMAIN doc[p] : (lo = <<>> \/ Less(lo, x)) /\ (hi = <<>> \/ Less(x, hi))

\* Timestamp::now: whatever the system clock says, above COUNTER
Now(p) == (counter[p] + 1)..MaxTime

\* p writes a register under index, stamped with its time
Write(p, index, lo, hi) ==
  /\ Len(writes) < MaxWrites
  /\ \E timestamp \in Now(p) :
       /\ writes' = Append(writes, [timestamp |-> timestamp, pid |-> p, index |-> index,
                                    lo |-> lo, hi |-> hi, context |-> seen[p]])
       /\ counter' = [counter EXCEPT ![p] = timestamp]
  /\ doc' = [doc EXCEPT ![p] = Put(@, index, Len(writes) + 1)]
  /\ seen' = [seen EXCEPT ![p] = @ \cup {Len(writes) + 1}]

\* An item is inserted between two neighbours; with overflow checks an
\* overflow panics before anything is written
Insert(p, lo, hi) ==
  /\ Adjacent(p, lo, hi)
  /\ OverflowChecks => ~Overflows(lo, hi, p)
  /\ Write(p, between(lo, hi, p), lo, hi)

\* An item is replaced (or deleted, which writes an empty value)
Assign(p, index) == Write(p, index, index, index)

Header(v) == <<writes[v].timestamp, writes[v].pid>>

\* Registers of one time are not told apart
MutantNoTiebreak(left, right) == left[1] > right[1]

\* Ord derived for LWWHeader: timestamp first, then pid
Later(left, right) == left[1] > right[1] \/ (left[1] = right[1] /\ left[2] > right[2])

\* LWWHeader::merge
merge(left, right) == IF Later(Header(left), Header(right)) THEN left ELSE right

\* Timestamp::sync is not called
MutantNoSync(p, timestamp) == counter[p]

\* Timestamp::sync: fetch_max
sync(p, timestamp) == IF timestamp > counter[p] THEN timestamp ELSE counter[p]

\* Register v reaches p, for the first time or again
Receive(p, v) ==
  LET index == writes[v].index
  IN  /\ counter' = [counter EXCEPT ![p] = sync(p, writes[v].timestamp)]
      /\ doc' = [doc EXCEPT ![p] =
                   Put(@, index, IF index \in DOMAIN @ THEN merge(@[index], v) ELSE v)]
      /\ seen' = [seen EXCEPT ![p] = @ \cup {v}]
      /\ UNCHANGED writes

Next ==
  \E p \in Peer :
    \/ \E lo, hi \in DOMAIN doc[p] \cup {<<>>} : Insert(p, lo, hi)
    \/ \E index \in DOMAIN doc[p] : Assign(p, index)
    \/ \E v \in DOMAIN writes : Receive(p, v)

Spec == Init /\ [][Next]_vars

-----------------------------------------------------------------------------
Inserts == {writes[v] : v \in {v \in DOMAIN writes : writes[v].lo # writes[v].index}}

\* crdt.md: once synchronization happens, divergent states converge.  Peers
\* that have made or received the same writes hold the same registers, in
\* whatever order, and however often, they received them
Converges == \A p, q \in Peer : seen[p] = seen[q] => doc[p] = doc[q]

\* A write that has reached a peer is never hidden there by one that its
\* writer had seen and replaced
ReplacedStaysReplaced ==
  \A p \in Peer : \A v \in seen[p] :
    LET index == writes[v].index
    IN  doc[p][index] \notin writes[v].context

\* lseq.md: the entry at position N is lexically lower than the one at N+1 and
\* higher than the one at N-1.  An insert lands between its neighbours
LandsBetween ==
  \A x \in Inserts : /\ x.lo # <<>> => Less(x.lo, x.index)
                     /\ x.hi # <<>> => Less(x.index, x.hi)

\* The new segment's seq has not wrapped: a seq starts at 2 and only grows
NotWrapped(x) == x.index[Len(x.index)][2] # 0

\* An insert lands after the item before it, whoever inserted that one, as
\* long as its own l.seq + 1 does not overflow
LandsAfterPrevious ==
  \A x \in Inserts : x.lo # <<>> /\ NotWrapped(x) => Less(x.lo, x.index)

\* An insert lands before the item after it, and so replaces no item that its
\* writer knows, if no segment of that item belongs to a lower peer, as long as
\* no l.seq + 1 has overflowed
LandsBeforeNext ==
  (\A x \in Inserts : NotWrapped(x)) =>
    \A x \in Inserts :
      x.hi # <<>> /\ (\A i \in DOMAIN x.hi : x.pid <= x.hi[i][1])
        => /\ Less(x.index, x.hi)
           /\ \A v \in x.context : writes[v].index # x.index

\* a has the segments of x up to the last, and its pid there
SamePlace(a, x) ==
  /\ Len(a) >= Len(x)
  /\ \A j \in 1..(Len(x) - 1) : a[j] = x[j]
  /\ a[Len(x)][1] = x[Len(x)][1]

\* lseq.md, "Non-interleaving": a peer starts or goes on with a run at a place of
\* its own, x, and inserts y right after it.  Then an insert z of another peer
\* gets the index of x or of y, or one between them, only if it was made right
\* after an item of the same run: after x or one behind it, or after an earlier
\* one if the item after z has fewer segments, as at the end, where between
\* takes the next seq whoever owns the place.  Runs of peers that have not seen
\* each other's therefore neither mix nor share an index
RunsDoNotInterleave ==
  \A x, y, z \in Inserts :
    /\ x.pid = y.pid /\ y.lo = x.index /\ y.hi = x.hi /\ z.pid # x.pid
    /\ x.index[Len(x.index)][1] = x.pid
    /\ ~Less(z.index, x.index) /\ ~Less(y.index, z.index)
    => /\ SamePlace(z.lo, x.index)
       /\ Less(z.lo, x.index) => Len(z.hi) < Len(x.index)

\* lseq.md: a segment has the "peer identifier of a peer who appended this
\* segment", so that what different peers insert has different indices.  That
\* is so except at the end: two inserts get one index, of which a merge loses
\* one, only if at least one of their writers put it after an item at a place of
\* another peer and past the segments of the item behind
IndicesCollideOnlyAtTheEnd ==
  \A x, z \in Inserts : x.pid # z.pid /\ x.index = z.index =>
    \E w \in {x, z} : /\ w.index[Len(w.index)][1] # w.pid
                     /\ SamePlace(w.lo, w.index) /\ Len(w.hi) < Len(w.index)

=============================================================================
