-------------------------------- MODULE LSeq --------------------------------
(***************************************************************************)
(* Positions in a sequence (src/path/lseq.rs): FractionalIndex::between.   *)
(*                                                                         *)
(* A fractional index is a sequence of segments <<pid, seq>>; module       *)
(* LSeqCodec relates it to bytes, module Replicas has peers that insert.   *)
(***************************************************************************)
EXTENDS Naturals, Sequences

CONSTANTS MaxPid,     \* the greatest pid, u32::MAX
          MaxSeq      \* the greatest seq, u32::MAX

ASSUME MaxAssumption == MaxPid \in Nat \ {0} /\ MaxSeq \in Nat \ {0, 1, 2}

Segment == (1..MaxPid) \X (0..MaxSeq)

\* Ord derived for Segment: pid first, then seq
Above(h, n) == h[1] > n[1] \/ (h[1] = n[1] /\ h[2] > n[2])

\* Order of fractional indices: segment by segment, a proper prefix is smaller
Less(a, b) ==
  \E i \in 1..Len(b) :
    /\ i <= Len(a) + 1
    /\ \A j \in 1..(i - 1) : a[j] = b[j]
    /\ i <= Len(a) => Above(b[i], a[i])

\* An absent neighbour with a zero segment
MutantZeroSegment(lo, i, pid) == IF i <= Len(lo) THEN lo[i] ELSE <<0, 0>>

\* A lower neighbour whose last segment is not read
MutantNotLast(lo, i, pid) == IF i < Len(lo) THEN lo[i] ELSE <<pid, 1>>

\* lower and higher at the i-th round of the loops of write_fractional_index
Lower(lo, i, pid) == IF i <= Len(lo) THEN lo[i] ELSE <<pid, 1>>

Higher(hi, i) == IF i <= Len(hi) THEN hi[i] ELSE <<MaxPid, MaxSeq>>

\* l.seq + 1, for a build without overflow checks
Successor(segment) == <<segment[1], (segment[2] + 1) % (MaxSeq + 1)>>

\* A comparison that also accepts the higher neighbour itself
MutantNotAbove(lo, hi, pid, i) ==
  LET l == Lower(lo, i, pid)
  IN  /\ ~Above(Successor(l), Higher(hi, i))
      /\ i <= Len(lo) /\ i <= Len(hi) => l[1] = pid

\* A place that is taken whoever owns it
MutantAnyPeer(lo, hi, pid, i) == Above(Higher(hi, i), Successor(Lower(lo, i, pid)))

\* The i-th round ends the loops: there is room for the successor of lower and,
\* while both sides have segments, it is the caller's own
Diffs(lo, hi, pid, i) ==
  LET l == Lower(lo, i, pid)
  IN  /\ Above(Higher(hi, i), Successor(l))
      /\ i <= Len(lo) /\ i <= Len(hi) => l[1] = pid

\* FractionalIndex::between, an absent neighbour being the empty index: rounds
\* before the last one copy lower, the last one writes its successor.  Past
\* both sides there always is room.
between(lo, hi, pid) ==
  LET rounds == 1..(Len(lo) + Len(hi) + 1)
      end == CHOOSE i \in rounds : /\ Diffs(lo, hi, pid, i)
                                   /\ \A j \in 1..(i - 1) : ~Diffs(lo, hi, pid, j)
  IN  [i \in 1..end |-> IF i = end THEN Successor(Lower(lo, i, pid))
                        ELSE Lower(lo, i, pid)]

\* A round that is reached adds one to the greatest u32
Overflows(lo, hi, pid) ==
  \E i \in DOMAIN between(lo, hi, pid) : Lower(lo, i, pid)[2] = MaxSeq

=============================================================================
