--------------------------- MODULE ReplicasProofs ---------------------------
(* Theorems about peers that edit a sequence, for any set of peers, any    *)
(* width of pids and seqs, any network and any bounds.                     *)
EXTENDS Replicas, SequenceTheorems, WellFoundedInduction, TLAPS

-----------------------------------------------------------------------------
(* FractionalIndex::between *)

\* A set of natural numbers that is not empty has a least member
LEMMA Least ==
  ASSUME NEW S \in SUBSET Nat, S # {}
  PROVE  \E n \in S : \A m \in S : n <= m
<1>1. PICK n \in S : \A m \in S : ~(<<m, n>> \in OpToRel(<, Nat))
  BY WFMin, NatLessThanWellFounded
<1>2. \A m \in S : ~(m < n)
  BY <1>1 DEF OpToRel
<1> QED
  BY <1>2

\* A segment is a pair of a pid and a seq
LEMMA SegmentFields ==
  ASSUME NEW s \in Segment
  PROVE  /\ s[1] \in 1..MaxPid /\ s[2] \in 0..MaxSeq /\ s = <<s[1], s[2]>>
         /\ s[1] \in Nat /\ s[2] \in Nat
BY MaxAssumption DEF Segment

\* What lower is at any round: a segment
LEMMA LowerType ==
  ASSUME NEW lo \in Seq(Segment), NEW pid \in 1..MaxPid, NEW i \in Nat \ {0}
  PROVE  Lower(lo, i, pid) \in Segment /\ Successor(Lower(lo, i, pid)) \in Segment
<1>1. Lower(lo, i, pid) \in Segment
  BY MaxAssumption, LenProperties, ElementOfSeq DEF Lower, Segment
<1>2. \A s \in Segment : Successor(s) \in Segment
  BY MaxAssumption DEF Successor, Segment
<1> QED
  BY <1>1, <1>2

\* The first seq is two
LEMMA FirstSeq == ASSUME NEW pid PROVE Successor(<<pid, 1>>) = <<pid, 2>>
<1>1. (1 + 1) % (MaxSeq + 1) = 2
  BY MaxAssumption
<1> QED
  BY <1>1 DEF Successor

\* The rounds of write_fractional_index: the first one with room for a
\* successor is the last, and it exists
Ends(lo, hi, pid, e) ==
  /\ e \in Nat \ {0} /\ Diffs(lo, hi, pid, e)
  /\ \A j \in 1..(e - 1) : ~Diffs(lo, hi, pid, j)

\* index is lower up to the last round and its successor there
Written(lo, pid, e, index) ==
  /\ index \in Seq(Segment) /\ Len(index) = e
  /\ \A i \in 1..(e - 1) : index[i] = Lower(lo, i, pid)
  /\ index[e] = Successor(Lower(lo, e, pid))

\* between ends, and writes one segment per round
LEMMA BetweenEnds ==
  ASSUME NEW lo \in Seq(Segment), NEW hi \in Seq(Segment), NEW pid \in 1..MaxPid
  PROVE  \E e \in Nat \ {0} : Ends(lo, hi, pid, e) /\ Written(lo, pid, e, between(lo, hi, pid))
<1> DEFINE n == Len(lo) + Len(hi) + 1
           rounds == 1..n
           last(i) == Diffs(lo, hi, pid, i) /\ \A j \in 1..(i - 1) : ~Diffs(lo, hi, pid, j)
           all == {i \in rounds : Diffs(lo, hi, pid, i)}
<1>1. Len(lo) \in Nat /\ Len(hi) \in Nat /\ n \in Nat /\ n > Len(lo) /\ n > Len(hi) /\ n \in rounds
  BY LenProperties
<1>2. Diffs(lo, hi, pid, n)
  <2>1. Lower(lo, n, pid) = <<pid, 1>> /\ Higher(hi, n) = <<MaxPid, MaxSeq>>
    BY <1>1 DEF Lower, Higher
  <2>2. Successor(<<pid, 1>>) = <<pid, 2>>
    BY FirstSeq
  <2>3. Above(<<MaxPid, MaxSeq>>, <<pid, 2>>)
    BY MaxAssumption DEF Above
  <2> QED
    BY <1>1, <2>1, <2>2, <2>3 DEF Diffs
<1>3. PICK e \in all : \A m \in all : e <= m
  <2>1. all \in SUBSET Nat /\ all # {}
    BY <1>1, <1>2
  <2> HIDE DEF all
  <2> QED
    BY <2>1, Least
<1>4. e \in rounds /\ last(e)
  BY <1>1, <1>3
<1>5. \A i \in rounds : last(i) => i = e
  BY <1>1, <1>4
<1> DEFINE end == CHOOSE i \in rounds : last(i)
<1>6. end = e
  BY <1>4, <1>5
<1>7. between(lo, hi, pid) = [i \in 1..end |-> IF i = end THEN Successor(Lower(lo, i, pid))
                                               ELSE Lower(lo, i, pid)]
  BY DEF between
<1> HIDE DEF end, last, rounds, n
<1>8. between(lo, hi, pid) = [i \in 1..e |-> IF i = e THEN Successor(Lower(lo, i, pid))
                                             ELSE Lower(lo, i, pid)]
  BY <1>6, <1>7
<1>9. e \in Nat \ {0}
  BY <1>1, <1>4 DEF rounds
<1>10. \A i \in 1..e : Lower(lo, i, pid) \in Segment /\ Successor(Lower(lo, i, pid)) \in Segment
  BY <1>9, LowerType
<1>11. between(lo, hi, pid) \in Seq(Segment) /\ Len(between(lo, hi, pid)) = e
  BY <1>8, <1>9, <1>10, IsASeq
<1>12. Written(lo, pid, e, between(lo, hi, pid))
  BY <1>8, <1>9, <1>11 DEF Written
<1>13. Ends(lo, hi, pid, e)
  BY <1>4, <1>9 DEF Ends, last
<1> QED
  BY <1>9, <1>12, <1>13

\* A seq that has not wrapped is one more than the seq of lower
LEMMA SuccessorFits ==
  ASSUME NEW s \in Segment, Successor(s)[2] # 0
  PROVE  Successor(s) = <<s[1], s[2] + 1>> /\ Above(Successor(s), s)
<1>1. s[2] \in 0..MaxSeq /\ s[1] \in 1..MaxPid
  BY SegmentFields
<1>2. (s[2] + 1) % (MaxSeq + 1) # 0
  BY DEF Successor
<1>3. s[2] # MaxSeq
  BY <1>1, <1>2, MaxAssumption
<1>4. (s[2] + 1) % (MaxSeq + 1) = s[2] + 1
  BY <1>1, <1>3, MaxAssumption
<1> QED
  BY <1>1, <1>4 DEF Successor, Above

\* A successor keeps the pid, and its seq is one more or zero
LEMMA SuccessorNext ==
  ASSUME NEW s \in Segment
  PROVE  Successor(s)[1] = s[1] /\ Successor(s)[2] <= s[2] + 1
<1>1. s[2] \in 0..MaxSeq
  BY SegmentFields
<1>2. (s[2] + 1) % (MaxSeq + 1) <= s[2] + 1
  BY <1>1, MaxAssumption
<1> QED
  BY <1>2 DEF Successor

\* The new index is after the lower one
LEMMA BetweenAfter ==
  ASSUME NEW lo \in Seq(Segment), NEW pid \in 1..MaxPid, NEW e \in Nat \ {0}, NEW index,
         Written(lo, pid, e, index), index[Len(index)][2] # 0
  PROVE  Less(lo, index)
<1>1. Len(lo) \in Nat /\ Len(index) = e
  BY LenProperties DEF Written
<1>2. CASE e <= Len(lo)
  <2>1. \A j \in 1..(e - 1) : lo[j] = index[j]
    BY <1>1, <1>2 DEF Written, Lower
  <2>2. lo[e] \in Segment /\ index[e] = Successor(lo[e])
    BY <1>1, <1>2, ElementOfSeq DEF Written, Lower
  <2>3. Above(index[e], lo[e])
    BY <1>1, <2>2, SuccessorFits
  <2> QED
    BY <1>1, <1>2, <2>1, <2>3 DEF Less
<1>3. CASE e > Len(lo)
  <2>1. \A j \in 1..Len(lo) : lo[j] = index[j]
    BY <1>1, <1>3 DEF Written, Lower
  <2>2. Len(lo) + 1 \in 1..Len(index) /\ Len(lo) + 1 <= Len(lo) + 1
        /\ ~(Len(lo) + 1 <= Len(lo)) /\ (Len(lo) + 1) - 1 = Len(lo)
    BY <1>1, <1>3
  <2> QED
    BY <2>1, <2>2 DEF Less
<1> QED
  BY <1>1, <1>2, <1>3

\* The order of segments is strict
LEMMA AboveStrict ==
  ASSUME NEW s \in Segment, NEW t \in Segment
  PROVE  ~Above(s, s) /\ ~(Above(s, t) /\ Above(t, s))
BY SegmentFields DEF Above

\* Nothing lies between a segment and one of its pid with at most the next seq
LEMMA NothingBetween ==
  ASSUME NEW s \in Segment, NEW t \in Segment, NEW u \in Segment,
         t[1] = s[1], t[2] <= s[2] + 1, Above(t, u), Above(u, s)
  PROVE  FALSE
BY SegmentFields DEF Above

\* ... and transitive
LEMMA AboveTransitive ==
  ASSUME NEW s \in Segment, NEW t \in Segment, NEW u \in Segment, Above(u, t), Above(t, s)
  PROVE  Above(u, s)
<1>1. /\ s[1] \in Int /\ s[2] \in Int /\ t[1] \in Int /\ t[2] \in Int
      /\ u[1] \in Int /\ u[2] \in Int
  BY DEF Segment
<1> QED
  BY <1>1 DEF Above

\* Fields of a comparison: the first segment in which two indices differ
LEMMA LessAt ==
  ASSUME NEW a, NEW b, Less(a, b)
  PROVE  \E i \in 1..Len(b) : /\ i <= Len(a) + 1 /\ \A j \in 1..(i - 1) : a[j] = b[j]
                              /\ i <= Len(a) => Above(b[i], a[i])
BY DEF Less

\* The order of indices is transitive
LEMMA LessTransitive ==
  ASSUME NEW a \in Seq(Segment), NEW b \in Seq(Segment), NEW c \in Seq(Segment),
         Less(a, b), Less(b, c)
  PROVE  Less(a, c)
<1>1. /\ Len(a) \in Nat /\ Len(b) \in Nat /\ Len(c) \in Nat
      /\ \A i \in 1..Len(a) : a[i] \in Segment
      /\ \A i \in 1..Len(b) : b[i] \in Segment
      /\ \A i \in 1..Len(c) : c[i] \in Segment
  BY LenProperties, ElementOfSeq
<1>2. PICK i \in 1..Len(b) : /\ i <= Len(a) + 1 /\ \A j \in 1..(i - 1) : a[j] = b[j]
                             /\ i <= Len(a) => Above(b[i], a[i])
  BY LessAt
<1>3. PICK k \in 1..Len(c) : /\ k <= Len(b) + 1 /\ \A j \in 1..(k - 1) : b[j] = c[j]
                             /\ k <= Len(b) => Above(c[k], b[k])
  BY LessAt
<1>4. CASE i < k
  <2>1. /\ i \in 1..Len(c) /\ i <= Len(a) + 1 /\ b[i] = c[i]
        /\ \A j \in 1..(i - 1) : a[j] = c[j]
    BY <1>1, <1>2, <1>3, <1>4
  <2> QED
    BY <1>2, <2>1 DEF Less
<1>5. CASE k < i
  <2>1. /\ k \in 1..Len(c) /\ k <= Len(a) + 1 /\ k <= Len(b) /\ a[k] = b[k]
        /\ \A j \in 1..(k - 1) : a[j] = c[j]
    BY <1>1, <1>2, <1>3, <1>5
  <2> QED
    BY <1>3, <2>1 DEF Less
<1>6. CASE i = k
  <2>1. \A j \in 1..(k - 1) : a[j] = c[j]
    BY <1>2, <1>3, <1>6
  <2>2. ASSUME k <= Len(a) PROVE Above(c[k], a[k])
    <3>1. Above(b[k], a[k]) /\ Above(c[k], b[k])
      BY <1>1, <1>2, <1>3, <1>6, <2>2
    <3>2. a[k] \in Segment /\ b[k] \in Segment /\ c[k] \in Segment
      BY <1>1, <1>2, <1>3, <1>6, <2>2
    <3> QED
      BY <3>1, <3>2, AboveTransitive
  <2> QED
    BY <1>2, <1>6, <2>1, <2>2 DEF Less
<1> QED
  BY <1>1, <1>4, <1>5, <1>6

\* ... and total
LEMMA LessTotal ==
  ASSUME NEW a \in Seq(Segment), NEW b \in Seq(Segment)
  PROVE  a = b \/ Less(a, b) \/ Less(b, a)
<1>1. /\ Len(a) \in Nat /\ Len(b) \in Nat
      /\ \A i \in 1..Len(a) : a[i] \in Segment
      /\ \A i \in 1..Len(b) : b[i] \in Segment
  BY LenProperties, ElementOfSeq
<1> DEFINE D == {i \in Nat \ {0} : i > Len(a) \/ i > Len(b) \/ a[i] # b[i]}
<1>2. PICK i \in D : \A k \in D : i <= k
  <2>1. Len(a) + 1 \in D
    BY <1>1
  <2> HIDE DEF D
  <2>2. D \in SUBSET Nat
    BY DEF D
  <2> QED
    BY <2>1, <2>2, Least
<1>3. \A j \in 1..(i - 1) : j <= Len(a) /\ j <= Len(b) /\ a[j] = b[j]
  BY <1>1, <1>2
<1>4. i <= Len(a) + 1 /\ i <= Len(b) + 1
  <2>1. Len(a) + 1 \in D /\ Len(b) + 1 \in D
    BY <1>1
  <2> QED
    BY <1>2, <2>1
<1>5. CASE i <= Len(a) /\ i <= Len(b)
  <2>1. a[i] # b[i] /\ a[i] \in Segment /\ b[i] \in Segment
    BY <1>1, <1>2, <1>5
  <2>2. Above(a[i], b[i]) \/ Above(b[i], a[i])
    <3>1. /\ a[i][1] \in Nat /\ a[i][2] \in Nat /\ a[i] = <<a[i][1], a[i][2]>>
          /\ b[i][1] \in Nat /\ b[i][2] \in Nat /\ b[i] = <<b[i][1], b[i][2]>>
      BY <2>1, SegmentFields
    <3>2. a[i][1] # b[i][1] \/ a[i][2] # b[i][2]
      BY <2>1, <3>1
    <3> QED
      BY <3>1, <3>2 DEF Above
  <2>3. i \in 1..Len(a) /\ i \in 1..Len(b)
    BY <1>1, <1>2, <1>5
  <2> QED
    BY <1>3, <1>4, <2>2, <2>3 DEF Less
<1>6. CASE i > Len(a) /\ i <= Len(b)
  BY <1>1, <1>2, <1>3, <1>4, <1>6 DEF Less
<1>7. CASE i <= Len(a) /\ i > Len(b)
  BY <1>1, <1>2, <1>3, <1>4, <1>7 DEF Less
<1>8. CASE i > Len(a) /\ i > Len(b)
  <2>1. Len(a) = Len(b) /\ \A j \in 1..Len(a) : a[j] = b[j]
    BY <1>1, <1>2, <1>3, <1>4, <1>8
  <2> QED
    BY <2>1, SeqEqual
<1> QED
  BY <1>1, <1>2, <1>5, <1>6, <1>7, <1>8

\* An index no seq of which has wrapped, nor that of a predecessor: a last seq
\* of one could only be the successor of zero
Whole(index) ==
  /\ \A i \in 1..Len(index) : index[i][2] # 0
  /\ index # <<>> => index[Len(index)][2] # 1

\* The new index is before the higher one, if the caller's pid is not above any
\* pid of that one and no seq has wrapped.  Where lower and higher agree there is
\* no room; behind the lower one, the caller copies <<pid, 1>> until the higher
\* one has something else
LEMMA BetweenBefore ==
  ASSUME NEW lo \in Seq(Segment), NEW hi \in Seq(Segment), NEW pid \in 1..MaxPid,
         NEW e \in Nat \ {0}, NEW index,
         Ends(lo, hi, pid, e), Written(lo, pid, e, index), index[Len(index)][2] # 0,
         hi # <<>>, Less(lo, hi), Whole(hi), \A i \in 1..Len(hi) : pid <= hi[i][1]
  PROVE  Less(index, hi)
<1>1. /\ Len(lo) \in Nat /\ Len(hi) \in Nat \ {0} /\ Len(index) = e
      /\ \A i \in 1..Len(lo) : lo[i] \in Segment
      /\ \A i \in 1..Len(hi) : hi[i] \in Segment
  BY LenProperties, ElementOfSeq, EmptySeq DEF Written
<1>2. PICK d \in 1..Len(hi) : /\ d <= Len(lo) + 1 /\ \A j \in 1..(d - 1) : lo[j] = hi[j]
                              /\ d <= Len(lo) => Above(hi[d], lo[d])
  BY LessAt
\* A round that ends the loops within the higher index finds room there
<1>3. e <= Len(hi) => Above(hi[e], index[e])
  BY DEF Ends, Written, Diffs, Higher
<1>4. e >= d
  <2> SUFFICES ASSUME e < d PROVE FALSE
    BY <1>2
  <2>1. e \in 1..Len(lo) /\ lo[e] = hi[e] /\ e <= Len(hi) /\ lo[e] \in Segment
    BY <1>1, <1>2
  <2>2. index[e] = Successor(lo[e])
    BY <2>1 DEF Written, Lower
  <2>3. Above(index[e], lo[e]) /\ index[e] \in Segment
    BY <1>1, <2>1, <2>2, SuccessorFits, ElementOfSeq DEF Written
  <2> QED
    BY <1>3, <2>1, <2>3, AboveStrict
<1>5. CASE d <= Len(lo)
  <2>1. \A j \in 1..(d - 1) : index[j] = hi[j]
    BY <1>1, <1>2, <1>4, <1>5 DEF Written, Lower
  <2>2. Above(hi[d], index[d])
    <3>1. CASE e = d
      BY <1>2, <1>3, <3>1
    <3>2. CASE e > d
      BY <1>2, <1>5, <3>2 DEF Written, Lower
    <3> QED
      BY <1>4, <3>1, <3>2
  <2>3. d <= Len(index) + 1
    BY <1>1, <1>2, <1>4
  <2> QED
    BY <1>2, <2>1, <2>2, <2>3 DEF Less
<1>6. CASE d = Len(lo) + 1
  <2> DEFINE others == {i \in d..Len(hi) : hi[i] # <<pid, 1>>}
  <2>1. PICK k \in others : \A i \in others : k <= i
    <3>1. hi[Len(hi)] # <<pid, 1>> /\ Len(hi) \in d..Len(hi)
      BY <1>1, <1>2 DEF Whole
    <3>2. others \in SUBSET Nat /\ others # {}
      BY <1>2, <3>1
    <3> HIDE DEF others
    <3> QED
      BY <3>2, Least
  <2>2. k \in d..Len(hi) /\ hi[k] # <<pid, 1>> /\ \A i \in d..(k - 1) : hi[i] = <<pid, 1>>
    BY <1>1, <1>2, <2>1
  <2>3. \A i \in d..(e - 1) : index[i] = <<pid, 1>>
    BY <1>1, <1>2, <1>6 DEF Written, Lower
  <2>4. index[e] = <<pid, 2>>
    <3>1. Lower(lo, e, pid) = <<pid, 1>>
      BY <1>1, <1>4, <1>6 DEF Lower
    <3>2. Successor(<<pid, 1>>) = <<pid, 2>>
      BY FirstSeq
    <3> QED
      BY <3>1, <3>2 DEF Written
  <2>5. k <= e
    <3> SUFFICES ASSUME e < k PROVE FALSE
      BY <2>2
    <3>1. hi[e] = <<pid, 1>> /\ e <= Len(hi)
      BY <1>4, <2>2
    <3> QED
      BY <1>3, <2>4, <3>1 DEF Above
  <2>6. Above(hi[k], index[k])
    <3>1. CASE k = e
      BY <1>3, <2>2, <3>1
    <3>2. CASE k < e
      <4>1. index[k] = <<pid, 1>> /\ hi[k] \in Segment /\ pid <= hi[k][1] /\ hi[k][2] # 0
        BY <1>1, <1>2, <2>2, <2>3, <3>2 DEF Whole
      <4>2. hi[k][1] \in Nat /\ hi[k][2] \in Nat /\ hi[k] = <<hi[k][1], hi[k][2]>>
        <5> DEFINE h == hi[k]
        <5>1. h \in Segment
          BY <4>1
        <5> HIDE DEF h
        <5>2. h[1] \in Nat /\ h[2] \in Nat /\ h = <<h[1], h[2]>>
          BY <5>1, SegmentFields
        <5> QED
          BY <5>2 DEF h
      <4>3. hi[k][1] > pid \/ hi[k][2] > 1
        BY <2>2, <4>1, <4>2
      <4> QED
        BY <4>1, <4>2, <4>3 DEF Above
    <3> QED
      BY <2>2, <2>5, <3>1, <3>2
  <2>7. \A j \in 1..(k - 1) : index[j] = hi[j]
    <3>1. ASSUME NEW j \in 1..(k - 1) PROVE index[j] = hi[j]
      <4>1. CASE j < d
        <5>1. j \in 1..(d - 1) /\ j <= Len(lo) /\ j \in 1..(e - 1)
          BY <1>1, <1>2, <1>4, <1>6, <2>2, <4>1
        <5> QED
          BY <1>2, <5>1 DEF Written, Lower
      <4>2. CASE j >= d
        <5>1. j \in d..(k - 1) /\ j \in d..(e - 1)
          BY <1>1, <1>2, <2>2, <2>5, <4>2
        <5> QED
          BY <2>2, <2>3, <5>1
      <4> QED
        BY <1>2, <2>2, <4>1, <4>2
    <3> QED
      BY <3>1
  <2> QED
    BY <1>1, <1>2, <2>2, <2>5, <2>6, <2>7 DEF Less
<1> QED
  BY <1>1, <1>2, <1>5, <1>6

-----------------------------------------------------------------------------
(* Types *)

Register == [timestamp : 1..MaxTime, pid : Peer, index : Seq(Segment) \ {<<>>},
             lo : Seq(Segment), hi : Seq(Segment), context : SUBSET Nat]

\* TypeOK, and what the documents hold
Typed ==
  /\ writes \in Seq(Register)
  /\ counter \in [Peer -> 0..MaxTime]
  /\ seen \in [Peer -> SUBSET DOMAIN writes]
  /\ DOMAIN doc = Peer
  /\ \A p \in Peer : /\ DOMAIN doc[p] = {writes[v].index : v \in seen[p]}
                     /\ \A i \in DOMAIN doc[p] : /\ doc[p][i] \in seen[p]
                                                 /\ writes[doc[p][i]].index = i
                     /\ doc[p] \in [DOMAIN doc[p] -> seen[p]]

\* The fields of the registers
LEMMA Fields ==
  ASSUME Typed
  PROVE  /\ Len(writes) \in Nat /\ DOMAIN writes = 1..Len(writes)
         /\ \A v \in DOMAIN writes :
              /\ writes[v].timestamp \in 1..MaxTime /\ writes[v].pid \in Peer
              /\ writes[v].pid \in 1..MaxPid
              /\ writes[v].index \in Seq(Segment) /\ writes[v].index # <<>>
              /\ writes[v].lo \in Seq(Segment) /\ writes[v].hi \in Seq(Segment)
<1>1. Len(writes) \in Nat /\ DOMAIN writes = 1..Len(writes)
  BY LenProperties DEF Typed
<1>2. \A v \in DOMAIN writes : writes[v] \in Register
  BY <1>1, ElementOfSeq DEF Typed
<1> QED
  BY <1>1, <1>2, PeerAssumption DEF Register

\* What a write does: one more register, of a later time, that its writer holds
Wrote(p, index, lo, hi, t, n) ==
  /\ n = Len(writes) + 1
  /\ t \in 1..MaxTime /\ t > counter[p]
  /\ Len(writes') = n /\ DOMAIN writes' = 1..n
  /\ \A v \in DOMAIN writes : writes'[v] = writes[v]
  /\ writes'[n].timestamp = t /\ writes'[n].pid = p /\ writes'[n].index = index
  /\ writes'[n].lo = lo /\ writes'[n].hi = hi /\ writes'[n].context = seen[p]
  /\ counter' = [counter EXCEPT ![p] = t]
  /\ doc' = [doc EXCEPT ![p] = Put(doc[p], index, n)]
  /\ seen' = [seen EXCEPT ![p] = seen[p] \cup {n}]

\* A write keeps the types
LEMMA WriteType ==
  ASSUME Typed, NEW p \in Peer, NEW index \in Seq(Segment) \ {<<>>},
         NEW lo \in Seq(Segment), NEW hi \in Seq(Segment), Write(p, index, lo, hi)
  PROVE  /\ Typed'
         /\ \E t \in Nat, n \in Nat : Wrote(p, index, lo, hi, t, n)
<1> DEFINE n == Len(writes) + 1
<1>1. PICK t \in Now(p) :
        /\ writes' = Append(writes, [timestamp |-> t, pid |-> p, index |-> index,
                                     lo |-> lo, hi |-> hi, context |-> seen[p]])
        /\ counter' = [counter EXCEPT ![p] = t]
  BY DEF Write
<1> DEFINE r == [timestamp |-> t, pid |-> p, index |-> index,
                 lo |-> lo, hi |-> hi, context |-> seen[p]]
<1>2. /\ counter[p] \in Nat /\ seen[p] \subseteq DOMAIN writes
      /\ Len(writes) \in Nat /\ DOMAIN writes = 1..Len(writes)
  BY Fields DEF Typed
<1>3. t \in 1..MaxTime /\ t > counter[p] /\ t \in Nat
  BY <1>2, BoundsAssumption DEF Now
<1>4. r \in Register
  BY <1>2, <1>3 DEF Register
<1>5. /\ r.timestamp = t /\ r.pid = p /\ r.index = index
      /\ r.lo = lo /\ r.hi = hi /\ r.context = seen[p]
  OBVIOUS
<1>6. writes' = Append(writes, r)
  BY <1>1
<1> HIDE DEF r
<1>7. /\ writes' \in Seq(Register) /\ Len(writes') = n /\ DOMAIN writes' = 1..n
      /\ \A v \in DOMAIN writes : writes'[v] = writes[v]
      /\ writes'[n] = r
  <2>1. writes \in Seq(Register)
    BY DEF Typed
  <2> QED
    BY <1>2, <1>4, <1>6, <2>1, AppendProperties, LenProperties
<1>8. /\ doc' = [doc EXCEPT ![p] = Put(doc[p], index, n)]
      /\ seen' = [seen EXCEPT ![p] = seen[p] \cup {n}]
  BY DEF Write
<1>9. Wrote(p, index, lo, hi, t, n)
  BY <1>1, <1>3, <1>5, <1>7, <1>8 DEF Wrote
<1>10. n \in Nat /\ n \notin DOMAIN writes
  BY <1>2
<1> HIDE DEF n
<1>11. counter' \in [Peer -> 0..MaxTime] /\ seen' \in [Peer -> SUBSET DOMAIN writes']
  <2>1. DOMAIN writes \cup {n} = DOMAIN writes'
    BY <1>2, <1>7 DEF n
  <2> QED
    BY <1>1, <1>3, <1>8, <2>1 DEF Typed
<1>12. DOMAIN doc' = Peer
  BY <1>8 DEF Typed
<1>13. ASSUME NEW q \in Peer
       PROVE  /\ DOMAIN doc'[q] = {writes'[v].index : v \in seen'[q]}
              /\ \A i \in DOMAIN doc'[q] : doc'[q][i] \in seen'[q] /\ writes'[doc'[q][i]].index = i
              /\ doc'[q] \in [DOMAIN doc'[q] -> seen'[q]]
  <2>1. /\ DOMAIN doc[q] = {writes[v].index : v \in seen[q]} /\ seen[q] \subseteq DOMAIN writes
        /\ doc[q] \in [DOMAIN doc[q] -> seen[q]]
        /\ \A i \in DOMAIN doc[q] : doc[q][i] \in seen[q] /\ writes[doc[q][i]].index = i
    BY DEF Typed
  <2>2. \A v \in seen[q] : writes'[v] = writes[v]
    BY <1>7, <2>1
  <2>3. CASE q # p
    <3>1. doc'[q] = doc[q] /\ seen'[q] = seen[q]
      BY <1>8, <2>3 DEF Typed
    <3> QED
      BY <2>1, <2>2, <3>1
  <2>4. CASE q = p
    <3>1. doc'[q] = Put(doc[q], index, n) /\ seen'[q] = seen[q] \cup {n}
      BY <1>8, <2>4 DEF Typed
    <3>2. DOMAIN doc'[q] = DOMAIN doc[q] \cup {index}
      BY <3>1 DEF Put
    <3>3. \A i \in DOMAIN doc'[q] : doc'[q][i] = IF i = index THEN n ELSE doc[q][i]
      BY <3>1, <3>2 DEF Put
    <3>4. writes'[n].index = index
      BY <1>5, <1>7
    <3>5. {writes'[v].index : v \in seen'[q]} = {writes[v].index : v \in seen[q]} \cup {index}
      BY <2>2, <3>1, <3>4
    <3>6. \A i \in DOMAIN doc'[q] : doc'[q][i] \in seen'[q] /\ writes'[doc'[q][i]].index = i
      BY <2>1, <2>2, <3>1, <3>2, <3>3, <3>4
    <3>7. doc'[q] \in [DOMAIN doc'[q] -> seen'[q]]
      BY <3>1, <3>2, <3>6 DEF Put
    <3> QED
      BY <2>1, <3>2, <3>5, <3>6, <3>7
  <2> QED
    BY <2>3, <2>4
<1>14. Typed'
  BY <1>7, <1>11, <1>12, <1>13 DEF Typed
<1> QED
  BY <1>3, <1>9, <1>10, <1>14

\* A register that arrives keeps the types
LEMMA ReceiveType ==
  ASSUME Typed, NEW p \in Peer, NEW v \in DOMAIN writes, Receive(p, v)
  PROVE  Typed'
<1> DEFINE index == writes[v].index
           u == IF index \in DOMAIN doc[p] THEN merge(doc[p][index], v) ELSE v
<1>1. /\ writes' = writes
      /\ counter' = [counter EXCEPT ![p] = sync(p, writes[v].timestamp)]
      /\ doc' = [doc EXCEPT ![p] = Put(doc[p], index, u)]
      /\ seen' = [seen EXCEPT ![p] = seen[p] \cup {v}]
  BY DEF Receive
<1>2. sync(p, writes[v].timestamp) \in 0..MaxTime
  BY Fields, BoundsAssumption DEF Typed, sync
<1>3. u \in seen[p] \cup {v} /\ writes[u].index = index
  BY DEF Typed, merge
<1> HIDE DEF u
<1>4. ASSUME NEW q \in Peer
      PROVE  /\ DOMAIN doc'[q] = {writes'[x].index : x \in seen'[q]}
             /\ \A i \in DOMAIN doc'[q] : doc'[q][i] \in seen'[q] /\ writes'[doc'[q][i]].index = i
             /\ doc'[q] \in [DOMAIN doc'[q] -> seen'[q]]
  <2>1. /\ DOMAIN doc[q] = {writes[x].index : x \in seen[q]}
        /\ doc[q] \in [DOMAIN doc[q] -> seen[q]]
        /\ \A i \in DOMAIN doc[q] : doc[q][i] \in seen[q] /\ writes[doc[q][i]].index = i
    BY DEF Typed
  <2>2. CASE q # p
    <3>1. doc'[q] = doc[q] /\ seen'[q] = seen[q]
      BY <1>1, <2>2 DEF Typed
    <3> QED
      BY <1>1, <2>1, <3>1
  <2>3. CASE q = p
    <3>1. doc'[q] = Put(doc[q], index, u) /\ seen'[q] = seen[q] \cup {v}
      BY <1>1, <2>3 DEF Typed
    <3>2. DOMAIN doc'[q] = DOMAIN doc[q] \cup {index}
      BY <3>1 DEF Put
    <3>3. \A i \in DOMAIN doc'[q] : doc'[q][i] = IF i = index THEN u ELSE doc[q][i]
      BY <3>1, <3>2 DEF Put
    <3>4. {writes'[x].index : x \in seen'[q]} = {writes[x].index : x \in seen[q]} \cup {index}
      BY <1>1, <3>1
    <3>5. \A i \in DOMAIN doc'[q] : doc'[q][i] \in seen'[q] /\ writes'[doc'[q][i]].index = i
      BY <1>1, <1>3, <2>1, <2>3, <3>1, <3>2, <3>3
    <3>6. doc'[q] \in [DOMAIN doc'[q] -> seen'[q]]
      BY <3>1, <3>2, <3>5 DEF Put
    <3> QED
      BY <2>1, <3>2, <3>4, <3>5, <3>6
  <2> QED
    BY <2>2, <2>3
<1>5. /\ writes' \in Seq(Register) /\ counter' \in [Peer -> 0..MaxTime]
      /\ seen' \in [Peer -> SUBSET DOMAIN writes'] /\ DOMAIN doc' = Peer
  BY <1>1, <1>2 DEF Typed
<1> QED
  BY <1>4, <1>5 DEF Typed

\* The keys of a document are indices
LEMMA KeysAreIndices ==
  ASSUME Typed, NEW p \in Peer
  PROVE  /\ DOMAIN doc[p] \subseteq Seq(Segment) \ {<<>>}
         /\ \A i \in DOMAIN doc[p] : \E u \in seen[p] : writes[u].index = i
<1>1. seen[p] \subseteq DOMAIN writes /\ DOMAIN doc[p] = {writes[v].index : v \in seen[p]}
  BY DEF Typed
<1> QED
  BY <1>1, Fields

\* The write of an insert between two neighbours, and of an assignment
Placed(p, index, lo, hi) ==
  /\ lo \in DOMAIN doc[p] \cup {<<>>} /\ hi \in DOMAIN doc[p] \cup {<<>>}
  /\ Adjacent(p, lo, hi) /\ index = between(lo, hi, p)

Replaced(p, index, lo, hi) == index \in DOMAIN doc[p] /\ lo = index /\ hi = index

\* Every step writes a register, delivers one or changes nothing
LEMMA Steps ==
  ASSUME Typed, [Next]_vars
  PROVE  \/ \E p \in Peer, index \in Seq(Segment) \ {<<>>}, lo \in Seq(Segment),
               hi \in Seq(Segment) :
              /\ Write(p, index, lo, hi)
              /\ Placed(p, index, lo, hi) \/ Replaced(p, index, lo, hi)
         \/ \E p \in Peer, v \in DOMAIN writes : Receive(p, v)
         \/ UNCHANGED vars
<1>1. <<>> \in Seq(Segment)
  BY EmptySeq
<1>2. ASSUME NEW p \in Peer, NEW lo \in DOMAIN doc[p] \cup {<<>>},
             NEW hi \in DOMAIN doc[p] \cup {<<>>}, Insert(p, lo, hi)
      PROVE  /\ between(lo, hi, p) \in Seq(Segment) \ {<<>>}
             /\ lo \in Seq(Segment) /\ hi \in Seq(Segment)
             /\ Write(p, between(lo, hi, p), lo, hi) /\ Placed(p, between(lo, hi, p), lo, hi)
  <2>1. lo \in Seq(Segment) /\ hi \in Seq(Segment) /\ p \in 1..MaxPid
    BY <1>1, KeysAreIndices, PeerAssumption
  <2>2. PICK e \in Nat \ {0} : Written(lo, p, e, between(lo, hi, p))
    BY <2>1, BetweenEnds
  <2>3. between(lo, hi, p) \in Seq(Segment) /\ Len(between(lo, hi, p)) # 0
    BY <2>2 DEF Written
  <2>4. between(lo, hi, p) # <<>>
    BY <2>3
  <2> QED
    BY <1>2, <2>1, <2>3, <2>4 DEF Insert, Placed
<1>3. ASSUME NEW p \in Peer, NEW index \in DOMAIN doc[p], Assign(p, index)
      PROVE  /\ index \in Seq(Segment) \ {<<>>}
             /\ Write(p, index, index, index) /\ Replaced(p, index, index, index)
  BY <1>3, KeysAreIndices DEF Assign, Replaced
<1> QED
  BY <1>2, <1>3 DEF Next

\* The indices, timestamps and documents stay well formed in every behaviour
LEMMA ReplicasTyped == Spec => []Typed
<1>1. Init => Typed
  <2> SUFFICES ASSUME Init PROVE Typed
    OBVIOUS
  <2>1. <<>> \in Seq(Register) /\ DOMAIN <<>> = {}
    BY EmptySeq
  <2>2. DOMAIN doc = Peer /\ seen \in [Peer -> SUBSET DOMAIN writes]
        /\ counter \in [Peer -> 0..MaxTime]
    BY BoundsAssumption DEF Init
  <2>3. \A p \in Peer : doc[p] = <<>> /\ seen[p] = {}
    BY DEF Init
  <2>4. \A p \in Peer : DOMAIN doc[p] = {} /\ {writes[v].index : v \in seen[p]} = {}
    BY <2>1, <2>3
  <2> QED
    BY <2>1, <2>2, <2>4 DEF Init, Typed
<1>2. Typed /\ [Next]_vars => Typed'
  <2> SUFFICES ASSUME Typed, [Next]_vars PROVE Typed'
    OBVIOUS
  <2>1. CASE UNCHANGED vars
    BY <2>1 DEF vars, Typed
  <2> QED
    BY <2>1, Steps, WriteType, ReceiveType
<1> QED
  BY <1>1, <1>2, PTL DEF Spec

\* Indices, headers and documents are well typed for any peers and any network
THEOREM ReplicasTypeCorrect == Spec => []TypeOK
<1>1. Typed => TypeOK
  <2> SUFFICES ASSUME Typed PROVE TypeOK
    OBVIOUS
  <2>1. \A v \in DOMAIN writes : /\ writes[v].timestamp \in 1..MaxTime /\ writes[v].pid \in Peer
                                 /\ writes[v].index \in Seq(Segment) \ {<<>>}
    BY Fields
  <2> QED
    BY <2>1 DEF Typed, TypeOK
<1> QED
  BY <1>1, ReplicasTyped, PTL

-----------------------------------------------------------------------------
(* Timestamps and registers *)

\* The counter of a peer is past every timestamp it has seen, its own included,
\* so its next write is later than all of them; headers are unique
Stamps ==
  /\ \A p \in Peer : \A v \in seen[p] : writes[v].timestamp <= counter[p]
  /\ \A v \in DOMAIN writes : v \in seen[writes[v].pid]
  /\ \A v \in DOMAIN writes : \A u \in writes[v].context :
       u \in DOMAIN writes /\ writes[u].timestamp < writes[v].timestamp
  /\ \A u, v \in DOMAIN writes : Header(u) = Header(v) => u = v

\* u is the register v, or wins against it
Wins(u, v) == u = v \/ Later(Header(u), Header(v))

\* A document holds, of all registers of a key that reached it, the last one
HoldsLast == \A p \in Peer : \A v \in seen[p] : Wins(doc[p][writes[v].index], v)

\* The types of headers
LEMMA HeaderFields ==
  ASSUME Typed, NEW v \in DOMAIN writes
  PROVE  /\ Header(v)[1] = writes[v].timestamp /\ Header(v)[2] = writes[v].pid
         /\ writes[v].timestamp \in Nat /\ writes[v].pid \in Nat
BY Fields, PeerAssumption, BoundsAssumption, MaxAssumption DEF Header

\* A write takes a timestamp of its own
LEMMA WriteStamps ==
  ASSUME Typed, Stamps, NEW p \in Peer, NEW index, NEW lo, NEW hi, NEW t \in Nat, NEW n \in Nat,
         Wrote(p, index, lo, hi, t, n)
  PROVE  Stamps'
<1>1. /\ DOMAIN writes = 1..(n - 1) /\ DOMAIN writes' = 1..n /\ n \notin DOMAIN writes
      /\ \A v \in DOMAIN writes' : v \in DOMAIN writes \/ v = n
      /\ \A v \in DOMAIN writes : writes'[v] = writes[v]
      /\ writes'[n].timestamp = t /\ writes'[n].pid = p /\ writes'[n].context = seen[p]
      /\ t > counter[p]
  BY Fields DEF Wrote
<1>2. /\ counter'[p] = t /\ seen'[p] = seen[p] \cup {n}
      /\ \A q \in Peer \ {p} : counter'[q] = counter[q] /\ seen'[q] = seen[q]
      /\ \A q \in Peer : counter[q] \in Nat /\ seen[q] \subseteq DOMAIN writes
  BY BoundsAssumption DEF Wrote, Typed
<1>3. \A v \in DOMAIN writes : writes[v].timestamp \in Nat /\ writes[v].pid \in Peer
  BY Fields
<1>4. \A q \in Peer : \A v \in seen'[q] : writes'[v].timestamp <= counter'[q]
  <2>1. \A v \in seen[p] : writes'[v].timestamp <= t /\ writes'[v].timestamp < t
    BY <1>1, <1>2, <1>3 DEF Stamps
  <2>2. \A q \in Peer \ {p} : \A v \in seen'[q] : writes'[v].timestamp <= counter'[q]
    BY <1>1, <1>2 DEF Stamps
  <2> QED
    BY <1>1, <1>2, <2>1, <2>2
<1>5. \A v \in DOMAIN writes' : v \in seen'[writes'[v].pid]
  <2>1. ASSUME NEW v \in DOMAIN writes PROVE v \in seen'[writes'[v].pid]
    <3>1. v \in seen[writes[v].pid] /\ writes[v].pid \in Peer /\ writes'[v].pid = writes[v].pid
      BY <1>1, <1>3 DEF Stamps
    <3> QED
      BY <1>2, <3>1
  <2> QED
    BY <1>1, <1>2, <2>1
<1>6. \A v \in DOMAIN writes' : \A u \in writes'[v].context :
        u \in DOMAIN writes' /\ writes'[u].timestamp < writes'[v].timestamp
  <2>1. ASSUME NEW v \in DOMAIN writes, NEW u \in writes'[v].context
        PROVE  u \in DOMAIN writes' /\ writes'[u].timestamp < writes'[v].timestamp
    BY <1>1 DEF Stamps
  <2>2. ASSUME NEW u \in seen[p]
        PROVE  u \in DOMAIN writes' /\ writes'[u].timestamp < t
    BY <1>1, <1>2, <1>3 DEF Stamps
  <2> QED
    BY <1>1, <2>1, <2>2
<1>7. \A u, v \in DOMAIN writes' : Header(u)' = Header(v)' => u = v
  <2>1. \A v \in DOMAIN writes : Header(v)' = Header(v)
    BY <1>1 DEF Header
  <2>2. ASSUME NEW v \in DOMAIN writes PROVE Header(v)' # Header(n)'
    <3>1. Header(n)' = <<t, p>> /\ Header(v)' = <<writes[v].timestamp, writes[v].pid>>
      BY <1>1 DEF Header
    <3>2. writes[v].pid = p => writes[v].timestamp <= counter[p]
      BY DEF Stamps
    <3>3. writes[v].pid = p => writes[v].timestamp # t
      BY <1>1, <1>2, <1>3, <3>2
    <3> QED
      BY <3>1, <3>3
  <2>3. \A u, v \in DOMAIN writes : Header(u) = Header(v) => u = v
    BY DEF Stamps
  <2> QED
    BY <1>1, <2>1, <2>2, <2>3
<1> QED
  BY <1>4, <1>5, <1>6, <1>7 DEF Stamps

\* A register that arrives advances the clock past its timestamp
LEMMA ReceiveStamps ==
  ASSUME Typed, Stamps, NEW p \in Peer, NEW v \in DOMAIN writes, Receive(p, v)
  PROVE  Stamps'
<1>1. /\ writes' = writes
      /\ counter'[p] = sync(p, writes[v].timestamp) /\ seen'[p] = seen[p] \cup {v}
      /\ \A q \in Peer \ {p} : counter'[q] = counter[q] /\ seen'[q] = seen[q]
  BY DEF Receive, Typed
<1>2. /\ writes[v].timestamp \in Nat /\ counter[p] \in Nat
      /\ \A u \in seen[p] : writes[u].timestamp \in Nat
  BY Fields, BoundsAssumption DEF Typed
<1>3. writes[v].timestamp <= counter'[p] /\ counter[p] <= counter'[p] /\ counter'[p] \in Nat
  BY <1>1, <1>2 DEF sync
<1>4. \A q \in Peer : \A u \in seen'[q] : writes'[u].timestamp <= counter'[q]
  <2>1. \A u \in seen[p] : writes[u].timestamp <= counter'[p]
    BY <1>2, <1>3 DEF Stamps
  <2> QED
    BY <1>1, <1>3, <2>1 DEF Stamps
<1>5. \A q \in Peer : seen[q] \subseteq seen'[q]
  BY <1>1
<1>6. \A u \in DOMAIN writes' : u \in seen'[writes'[u].pid]
  BY <1>1, <1>5, Fields DEF Stamps
<1>7. \A u \in DOMAIN writes : Header(u)' = Header(u)
  BY <1>1 DEF Header
<1> QED
  BY <1>1, <1>4, <1>6, <1>7 DEF Stamps

\* merge keeps a register that wins against both: headers are totally ordered
LEMMA MergeWins ==
  ASSUME Typed, Stamps, NEW u \in DOMAIN writes, NEW v \in DOMAIN writes
  PROVE  Wins(merge(u, v), u) /\ Wins(merge(u, v), v)
<1>1. /\ Header(u)[1] \in Nat /\ Header(u)[2] \in Nat
      /\ Header(v)[1] \in Nat /\ Header(v)[2] \in Nat
  BY HeaderFields
<1>2. Header(u) = <<Header(u)[1], Header(u)[2]>> /\ Header(v) = <<Header(v)[1], Header(v)[2]>>
  BY DEF Header
<1>3. Header(u) = Header(v) => u = v
  BY DEF Stamps
<1>4. CASE Later(Header(u), Header(v))
  BY <1>4 DEF merge, Wins
<1>5. CASE ~Later(Header(u), Header(v))
  <2>1. u = v \/ Later(Header(v), Header(u))
    BY <1>1, <1>2, <1>3, <1>5 DEF Later
  <2> QED
    BY <1>5, <2>1 DEF merge, Wins
<1> QED
  BY <1>4, <1>5

\* To win is transitive
LEMMA WinsTransitive ==
  ASSUME Typed, NEW u \in DOMAIN writes, NEW v \in DOMAIN writes, NEW w \in DOMAIN writes,
         Wins(u, v), Wins(v, w)
  PROVE  Wins(u, w)
<1>1. /\ Header(u)[1] \in Nat /\ Header(u)[2] \in Nat
      /\ Header(v)[1] \in Nat /\ Header(v)[2] \in Nat
      /\ Header(w)[1] \in Nat /\ Header(w)[2] \in Nat
  BY HeaderFields
<1> QED
  BY <1>1 DEF Wins, Later

\* A write wins against everything its writer has seen
LEMMA WriteHoldsLast ==
  ASSUME Typed, Stamps, HoldsLast, NEW p \in Peer, NEW index, NEW lo, NEW hi,
         NEW t \in Nat, NEW n \in Nat, Wrote(p, index, lo, hi, t, n)
  PROVE  HoldsLast'
<1>1. /\ n \notin DOMAIN writes /\ t > counter[p]
      /\ \A v \in DOMAIN writes : writes'[v] = writes[v]
      /\ writes'[n].timestamp = t /\ writes'[n].index = index
  BY Fields DEF Wrote
<1>2. \A v \in DOMAIN writes : Header(v)' = Header(v)
  BY <1>1 DEF Header
<1>3. \A u, v \in DOMAIN writes : Wins(u, v) => Wins(u, v)'
  BY <1>2 DEF Wins
<1>4. ASSUME NEW q \in Peer, NEW v \in seen'[q]
      PROVE  Wins(doc[q][writes[v].index], v)'
  <2>1. CASE q # p
    <3>1. doc'[q] = doc[q] /\ v \in seen[q] /\ seen[q] \subseteq DOMAIN writes
      BY <1>4, <2>1 DEF Wrote, Typed
    <3>2. writes'[v] = writes[v] /\ writes[v].index \in DOMAIN doc[q] /\ v \in DOMAIN writes
      BY <1>1, <3>1 DEF Typed
    <3>3. doc[q][writes[v].index] \in DOMAIN writes
      BY <3>1, <3>2 DEF Typed
    <3>4. Wins(doc[q][writes[v].index], v)
      BY <3>1 DEF HoldsLast
    <3> QED
      BY <1>1, <3>1, <3>2, <3>3, <3>4 DEF Wins, Header
  <2>2. CASE q = p
    <3>1. doc'[q] = Put(doc[q], index, n) /\ seen'[q] = seen[q] \cup {n}
          /\ seen[q] \subseteq DOMAIN writes
      BY <2>2 DEF Wrote, Typed
    <3>2. CASE v = n
      <4>1. doc'[q][writes'[v].index] = n
        BY <1>1, <3>1, <3>2 DEF Put
      <4> QED
        BY <3>2, <4>1 DEF Wins
    <3>3. CASE v # n
      <4>1. v \in seen[q] /\ v \in DOMAIN writes /\ writes'[v] = writes[v]
            /\ writes[v].index \in DOMAIN doc[q]
        BY <1>1, <1>4, <3>1, <3>3 DEF Typed
      <4>2. CASE writes[v].index = index
        <5>1. doc'[q][writes'[v].index] = n
          BY <3>1, <4>1, <4>2 DEF Put
        <5>2. writes[v].timestamp <= counter[p]
          BY <2>2, <4>1 DEF Stamps
        <5>3. writes[v].timestamp \in Nat /\ counter[p] \in Nat
          BY <4>1, Fields, BoundsAssumption DEF Typed
        <5>4. Header(n)'[1] = t /\ Header(v)'[1] = writes[v].timestamp
          BY <1>1, <4>1 DEF Header
        <5>5. Later(Header(n)', Header(v)')
          BY <1>1, <5>2, <5>3, <5>4 DEF Later
        <5> QED
          BY <5>1, <5>5 DEF Wins, Header
      <4>3. CASE writes[v].index # index
        <5>1. doc'[q][writes'[v].index] = doc[q][writes[v].index]
          BY <3>1, <4>1, <4>3 DEF Put
        <5>2. doc[q][writes[v].index] \in DOMAIN writes
          BY <3>1, <4>1 DEF Typed
        <5>3. Wins(doc[q][writes[v].index], v)
          BY <4>1 DEF HoldsLast
        <5> QED
          BY <1>1, <4>1, <5>1, <5>2, <5>3 DEF Wins, Header
      <4> QED
        BY <4>2, <4>3
    <3> QED
      BY <3>2, <3>3
  <2> QED
    BY <2>1, <2>2
<1> QED
  BY <1>4 DEF HoldsLast

\* A register that arrives is kept if, and only if, it wins
LEMMA ReceiveHoldsLast ==
  ASSUME Typed, Stamps, HoldsLast, NEW p \in Peer, NEW v \in DOMAIN writes, Receive(p, v)
  PROVE  HoldsLast'
<1> DEFINE index == writes[v].index
           u == IF index \in DOMAIN doc[p] THEN merge(doc[p][index], v) ELSE v
<1>1. /\ writes' = writes
      /\ doc' = [doc EXCEPT ![p] = Put(doc[p], index, u)]
      /\ seen' = [seen EXCEPT ![p] = seen[p] \cup {v}]
  BY DEF Receive
<1>2. ASSUME NEW x \in seen[p] \cup {v}, writes[x].index = index
      PROVE  Wins(u, x)
  <2>1. CASE index \in DOMAIN doc[p]
    <3>1. doc[p][index] \in DOMAIN writes /\ u = merge(doc[p][index], v) /\ u \in DOMAIN writes
      BY <2>1 DEF Typed, merge
    <3>2. Wins(u, doc[p][index]) /\ Wins(u, v)
      BY <3>1, MergeWins
    <3>3. CASE x = v
      BY <3>2, <3>3
    <3>4. CASE x # v
      <4>1. x \in seen[p] /\ x \in DOMAIN writes
        BY <3>4 DEF Typed
      <4>2. Wins(doc[p][index], x)
        BY <1>2, <4>1 DEF HoldsLast
      <4> QED
        BY <3>1, <3>2, <4>1, <4>2, WinsTransitive
    <3> QED
      BY <3>3, <3>4
  <2>2. CASE index \notin DOMAIN doc[p]
    <3>1. u = v
      BY <2>2
    <3>2. x \notin seen[p]
      BY <1>2, <2>2 DEF Typed
    <3> QED
      BY <3>1, <3>2 DEF Wins
  <2> QED
    BY <2>1, <2>2
<1> HIDE DEF u
<1>3. ASSUME NEW q \in Peer, NEW x \in seen'[q]
      PROVE  Wins(doc'[q][writes[x].index], x)
  <2>1. CASE q # p
    <3>1. doc'[q] = doc[q] /\ x \in seen[q]
      BY <1>1, <1>3, <2>1 DEF Typed
    <3> QED
      BY <3>1 DEF HoldsLast
  <2>2. CASE q = p
    <3>1. doc'[q] = Put(doc[q], index, u) /\ x \in seen[q] \cup {v}
      BY <1>1, <1>3, <2>2 DEF Typed
    <3>2. CASE writes[x].index = index
      <4>1. doc'[q][writes[x].index] = u
        BY <3>1, <3>2 DEF Put
      <4> QED
        BY <1>2, <2>2, <3>1, <3>2, <4>1
    <3>3. CASE writes[x].index # index
      <4>1. x \in seen[q] /\ writes[x].index \in DOMAIN doc[q]
        BY <3>1, <3>3 DEF Typed
      <4>2. doc'[q][writes[x].index] = doc[q][writes[x].index]
        BY <3>1, <3>3, <4>1 DEF Put
      <4> QED
        BY <4>1, <4>2 DEF HoldsLast
    <3> QED
      BY <3>2, <3>3
  <2> QED
    BY <2>1, <2>2
<1> QED
  BY <1>1, <1>3 DEF HoldsLast, Wins, Header

\* Both hold in every state
LEMMA ReplicasHoldLast == Spec => [](Typed /\ Stamps /\ HoldsLast)
<1>1. Init => Stamps /\ HoldsLast
  <2> SUFFICES ASSUME Init PROVE Stamps /\ HoldsLast
    OBVIOUS
  <2>1. DOMAIN writes = {} /\ \A p \in Peer : seen[p] = {}
    BY DEF Init
  <2> QED
    BY <2>1 DEF Stamps, HoldsLast
<1>2. Typed /\ Stamps /\ HoldsLast /\ [Next]_vars => Stamps' /\ HoldsLast'
  <2> SUFFICES ASSUME Typed, Stamps, HoldsLast, [Next]_vars PROVE Stamps' /\ HoldsLast'
    OBVIOUS
  <2>1. CASE UNCHANGED vars
    BY <2>1 DEF vars, Stamps, HoldsLast, Wins, Header
  <2> QED
    BY <2>1, Steps, WriteType, WriteStamps, WriteHoldsLast, ReceiveStamps, ReceiveHoldsLast
<1> QED
  BY <1>1, <1>2, ReplicasTyped, PTL DEF Spec

\* Peers that have made or received the same writes hold the same registers, in
\* whatever order and however often they arrived: each holds the last of every key
THEOREM ReplicasConverge == Spec => []Converges
<1>1. Typed /\ Stamps /\ HoldsLast => Converges
  <2> SUFFICES ASSUME Typed, Stamps, HoldsLast, NEW p \in Peer, NEW q \in Peer, seen[p] = seen[q]
               PROVE  doc[p] = doc[q]
    BY DEF Converges
  <2>1. DOMAIN doc[p] = DOMAIN doc[q]
    BY DEF Typed
  <2>2. ASSUME NEW i \in DOMAIN doc[p] PROVE doc[p][i] = doc[q][i]
    <3> DEFINE u == doc[p][i]
               v == doc[q][i]
    <3>1. /\ u \in seen[p] /\ writes[u].index = i /\ u \in DOMAIN writes
          /\ v \in seen[q] /\ writes[v].index = i /\ v \in DOMAIN writes
      BY <2>1 DEF Typed
    <3>2. Wins(u, v) /\ Wins(v, u)
      BY <3>1 DEF HoldsLast
    <3>3. /\ Header(u)[1] \in Nat /\ Header(u)[2] \in Nat
          /\ Header(v)[1] \in Nat /\ Header(v)[2] \in Nat
      BY <3>1, HeaderFields
    <3> HIDE DEF u, v
    <3>4. u = v
      BY <3>2, <3>3 DEF Wins, Later
    <3> QED
      BY <3>4 DEF u, v
  <2>3. /\ doc[p] \in [DOMAIN doc[p] -> seen[p]] /\ doc[q] \in [DOMAIN doc[p] -> seen[p]]
    BY <2>1 DEF Typed
  <2> QED
    BY <2>2, <2>3
<1> QED
  BY <1>1, ReplicasHoldLast, PTL

\* A write that has reached a peer is never hidden there by one that its writer
\* had seen: its timestamp is past that one's
THEOREM ReplicasKeepReplacements == Spec => []ReplacedStaysReplaced
<1>1. Typed /\ Stamps /\ HoldsLast => ReplacedStaysReplaced
  <2> SUFFICES ASSUME Typed, Stamps, HoldsLast, NEW p \in Peer, NEW v \in seen[p],
                      doc[p][writes[v].index] \in writes[v].context
               PROVE  FALSE
    BY DEF ReplacedStaysReplaced
  <2> DEFINE u == doc[p][writes[v].index]
  <2>1. v \in DOMAIN writes /\ u \in DOMAIN writes /\ writes[u].timestamp < writes[v].timestamp
    BY DEF Typed, Stamps
  <2>2. Wins(u, v)
    BY DEF HoldsLast
  <2> HIDE DEF u
  <2>3. /\ Header(u)[1] = writes[u].timestamp /\ Header(v)[1] = writes[v].timestamp
        /\ writes[u].timestamp \in Nat /\ writes[v].timestamp \in Nat
    BY <2>1, HeaderFields
  <2> QED
    BY <2>1, <2>2, <2>3 DEF Wins, Later
<1> QED
  BY <1>1, ReplicasHoldLast, PTL

-----------------------------------------------------------------------------
(* Positions *)

\* Where an insert was made: between neighbours that its writer knew, or one end
\* of the document, with no item it knew between them
InsertedAt(x) ==
  /\ x.index = between(x.lo, x.hi, x.pid)
  /\ x.lo = <<>> \/ \E u \in x.context : writes[u].index = x.lo
  /\ x.hi = <<>> \/ \E u \in x.context : writes[u].index = x.hi
  /\ x.lo # <<>> /\ x.hi # <<>> => Less(x.lo, x.hi)
  /\ \A u \in x.context : ~(/\ x.lo = <<>> \/ Less(x.lo, writes[u].index)
                            /\ x.hi = <<>> \/ Less(writes[u].index, x.hi))

IsInsert(v) == writes[v].lo # writes[v].index

Born == \A v \in DOMAIN writes : IsInsert(v) => InsertedAt(writes[v])

\* As long as no seq wraps, indices are whole
StaysWhole ==
  \A v \in DOMAIN writes :
    (\A u \in 1..v : IsInsert(u) => NotWrapped(writes[u])) => Whole(writes[v].index)

\* An insert after a whole index that does not wrap has a whole index
LEMMA WrittenWhole ==
  ASSUME NEW lo \in Seq(Segment), Whole(lo), NEW pid \in 1..MaxPid, NEW e \in Nat \ {0},
         NEW index, Written(lo, pid, e, index), index[Len(index)][2] # 0
  PROVE  Whole(index)
<1>1. Len(lo) \in Nat /\ Len(index) = e /\ index[e] = Successor(Lower(lo, e, pid))
  BY LenProperties DEF Written
<1>2. \A i \in 1..e : Lower(lo, i, pid)[2] # 0
  BY <1>1 DEF Lower, Whole
<1>3. \A i \in 1..(e - 1) : index[i][2] # 0
  BY <1>2 DEF Written
<1>4. index[e][2] # 0 /\ index[e][2] # 1
  <2> DEFINE l == Lower(lo, e, pid)
  <2>1. l \in Segment /\ l[2] # 0 /\ index[e] = Successor(l)
    BY <1>1, <1>2, LowerType
  <2> HIDE DEF l
  <2>2. l[2] \in Nat /\ index[e] = <<l[1], l[2] + 1>>
    BY <1>1, <2>1, SuccessorFits, SegmentFields
  <2> QED
    BY <2>1, <2>2
<1>5. \A i \in 1..e : index[i][2] # 0
  BY <1>3, <1>4
<1> QED
  BY <1>1, <1>4, <1>5 DEF Whole

\* A write records where it was made
LEMMA WriteBorn ==
  ASSUME Typed, Stamps, Born, NEW p \in Peer, NEW index, NEW lo, NEW hi,
         NEW t \in Nat, NEW n \in Nat, Wrote(p, index, lo, hi, t, n),
         Placed(p, index, lo, hi) \/ Replaced(p, index, lo, hi)
  PROVE  Born'
<1>1. /\ \A v \in DOMAIN writes : writes'[v] = writes[v]
      /\ \A v \in DOMAIN writes' : v \in DOMAIN writes \/ v = n
      /\ writes'[n].pid = p /\ writes'[n].index = index
      /\ writes'[n].lo = lo /\ writes'[n].hi = hi /\ writes'[n].context = seen[p]
  BY Fields DEF Wrote
<1>2. ASSUME NEW v \in DOMAIN writes, IsInsert(v)' PROVE InsertedAt(writes[v])'
  <2>1. InsertedAt(writes[v]) /\ writes'[v] = writes[v]
    BY <1>1, <1>2 DEF Born, IsInsert
  <2>2. \A u \in writes[v].context : writes'[u] = writes[u]
    BY <1>1 DEF Stamps
  <2> QED
    BY <2>1, <2>2 DEF InsertedAt
<1>3. ASSUME IsInsert(n)' PROVE InsertedAt(writes[n])'
  <2>1. lo # index
    BY <1>1, <1>3 DEF IsInsert
  <2>2. Placed(p, index, lo, hi)
    BY <2>1 DEF Replaced
  <2>3. \A u \in seen[p] : writes'[u] = writes[u] /\ writes[u].index \in DOMAIN doc[p]
    BY <1>1 DEF Typed
  <2>4. /\ lo = <<>> \/ \E u \in seen[p] : writes'[u].index = lo
        /\ hi = <<>> \/ \E u \in seen[p] : writes'[u].index = hi
    BY <2>2, <2>3, KeysAreIndices DEF Placed
  <2>5. /\ lo # <<>> /\ hi # <<>> => Less(lo, hi)
        /\ \A u \in seen[p] : ~(/\ lo = <<>> \/ Less(lo, writes'[u].index)
                                /\ hi = <<>> \/ Less(writes'[u].index, hi))
    BY <2>2, <2>3 DEF Placed, Adjacent
  <2>6. index = between(lo, hi, p)
    BY <2>2 DEF Placed
  <2> QED
    BY <1>1, <2>4, <2>5, <2>6 DEF InsertedAt
<1> QED
  BY <1>1, <1>2, <1>3 DEF Born

\* A write whose seq does not wrap has a whole index if those before it have
LEMMA WriteWhole ==
  ASSUME Typed, StaysWhole, NEW p \in Peer, NEW index, NEW lo, NEW hi,
         NEW t \in Nat, NEW n \in Nat, Wrote(p, index, lo, hi, t, n),
         Placed(p, index, lo, hi) \/ Replaced(p, index, lo, hi)
  PROVE  StaysWhole'
<1>1. /\ \A v \in DOMAIN writes : writes'[v] = writes[v]
      /\ \A v \in DOMAIN writes' : v \in DOMAIN writes \/ v = n
      /\ DOMAIN writes = 1..(n - 1)
      /\ writes'[n].index = index /\ writes'[n].lo = lo
  BY Fields DEF Wrote
<1>2. ASSUME NEW v \in DOMAIN writes,
             \A u \in 1..v : IsInsert(u)' => NotWrapped(writes'[u])
      PROVE  Whole(writes[v].index)
  <2>1. \A u \in 1..v : writes'[u] = writes[u]
    BY <1>1
  <2> QED
    BY <1>2, <2>1 DEF StaysWhole, IsInsert
<1>3. ASSUME \A u \in 1..n : IsInsert(u)' => NotWrapped(writes'[u])
      PROVE  Whole(index)
  <2>1. \A v \in DOMAIN writes : Whole(writes[v].index)
    BY <1>1, <1>2, <1>3
  <2>2. \A i \in DOMAIN doc[p] : Whole(i) /\ i \in Seq(Segment)
    BY <2>1, KeysAreIndices DEF Typed
  <2>3. CASE index = lo \/ Replaced(p, index, lo, hi)
    <3>1. index \in DOMAIN doc[p] \/ index = <<>>
      BY <2>3 DEF Placed, Replaced
    <3>2. Whole(<<>>)
      BY DEF Whole
    <3> QED
      BY <2>2, <3>1, <3>2
  <2>4. CASE index # lo /\ Placed(p, index, lo, hi)
    <3>1. n \in 1..n
      BY DEF Wrote
    <3>2. index[Len(index)][2] # 0
      BY <1>1, <1>3, <2>4, <3>1 DEF IsInsert, NotWrapped
    <3>3. <<>> \in Seq(Segment) /\ Whole(<<>>)
      BY EmptySeq DEF Whole
    <3>4. lo \in Seq(Segment) /\ hi \in Seq(Segment) /\ Whole(lo) /\ p \in 1..MaxPid
      BY <2>2, <2>4, <3>3, PeerAssumption DEF Placed
    <3>5. PICK e \in Nat \ {0} : Written(lo, p, e, index)
      BY <2>4, <3>4, BetweenEnds DEF Placed
    <3> QED
      BY <3>2, <3>4, <3>5, WrittenWhole
  <2> QED
    BY <2>3, <2>4
<1> QED
  BY <1>1, <1>2, <1>3 DEF StaysWhole, Whole, NotWrapped

\* Both hold in every state
LEMMA ReplicasBorn == Spec => [](Typed /\ Stamps /\ Born /\ StaysWhole)
<1>1. Init => Born /\ StaysWhole
  <2> SUFFICES ASSUME Init PROVE Born /\ StaysWhole
    OBVIOUS
  <2>1. DOMAIN writes = {}
    BY DEF Init
  <2> QED
    BY <2>1 DEF Born, StaysWhole
<1>2. Typed /\ Stamps /\ Born /\ StaysWhole /\ [Next]_vars => Born' /\ StaysWhole'
  <2> SUFFICES ASSUME Typed, Stamps, Born, StaysWhole, [Next]_vars PROVE Born' /\ StaysWhole'
    OBVIOUS
  <2>1. CASE UNCHANGED writes
    BY <2>1 DEF Born, StaysWhole, InsertedAt, IsInsert, NotWrapped, Whole
  <2>2. CASE \E p \in Peer, index \in Seq(Segment) \ {<<>>}, lo \in Seq(Segment),
                hi \in Seq(Segment) :
               /\ Write(p, index, lo, hi)
               /\ Placed(p, index, lo, hi) \/ Replaced(p, index, lo, hi)
    <3>1. PICK p \in Peer, index \in Seq(Segment) \ {<<>>}, lo \in Seq(Segment),
               hi \in Seq(Segment) :
                 /\ Write(p, index, lo, hi)
                 /\ Placed(p, index, lo, hi) \/ Replaced(p, index, lo, hi)
      BY <2>2
    <3>2. PICK t \in Nat, n \in Nat : Wrote(p, index, lo, hi, t, n)
      BY <3>1, WriteType
    <3> QED
      BY <3>1, <3>2, WriteBorn, WriteWhole
  <2>3. ASSUME NEW p \in Peer, NEW v \in DOMAIN writes, Receive(p, v)
        PROVE  UNCHANGED writes
    BY <2>3 DEF Receive
  <2> QED
    BY <2>1, <2>2, <2>3, Steps DEF vars
<1> QED
  BY <1>1, <1>2, ReplicasHoldLast, PTL DEF Spec

\* What an insert is made of
LEMMA InsertFacts ==
  ASSUME Typed, Stamps, Born, NEW x \in Inserts
  PROVE  /\ x.lo \in Seq(Segment) /\ x.hi \in Seq(Segment) /\ x.pid \in 1..MaxPid
         /\ InsertedAt(x) /\ x.context \subseteq DOMAIN writes
         /\ \E e \in Nat \ {0} : /\ Ends(x.lo, x.hi, x.pid, e)
                                 /\ Written(x.lo, x.pid, e, x.index)
<1>1. PICK v \in DOMAIN writes : x = writes[v] /\ IsInsert(v)
  BY DEF Inserts, IsInsert
<1>2. x.lo \in Seq(Segment) /\ x.hi \in Seq(Segment) /\ x.pid \in 1..MaxPid
  BY <1>1, Fields
<1>3. InsertedAt(x) /\ x.context \subseteq DOMAIN writes
  BY <1>1 DEF Born, Stamps
<1>4. x.index = between(x.lo, x.hi, x.pid)
  BY <1>3 DEF InsertedAt
<1> QED
  BY <1>2, <1>3, <1>4, BetweenEnds

\* If no insert has wrapped every index is whole
LEMMA AllWhole ==
  ASSUME Typed, StaysWhole, \A x \in Inserts : NotWrapped(x), NEW v \in DOMAIN writes
  PROVE  Whole(writes[v].index)
<1>1. \A u \in 1..v : IsInsert(u) => NotWrapped(writes[u])
  BY Fields DEF IsInsert, Inserts
<1> QED
  BY <1>1 DEF StaysWhole

\* An insert lands after the item before it, for any neighbours and any peer
THEOREM ReplicasLandAfter == Spec => []LandsAfterPrevious
<1>1. Typed /\ Stamps /\ Born => LandsAfterPrevious
  <2> SUFFICES ASSUME Typed, Stamps, Born, NEW x \in Inserts, NotWrapped(x)
               PROVE  Less(x.lo, x.index)
    BY DEF LandsAfterPrevious
  <2>1. PICK e \in Nat \ {0} : Written(x.lo, x.pid, e, x.index)
    BY InsertFacts
  <2> QED
    BY <2>1, InsertFacts, BetweenAfter DEF NotWrapped
<1> QED
  BY <1>1, ReplicasBorn, PTL

\* An insert lands before the item after it, and at a place of its own among the
\* items its writer knows, if that item has no segment of a lower peer
THEOREM ReplicasLandBefore == Spec => []LandsBeforeNext
<1>1. Typed /\ Stamps /\ Born /\ StaysWhole => LandsBeforeNext
  <2> SUFFICES ASSUME Typed, Stamps, Born, StaysWhole, \A x \in Inserts : NotWrapped(x),
                      NEW x \in Inserts, x.hi # <<>>,
                      \A i \in DOMAIN x.hi : x.pid <= x.hi[i][1]
               PROVE  /\ Less(x.index, x.hi)
                      /\ \A v \in x.context : writes[v].index # x.index
    BY DEF LandsBeforeNext
  <2>1. PICK e \in Nat \ {0} : Ends(x.lo, x.hi, x.pid, e) /\ Written(x.lo, x.pid, e, x.index)
    BY InsertFacts
  <2>2. /\ x.lo \in Seq(Segment) /\ x.hi \in Seq(Segment) /\ x.pid \in 1..MaxPid
        /\ x.context \subseteq DOMAIN writes /\ InsertedAt(x)
    BY InsertFacts
  <2>3. DOMAIN x.hi = 1..Len(x.hi) /\ Len(x.hi) \in Nat
    BY <2>2, LenProperties
  <2>4. Whole(x.hi)
    BY <2>2, AllWhole DEF InsertedAt
  <2>5. Less(x.lo, x.hi)
    <3>1. CASE x.lo # <<>>
      BY <2>2, <3>1 DEF InsertedAt
    <3>2. CASE x.lo = <<>>
      <4>1. 1 \in 1..Len(x.hi) /\ Len(x.lo) = 0
        BY <2>2, <2>3, <3>2, EmptySeq
      <4> QED
        BY <4>1 DEF Less
    <3> QED
      BY <3>1, <3>2
  <2>6. x.index[Len(x.index)][2] # 0
    BY DEF NotWrapped
  <2>7. Less(x.index, x.hi)
    BY <2>1, <2>2, <2>3, <2>4, <2>5, <2>6, BetweenBefore
  <2>8. Less(x.lo, x.index)
    BY <2>1, <2>2, <2>6, BetweenAfter
  <2>9. \A v \in x.context : writes[v].index # x.index
    BY <2>2, <2>7, <2>8 DEF InsertedAt
  <2> QED
    BY <2>7, <2>9
<1> QED
  BY <1>1, ReplicasBorn, PTL

\* Y goes on at the place of X, which has m segments: it agrees with X up to the
\* last segment, which stays or takes the next seq, perhaps wrapping
Continues(X, Y, m) ==
  /\ Len(X) = m /\ Len(Y) >= m
  /\ \A j \in 1..(m - 1) : Y[j] = X[j]
  /\ Y[m] = X[m] \/ (Len(Y) = m /\ Y[m][1] = X[m][1] /\ Y[m][2] <= X[m][2] + 1)

\* Z has the place of X, and its last segment if Z is longer
Within(X, Z, m) ==
  /\ Len(Z) >= m
  /\ \A j \in 1..(m - 1) : Z[j] = X[j]
  /\ Z[m][1] = X[m][1] /\ (Len(Z) > m => Z[m] = X[m])

\* The insert right after one's own goes on at its place
LEMMA RunContinues ==
  ASSUME NEW lo \in Seq(Segment), NEW hi \in Seq(Segment), NEW pid \in 1..MaxPid,
         NEW m \in Nat \ {0}, NEW X, Ends(lo, hi, pid, m), Written(lo, pid, m, X),
         NEW e \in Nat \ {0}, NEW Y, Ends(X, hi, pid, e), Written(X, pid, e, Y)
  PROVE  Continues(X, Y, m)
<1>1. X \in Seq(Segment) /\ Len(X) = m /\ Len(Y) = e /\ Len(lo) \in Nat
  BY LenProperties DEF Written
<1>2. \A j \in 1..m : Lower(X, j, pid) = X[j]
  BY <1>1 DEF Lower
<1>3. ASSUME NEW j \in 1..(m - 1) PROVE ~Diffs(X, hi, pid, j)
  <2>1. Lower(X, j, pid) = Lower(lo, j, pid) /\ ~Diffs(lo, hi, pid, j) /\ j <= Len(X)
    BY <1>1, <1>2 DEF Written, Ends
  <2>2. j > Len(lo) => Lower(lo, j, pid)[1] = pid
    BY <1>1 DEF Lower
  <2> QED
    BY <1>1, <2>1, <2>2 DEF Diffs
<1>4. e >= m
  BY <1>3 DEF Ends
<1>5. \A j \in 1..(m - 1) : Y[j] = X[j]
  <2>1. ASSUME NEW j \in 1..(m - 1) PROVE Y[j] = X[j]
    <3>1. j \in 1..(e - 1) /\ j \in 1..m
      BY <1>4
    <3> QED
      BY <1>2, <3>1 DEF Written
  <2> QED
    BY <2>1
<1>6. CASE e = m
  <2>1. X[m] \in Segment /\ Y[m] = Successor(X[m])
    BY <1>1, <1>2, <1>6, ElementOfSeq DEF Written
  <2>2. Y[m][1] = X[m][1] /\ Y[m][2] <= X[m][2] + 1
    BY <2>1, SuccessorNext
  <2> QED
    BY <1>1, <1>4, <1>5, <1>6, <2>2 DEF Continues
<1>7. CASE e > m
  <2>1. m \in 1..(e - 1) /\ m \in 1..m
    BY <1>7
  <2> QED
    BY <1>1, <1>2, <1>4, <1>5, <2>1 DEF Written, Continues
<1> QED
  BY <1>4, <1>6, <1>7

\* What lies between the two continues the first
LEMMA BetweenRun ==
  ASSUME NEW X \in Seq(Segment), NEW Y \in Seq(Segment), NEW Z \in Seq(Segment),
         NEW m \in Nat \ {0}, Continues(X, Y, m), Less(X, Z), Less(Z, Y)
  PROVE  Len(Z) > m /\ \A j \in 1..m : Z[j] = X[j]
<1> USE DEF Continues
<1>1. /\ Len(Y) \in Nat /\ Len(Z) \in Nat
      /\ \A i \in 1..m : X[i] \in Segment
      /\ \A i \in 1..Len(Y) : Y[i] \in Segment
      /\ \A i \in 1..Len(Z) : Z[i] \in Segment
  BY LenProperties, ElementOfSeq
<1>2. PICK i \in 1..Len(Z) : /\ i <= m + 1 /\ \A j \in 1..(i - 1) : X[j] = Z[j]
                             /\ i <= m => Above(Z[i], X[i])
  BY LessAt
<1>3. PICK k \in 1..Len(Y) : /\ k <= Len(Z) + 1 /\ \A j \in 1..(k - 1) : Z[j] = Y[j]
                             /\ k <= Len(Z) => Above(Y[k], Z[k])
  BY LessAt
<1>4. ASSUME i <= m PROVE FALSE
  <2>1. Above(Z[i], X[i]) /\ i \in 1..m /\ Z[i] \in Segment /\ X[i] \in Segment
        /\ i \in 1..Len(Y) /\ Y[i] \in Segment
    BY <1>1, <1>2, <1>4
  <2>2. Y[i] = X[i] \/ (Y[i][1] = X[i][1] /\ Y[i][2] <= X[i][2] + 1)
    BY <2>1
  <2>3. CASE k = i
    <3>1. Above(Y[i], Z[i])
      BY <1>2, <1>3, <2>3
    <3> QED
      BY <2>1, <2>2, <3>1, AboveStrict, NothingBetween
  <2>4. CASE k < i
    <3>1. k \in 1..(m - 1) /\ k \in 1..(i - 1) /\ k <= Len(Z)
      BY <1>1, <1>2, <1>3, <1>4, <2>4
    <3>2. Z[k] = X[k] /\ Y[k] = X[k] /\ Above(Y[k], Z[k]) /\ X[k] \in Segment
      BY <1>1, <1>2, <1>3, <3>1
    <3> QED
      BY <3>2, AboveStrict
  <2>5. CASE k > i
    <3>1. i \in 1..(k - 1) /\ Z[i] = Y[i]
      BY <1>2, <1>3, <2>5
    <3>2. Y[i] = X[i]
      BY <1>3, <2>1, <2>5
    <3> QED
      BY <2>1, <3>1, <3>2, AboveStrict
  <2> QED
    BY <1>2, <1>3, <2>3, <2>4, <2>5
<1>5. i = m + 1 /\ i - 1 = m
  BY <1>2, <1>4
<1> QED
  BY <1>1, <1>2, <1>5

\* What is at the first, at the second or between them is at their place
LEMMA WithinRun ==
  ASSUME NEW X \in Seq(Segment), NEW Y \in Seq(Segment), NEW Z \in Seq(Segment),
         NEW m \in Nat \ {0}, Continues(X, Y, m), ~Less(Z, X), ~Less(Y, Z)
  PROVE  Within(X, Z, m)
<1>1. CASE Z = X
  BY <1>1 DEF Continues, Within
<1>2. CASE Z = Y
  BY <1>2 DEF Continues, Within
<1>3. CASE Less(X, Z) /\ Less(Z, Y)
  <2>1. Len(Z) > m /\ \A j \in 1..m : Z[j] = X[j]
    BY <1>3, BetweenRun
  <2> QED
    BY <2>1, LenProperties DEF Within
<1>4. Z = X \/ Less(X, Z)
  BY LessTotal
<1>5. Z = Y \/ Less(Z, Y)
  BY LessTotal
<1> QED
  BY <1>1, <1>2, <1>3, <1>4, <1>5

\* An index with another's segment at m has it from lower, which is at the same
\* place up to there; if that segment is the new one, higher ends before it
LEMMA LentPlace ==
  ASSUME NEW lo \in Seq(Segment), NEW hi \in Seq(Segment), NEW pid \in 1..MaxPid,
         NEW f \in Nat \ {0}, NEW Z, Ends(lo, hi, pid, f), Written(lo, pid, f, Z),
         NEW m \in Nat \ {0}, m <= f, Z[m][1] # pid
  PROVE  /\ m <= Len(lo) /\ \A j \in 1..(m - 1) : lo[j] = Z[j]
         /\ lo[m][1] = Z[m][1]
         /\ m < f => lo[m] = Z[m]
         /\ m = f => Len(hi) < m
<1>1. Len(lo) \in Nat /\ Len(hi) \in Nat
  BY LenProperties
<1>2. Z[m] = Lower(lo, m, pid) \/ (m = f /\ Z[m] = Successor(Lower(lo, m, pid)))
  BY DEF Written
<1>3. Lower(lo, m, pid)[1] = Z[m][1]
  BY <1>2 DEF Successor
<1>4. m <= Len(lo)
  BY <1>1, <1>3 DEF Lower
<1>5. lo[m][1] = Z[m][1] /\ Lower(lo, m, pid) = lo[m]
  BY <1>3, <1>4 DEF Lower
<1>6. ASSUME NEW j \in 1..(m - 1) PROVE lo[j] = Z[j]
  <2>1. j \in 1..(f - 1) /\ j <= Len(lo)
    BY <1>1, <1>4
  <2> QED
    BY <2>1 DEF Written, Lower
<1>7. m < f => lo[m] = Z[m]
  BY <1>5 DEF Written
<1>8. ASSUME m = f PROVE Len(hi) < m
  <2>1. Diffs(lo, hi, pid, m)
    BY <1>8 DEF Ends
  <2>2. ~(m <= Len(hi))
    BY <1>4, <1>5, <2>1 DEF Diffs
  <2> QED
    BY <1>1, <2>2
<1> QED
  BY <1>4, <1>5, <1>6, <1>7, <1>8

\* Runs of inserts do not interleave nor share indices, for any peers, any width
\* of a seq and any order of delivery: an index at one of the run's places has the
\* segments of the run from the item it was put after
THEOREM ReplicasRunsStayApart == Spec => []RunsDoNotInterleave
<1>1. Typed /\ Stamps /\ Born => RunsDoNotInterleave
  <2> SUFFICES ASSUME Typed, Stamps, Born,
                      NEW x \in Inserts, NEW y \in Inserts, NEW z \in Inserts,
                      x.pid = y.pid, y.lo = x.index, y.hi = x.hi, z.pid # x.pid,
                      x.index[Len(x.index)][1] = x.pid,
                      ~Less(z.index, x.index), ~Less(y.index, z.index)
               PROVE  /\ SamePlace(z.lo, x.index)
                      /\ Less(z.lo, x.index) => Len(z.hi) < Len(x.index)
    BY DEF RunsDoNotInterleave
  <2>1. PICK m \in Nat \ {0} : Ends(x.lo, x.hi, x.pid, m) /\ Written(x.lo, x.pid, m, x.index)
    BY InsertFacts
  <2>2. PICK e \in Nat \ {0} : Ends(x.index, x.hi, x.pid, e) /\ Written(x.index, x.pid, e, y.index)
    BY InsertFacts
  <2>3. PICK f \in Nat \ {0} : Ends(z.lo, z.hi, z.pid, f) /\ Written(z.lo, z.pid, f, z.index)
    BY InsertFacts
  <2>4. /\ x.lo \in Seq(Segment) /\ x.hi \in Seq(Segment) /\ x.pid \in 1..MaxPid
        /\ z.lo \in Seq(Segment) /\ z.hi \in Seq(Segment) /\ z.pid \in 1..MaxPid
    BY InsertFacts
  <2> DEFINE X == x.index
             Y == y.index
             Z == z.index
             lo == x.lo
             hi == x.hi
             pid == x.pid
             zlo == z.lo
             zhi == z.hi
             zpid == z.pid
  <2>5. /\ lo \in Seq(Segment) /\ hi \in Seq(Segment) /\ pid \in 1..MaxPid
        /\ zlo \in Seq(Segment) /\ zhi \in Seq(Segment) /\ zpid \in 1..MaxPid
        /\ Ends(lo, hi, pid, m) /\ Written(lo, pid, m, X)
        /\ Ends(X, hi, pid, e) /\ Written(X, pid, e, Y)
        /\ Ends(zlo, zhi, zpid, f) /\ Written(zlo, zpid, f, Z)
        /\ X[Len(X)][1] = pid /\ zpid # pid /\ ~Less(Z, X) /\ ~Less(Y, Z)
    BY <2>1, <2>2, <2>3, <2>4
  <2>6. SUFFICES SamePlace(zlo, X) /\ (Less(zlo, X) => Len(zhi) < Len(X))
    OBVIOUS
  <2> HIDE DEF X, Y, Z, lo, hi, pid, zlo, zhi, zpid
  <2>7. /\ X \in Seq(Segment) /\ Len(X) = m /\ Y \in Seq(Segment) /\ Len(Y) = e
        /\ Z \in Seq(Segment) /\ Len(Z) = f
    BY <2>5 DEF Written
  <2>8. Continues(X, Y, m)
    BY <2>5, RunContinues
  <2>9. Within(X, Z, m)
    BY <2>5, <2>7, <2>8, WithinRun
  <2>10. m <= f /\ Z[m][1] # zpid
    BY <2>5, <2>7, <2>9 DEF Within
  <2>11. /\ m <= Len(zlo) /\ \A j \in 1..(m - 1) : zlo[j] = Z[j]
         /\ zlo[m][1] = Z[m][1] /\ (m < f => zlo[m] = Z[m]) /\ (m = f => Len(zhi) < m)
    <3>1. zlo \in Seq(Segment) /\ zhi \in Seq(Segment) /\ zpid \in 1..MaxPid
      BY <2>5
    <3>2. Ends(zlo, zhi, zpid, f) /\ Written(zlo, zpid, f, Z)
      BY <2>5
    <3> QED
      BY <3>1, <3>2, <2>10, LentPlace
  <2>12. SamePlace(zlo, X)
    BY <2>7, <2>9, <2>11, <2>5, LenProperties DEF SamePlace, Within
  <2>13. ASSUME m < f PROVE ~Less(zlo, X)
    <3> SUFFICES ASSUME Less(zlo, X) PROVE FALSE
      OBVIOUS
    <3>1. \A j \in 1..m : zlo[j] = X[j]
      BY <2>7, <2>9, <2>11, <2>13 DEF Within
    <3>2. PICK i \in 1..m : i <= Len(zlo) => Above(X[i], zlo[i])
      BY <2>7, LessAt
    <3>3. X[i] \in Segment /\ i <= Len(zlo)
      BY <2>5, <2>7, <2>11, <3>2, ElementOfSeq, LenProperties
    <3> QED
      BY <3>1, <3>2, <3>3, AboveStrict
  <2> QED
    BY <2>7, <2>10, <2>11, <2>12, <2>13
<1> QED
  BY <1>1, ReplicasBorn, PTL

\* Peers share an index only where one of them appends at another's place, for
\* any peers, any width of a seq and any order of delivery
THEOREM ReplicasIndicesCollideOnlyAtTheEnd == Spec => []IndicesCollideOnlyAtTheEnd
<1>1. Typed /\ Stamps /\ Born => IndicesCollideOnlyAtTheEnd
  <2>1. ASSUME Typed, Stamps, Born, NEW w \in Inserts, w.index[Len(w.index)][1] # w.pid
        PROVE  SamePlace(w.lo, w.index) /\ Len(w.hi) < Len(w.index)
    <3>1. PICK f \in Nat \ {0} : Ends(w.lo, w.hi, w.pid, f) /\ Written(w.lo, w.pid, f, w.index)
      BY <2>1, InsertFacts
    <3>2. w.lo \in Seq(Segment) /\ w.hi \in Seq(Segment) /\ w.pid \in 1..MaxPid
      BY <2>1, InsertFacts
    <3>3. Len(w.index) = f
      BY <3>1 DEF Written
    <3>4. /\ f <= Len(w.lo) /\ \A j \in 1..(f - 1) : w.lo[j] = w.index[j]
          /\ w.lo[f][1] = w.index[f][1] /\ Len(w.hi) < f
      BY <2>1, <3>1, <3>2, <3>3, LentPlace
    <3> QED
      BY <3>3, <3>4 DEF SamePlace
  <2>2. ASSUME NEW x \in Inserts, NEW z \in Inserts, x.pid # z.pid, x.index = z.index
        PROVE  \E w \in {x, z} : w.index[Len(w.index)][1] # w.pid
    BY <2>2
  <2> QED
    BY <2>1, <2>2 DEF IndicesCollideOnlyAtTheEnd
<1> QED
  BY <1>1, ReplicasBorn, PTL

=============================================================================
