----------------------------- MODULE PathProofs -----------------------------
(* What the bytes of variable integers, indices and paths are, in which    *)
(* order they sort and how they are read back.                             *)
EXTENDS Path, SequenceTheorems, WellFoundedInduction, TLAPS

-----------------------------------------------------------------------------
(* Recursive functions *)

\* A set of natural numbers that is not empty has a least member
LEMMA Least ==
  ASSUME NEW S \in SUBSET Nat, S # {}
  PROVE  \E n \in S : \A m \in S : n <= m
<1>1. PICK n \in S : \A m \in S : ~(<<m, n>> \in OpToRel(<, Nat))
  BY WFMin, NatLessThanWellFounded
<1>2. \A m \in S : ~(m < n)
  BY <1>1 DEF OpToRel
<1> QED
  BY <1>2

\* The equation of a function that calls itself once, on next[x]
Calls(f, x, next, Stop, base, comb) ==
  IF x \in Stop THEN base[x] ELSE comb[<<x, f[next[x]]>>]

\* A rank drops with every such call
Descends(D, V, rank, next, Stop, base, comb) ==
  /\ rank \in [D -> Nat] /\ next \in [D -> D]
  /\ base \in [D -> V] /\ comb \in [D \X V -> V]
  /\ \A x \in D : x \notin Stop => rank[next[x]] < rank[x]

Solves(f, D, V, next, Stop, base, comb) ==
  f \in [D -> V] /\ \A x \in D : f[x] = Calls(f, x, next, Stop, base, comb)

\* Then the equation has a solution
LEMMA Recursion ==
  ASSUME NEW D, NEW V, NEW rank, NEW next, NEW Stop, NEW base, NEW comb,
         Descends(D, V, rank, next, Stop, base, comb)
  PROVE  \E f : Solves(f, D, V, next, Stop, base, comb)
<1> USE DEF Descends
<1> DEFINE Level(n) == {x \in D : rank[x] < n}
           Step(g, x) == Calls(g, x, next, Stop, base, comb)
           Part(g, n) == g \in [Level(n) -> V] /\ \A x \in Level(n) : g[x] = Step(g, x)
<1>0. \A x \in D : rank[x] \in Nat /\ next[x] \in D
  OBVIOUS
<1>1. ASSUME NEW n \in Nat, NEW m \in Nat, n <= m, NEW g, NEW h, Part(g, m), Part(h, n)
      PROVE  \A x \in Level(n) : g[x] = h[x]
  <2> DEFINE Wrong == {k \in Nat : \E x \in Level(n) : rank[x] = k /\ g[x] # h[x]}
  <2>1. SUFFICES ASSUME Wrong # {} PROVE FALSE
    BY <1>0
  <2>2. PICK k \in Wrong : \A j \in Wrong : k <= j
    <3>1. Wrong \in SUBSET Nat
      OBVIOUS
    <3> HIDE DEF Wrong
    <3> QED
      BY <2>1, <3>1, Least
  <2>3. PICK x \in Level(n) : rank[x] = k /\ g[x] # h[x]
    BY <2>2
  <2>4. g[x] = Step(g, x) /\ h[x] = Step(h, x)
    <3>1. x \in Level(m)
      BY <1>0, <1>1
    <3> QED
      BY <1>1, <3>1
  <2>5. x \notin Stop
    BY <2>3, <2>4 DEF Calls
  <2>6. next[x] \in Level(n) /\ rank[next[x]] < k /\ rank[next[x]] \in Nat
    BY <1>0, <2>3, <2>5
  <2>7. rank[next[x]] \notin Wrong
    BY <2>2, <2>6
  <2>8. g[next[x]] = h[next[x]]
    BY <2>6, <2>7
  <2> QED
    BY <2>3, <2>4, <2>8 DEF Calls
<1>2. ASSUME NEW n \in Nat PROVE \E g : Part(g, n)
  <2> DEFINE Wrong == {k \in Nat : ~\E g : Part(g, k)}
  <2>1. SUFFICES ASSUME Wrong # {} PROVE FALSE
    OBVIOUS
  <2>2. PICK k \in Wrong : \A j \in Wrong : k <= j
    <3>1. Wrong \in SUBSET Nat
      OBVIOUS
    <3> HIDE DEF Wrong
    <3> QED
      BY <2>1, <3>1, Least
  <2>3. k \in Nat /\ ~\E g : Part(g, k)
    OBVIOUS
  <2>4. CASE k = 0
    <3>1. Level(0) = {}
      BY <1>0
    <3> HIDE DEF Level
    <3>2. Part([x \in {} |-> 0], 0)
      BY <3>1
    <3> QED
      BY <2>3, <2>4, <3>2
  <2>5. CASE k # 0
    <3>1. k - 1 \in Nat /\ k - 1 \notin Wrong
      <4> HIDE DEF Wrong
      <4>1. k - 1 \in Nat /\ ~(k <= k - 1)
        BY <2>3, <2>5
      <4> QED
        BY <2>2, <4>1
    <3>2. PICK g : Part(g, k - 1)
      BY <3>1
    <3> DEFINE h == [x \in Level(k) |-> Step(g, x)]
    <3>3. \A x \in Level(k) : x \notin Stop => next[x] \in Level(k - 1)
      BY <1>0, <2>3
    <3>4. \A x \in Level(k - 1) : x \in Level(k)
      BY <1>0, <2>3
    <3>5. \A x \in Level(k) : Step(g, x) \in V
      <4>1. ASSUME NEW x \in Level(k), x \notin Stop PROVE comb[<<x, g[next[x]]>>] \in V
        <5>1. g[next[x]] \in V
          BY <3>2, <3>3, <4>1
        <5> QED
          BY <5>1
      <4> QED
        BY <4>1 DEF Calls
    <3>6. h \in [Level(k) -> V]
      BY <3>5
    <3>7. \A x \in Level(k) : x \notin Stop => h[next[x]] = g[next[x]]
      <4>1. \A x \in Level(k - 1) : h[x] = g[x]
        <5>1. \A x \in Level(k - 1) : g[x] = Step(g, x)
          BY <3>2
        <5> HIDE DEF Step, Level
        <5> QED
          BY <3>4, <5>1
      <4> HIDE DEF h, Level
      <4> QED
        BY <3>3, <4>1
    <3>8. \A x \in Level(k) : h[x] = Step(h, x)
      <4>1. \A x \in Level(k) : h[x] = Step(g, x)
        OBVIOUS
      <4> HIDE DEF h, Level
      <4> QED
        BY <3>7, <4>1 DEF Calls
    <3> HIDE DEF h
    <3>9. Part(h, k)
      BY <3>6, <3>8
    <3> QED
      BY <2>3, <3>9
  <2> QED
    BY <2>4, <2>5
<1> DEFINE G(n) == CHOOSE g : Part(g, n)
           F == [x \in D |-> G(rank[x] + 1)[x]]
<1>3. \A n \in Nat : Part(G(n), n)
  BY <1>2
<1> HIDE DEF G
<1>4. \A x \in D : rank[x] + 1 \in Nat /\ x \in Level(rank[x] + 1)
  BY <1>0
<1>5. F \in [D -> V]
  BY <1>3, <1>4
<1>6. ASSUME NEW x \in D PROVE F[x] = Step(F, x)
  <2>1. F[x] = Step(G(rank[x] + 1), x)
    BY <1>3, <1>4
  <2>2. CASE x \in Stop
    BY <2>1, <2>2 DEF Calls
  <2>3. CASE x \notin Stop
    <3> DEFINE y == next[x]
    <3>1. y \in D /\ rank[y] + 1 <= rank[x] + 1 /\ y \in Level(rank[y] + 1)
      BY <1>0, <2>3
    <3> HIDE DEF y
    <3>2. G(rank[x] + 1)[y] = G(rank[y] + 1)[y]
      <4> DEFINE n == rank[y] + 1
                 m == rank[x] + 1
      <4>1. n \in Nat /\ m \in Nat /\ n <= m /\ y \in Level(n)
        BY <1>4, <3>1
      <4>2. Part(G(m), m) /\ Part(G(n), n)
        BY <1>3, <4>1
      <4> HIDE DEF n, m, Part, Level
      <4>3. \A z \in Level(n) : G(m)[z] = G(n)[z]
        BY <1>1, <4>1, <4>2
      <4> QED
        BY <4>1, <4>3 DEF n, m
    <3>3. F[y] = G(rank[x] + 1)[y]
      BY <3>1, <3>2
    <3> QED
      BY <2>1, <3>3 DEF Calls, y
  <2> QED
    BY <2>2, <2>3
<1> HIDE DEF F
<1> QED
  BY <1>5, <1>6 DEF Solves

-----------------------------------------------------------------------------
(* Sequences *)

\* A sequence of members of another set
LEMMA Retyped ==
  ASSUME NEW S, NEW T, NEW s \in Seq(T), \A i \in 1..Len(s) : s[i] \in S
  PROVE  s \in Seq(S)
<1>1. Len(s) \in Nat /\ DOMAIN s = 1..Len(s) /\ s \in [1..Len(s) -> T]
  BY LenProperties
<1>2. s \in [1..Len(s) -> S]
  BY <1>1
<1> QED
  BY <1>1, <1>2, SeqDef

\* The end of a sequence
LEMMA FromFacts ==
  ASSUME NEW S, NEW s \in Seq(S), NEW i \in 1..(Len(s) + 1)
  PROVE  /\ From(s, i) \in Seq(S) /\ Len(From(s, i)) = Len(s) - i + 1
         /\ Len(From(s, i)) \in Nat
         /\ \A j \in 1..(Len(s) - i + 1) : From(s, i)[j] = s[i + j - 1]
<1> DEFINE n == Len(s)
<1>1. n \in Nat /\ i \in Int /\ n \in Int
  BY LenProperties
<1>2. \A j \in i..n : s[j] \in S
  BY <1>1, ElementOfSeq
<1>3. /\ SubSeq(s, i, n) \in Seq(S) /\ Len(SubSeq(s, i, n)) = IF i <= n THEN n - i + 1 ELSE 0
      /\ \A j \in 1..(n - i + 1) : SubSeq(s, i, n)[j] = s[i + j - 1]
  BY <1>1, <1>2, SubSeqProperties
<1> HIDE DEF n
<1>4. (IF i <= n THEN n - i + 1 ELSE 0) = n - i + 1 /\ n - i + 1 \in Nat
  BY <1>1 DEF n
<1> QED
  BY <1>3, <1>4 DEF From, n

\* A function on 1..(n + m) in two halves
LEMMA Halves ==
  ASSUME NEW n \in Nat, NEW m \in Nat, NEW c, NEW s, NEW t,
         \A i \in 1..(n + m) : c[i] = IF i <= n THEN s[i] ELSE t[i - n]
  PROVE  (\A i \in 1..n : c[i] = s[i]) /\ (\A i \in 1..m : c[n + i] = t[i])
<1>1. ASSUME NEW i \in 1..n PROVE c[i] = s[i]
  OBVIOUS
<1>2. ASSUME NEW i \in 1..m PROVE c[n + i] = t[i]
  <2>1. n + i \in 1..(n + m) /\ ~(n + i <= n) /\ n + i - n = i
    OBVIOUS
  <2>2. c[n + i] = t[n + i - n]
    BY <2>1
  <2> QED
    BY <2>1, <2>2
<1> QED
  BY <1>1, <1>2

\* Concatenation, element by element
LEMMA ConcatFacts ==
  ASSUME NEW S, NEW s \in Seq(S), NEW t \in Seq(S), NEW c, c = s \o t
  PROVE  /\ c \in Seq(S) /\ Len(c) = Len(s) + Len(t)
         /\ Len(s) \in Nat /\ Len(t) \in Nat
         /\ \A i \in 1..Len(s) : c[i] = s[i]
         /\ \A i \in 1..Len(t) : c[Len(s) + i] = t[i]
<1>1. Len(s) \in Nat /\ Len(t) \in Nat
  BY LenProperties
<1>2. /\ c \in Seq(S) /\ Len(c) = Len(s) + Len(t)
      /\ \A i \in 1..(Len(s) + Len(t)) : c[i] = IF i <= Len(s) THEN s[i] ELSE t[i - Len(s)]
  BY ConcatProperties
<1> QED
  BY <1>1, <1>2, Halves

\* The end of a concatenation
LEMMA FromConcat ==
  ASSUME NEW S, NEW s \in Seq(S), NEW t \in Seq(S), NEW i \in 1..(Len(s) + 1)
  PROVE  From(s \o t, i) = From(s, i) \o t
<1> DEFINE n == Len(s)
           m == Len(t)
           e == From(s, i)
           c == s \o t
           a == From(c, i)
           b == e \o t
<1>1. /\ c \in Seq(S) /\ Len(c) = n + m /\ n \in Nat /\ m \in Nat
      /\ \A j \in 1..n : c[j] = s[j]
      /\ \A j \in 1..m : c[n + j] = t[j]
  BY ConcatFacts
<1>2. /\ e \in Seq(S) /\ Len(e) = n - i + 1 /\ n - i + 1 \in Nat
      /\ \A j \in 1..(n - i + 1) : e[j] = s[i + j - 1]
  BY FromFacts
<1> HIDE DEF c, e
<1>3. /\ b \in Seq(S) /\ Len(b) = Len(e) + m
      /\ \A j \in 1..Len(e) : b[j] = e[j]
      /\ \A j \in 1..m : b[Len(e) + j] = t[j]
  <2>1. b = e \o t
    OBVIOUS
  <2>2. e \in Seq(S)
    BY <1>2
  <2> HIDE DEF b, n
  <2> QED
    BY <2>1, <2>2, ConcatFacts
<1> HIDE DEF b
<1>4. i \in 1..(Len(c) + 1) /\ i \in 1..(n + 1)
  BY <1>1
<1>5. /\ a \in Seq(S) /\ Len(a) = Len(c) - i + 1
      /\ \A j \in 1..(Len(c) - i + 1) : a[j] = c[i + j - 1]
  BY <1>1, <1>4, FromFacts
<1> HIDE DEF n, m, a
<1>6. Len(a) = n + m - i + 1 /\ Len(b) = n + m - i + 1
  BY <1>1, <1>2, <1>3, <1>4, <1>5
<1>7. ASSUME NEW j \in 1..(n + m - i + 1) PROVE a[j] = b[j]
  <2>0. a[j] = c[i + j - 1]
    BY <1>1, <1>5
  <2>1. CASE j <= n - i + 1
    <3>1. j \in 1..(n - i + 1) /\ i + j - 1 \in 1..n
      BY <1>1, <1>4, <2>1
    <3>2. c[i + j - 1] = s[i + j - 1] /\ e[j] = s[i + j - 1] /\ b[j] = e[j]
      BY <1>1, <1>2, <1>3, <3>1
    <3> QED
      BY <2>0, <3>2
  <2>2. CASE ~(j <= n - i + 1)
    <3> DEFINE l == j - (n - i + 1)
    <3>1. l \in 1..m /\ i + j - 1 = n + l /\ j = n - i + 1 + l
      BY <1>1, <1>4, <2>2
    <3> HIDE DEF l
    <3>2. c[n + l] = t[l] /\ b[n - i + 1 + l] = t[l]
      BY <1>1, <1>2, <1>3, <3>1
    <3> QED
      BY <2>0, <3>1, <3>2
  <2> QED
    BY <2>1, <2>2
<1>8. a = b
  BY <1>3, <1>5, <1>6, <1>7, SeqEqual
<1> QED
  BY <1>8 DEF a, b, c, e

\* A concatenation taken apart
LEMMA ConcatParts ==
  ASSUME NEW S, NEW s \in Seq(S), NEW t \in Seq(S)
  PROVE  From(s \o t, Len(s) + 1) = t /\ SubSeq(s \o t, 1, Len(s)) = s
<1> DEFINE n == Len(s)
<1>1. n \in Nat
  BY LenProperties
<1>2. From(s \o t, n + 1) = From(s, n + 1) \o t
  <2>1. n + 1 \in 1..(n + 1)
    BY <1>1
  <2> QED
    BY <2>1, FromConcat
<1>3. From(s, n + 1) = <<>>
  <2>1. n + 1 \in Int /\ n \in Int /\ n < n + 1
    BY <1>1
  <2> QED
    BY <2>1, SubSeqEmpty DEF From
<1>4. <<>> \o t = t
  BY ConcatEmptySeq
<1>5. SubSeq(s \o t, 1, n) = s
  <2>1. CASE n = 0
    <3>1. s = <<>> /\ SubSeq(s \o t, 1, n) = <<>>
      BY <2>1, EmptySeq, SubSeqEmpty
    <3> QED
      BY <3>1
  <2>2. CASE n # 0
    <3>1. 1 \in 1..n /\ n \in 1..n
      BY <1>1, <2>2
    <3> QED
      BY <3>1, SubSeqOfConcat1, SubSeqFull
  <2> QED
    BY <2>1, <2>2
<1> QED
  BY <1>2, <1>3, <1>4, <1>5

\* Concatenation of byte strings
LEMMA Joined ==
  ASSUME NEW a \in ByteString, NEW b \in ByteString, NEW c \in ByteString
  PROVE  (a \o b) \o c = a \o (b \o c) /\ a \o b \in ByteString /\ b \o c \in ByteString
<1>1. (a \o b) \o c = a \o (b \o c)
  BY ConcatAssociative DEF ByteString
<1>2. a \o b \in ByteString /\ b \o c \in ByteString
  BY ConcatProperties DEF ByteString
<1> QED
  BY <1>1, <1>2

\* The same for three strings among many
Joining(a, b, c) ==
  (a \o b) \o c = a \o (b \o c) /\ a \o b \in ByteString /\ b \o c \in ByteString

\* Any three
LEMMA Joins == \A a, b, c \in ByteString : Joining(a, b, c)
BY Joined DEF Joining

\* The last element and what is before it
LEMMA FrontAppend ==
  ASSUME NEW S, NEW s \in Seq(S), NEW x \in S
  PROVE  Front(Append(s, x)) = s /\ Last(Append(s, x)) = x
<1> DEFINE n == Len(s)
           l == Append(s, x)
<1>1. n \in Nat
  BY LenProperties
<1>2. Len(l) = n + 1 /\ l[n + 1] = x /\ l = s \o <<x>>
  BY AppendProperties, AppendIsConcat
<1>3. Len(l) - 1 = n
  BY <1>1, <1>2
<1>4. SubSeq(s \o <<x>>, 1, n) = s
  <2>1. <<x>> \in Seq(S)
    OBVIOUS
  <2> QED
    BY <2>1, ConcatParts
<1> HIDE DEF n, l
<1> QED
  BY <1>2, <1>3, <1>4 DEF Front, Last, l

-----------------------------------------------------------------------------
(* Variable integers *)

\* The last byte of a number and what is before it
LEMMA Digits ==
  ASSUME NEW n \in Nat
  PROVE  /\ n % 256 \in 0..255 /\ n \div 256 \in Nat
         /\ n # 0 => n \div 256 < n
         /\ n = 256 * (n \div 256) + (n % 256)
<1>1. n % 256 \in 0..255 /\ n \div 256 \in Nat /\ (n # 0 => n \div 256 < n)
  OBVIOUS
<1>2. n = 256 * (n \div 256) + (n % 256)
  OBVIOUS
<1> QED
  BY <1>1, <1>2

\* The definition of Significant is satisfied
LEMMA SignificantStep ==
  ASSUME NEW n \in Nat
  PROVE  Significant[n] = IF n = 0 THEN <<>> ELSE Append(Significant[n \div 256], n % 256)
<1> DEFINE rank == [m \in Nat |-> m]
           next == [m \in Nat |-> m \div 256]
           stop == {0}
           base == [m \in Nat |-> <<>>]
           comb == [p \in Nat \X ByteString |-> Append(p[2], p[1] % 256)]
<1>1. rank \in [Nat -> Nat] /\ next \in [Nat -> Nat]
  BY Digits
<1>2. base \in [Nat -> ByteString]
  BY EmptySeq DEF ByteString
<1>3. comb \in [Nat \X ByteString -> ByteString]
  <2>1. ASSUME NEW p \in Nat \X ByteString PROVE Append(p[2], p[1] % 256) \in ByteString
    <3>1. p[1] \in Nat /\ p[2] \in Seq(0..255)
      BY DEF ByteString
    <3>2. p[1] % 256 \in 0..255
      BY <3>1, Digits
    <3> QED
      BY <3>1, <3>2, AppendProperties DEF ByteString
  <2> QED
    BY <2>1
<1>4. \A m \in Nat : m \notin stop => rank[next[m]] < rank[m]
  BY Digits
<1>5. PICK f : Solves(f, Nat, ByteString, next, stop, base, comb)
  <2>1. Descends(Nat, ByteString, rank, next, stop, base, comb)
    BY <1>1, <1>2, <1>3, <1>4 DEF Descends
  <2> HIDE DEF rank, next, base, comb, stop
  <2> QED
    BY <2>1, Recursion
<1>6. ASSUME NEW m \in Nat
      PROVE  f[m] = IF m = 0 THEN <<>> ELSE Append(f[m \div 256], m % 256)
  <2>1. m \div 256 \in Nat
    BY Digits
  <2>2. comb[<<m, f[m \div 256]>>] = Append(f[m \div 256], m % 256)
    BY <1>5, <2>1 DEF Solves
  <2>3. f[m] = Calls(f, m, next, stop, base, comb) /\ next[m] = m \div 256 /\ base[m] = <<>>
    BY <1>5 DEF Solves
  <2> HIDE DEF comb, next, base
  <2> QED
    BY <2>2, <2>3 DEF Calls
<1>7. f = [m \in Nat |-> IF m = 0 THEN <<>> ELSE Append(f[m \div 256], m % 256)]
  BY <1>5, <1>6 DEF Solves
<1>8. Significant = [m \in Nat |-> IF m = 0 THEN <<>> ELSE Append(Significant[m \div 256], m % 256)]
  BY <1>7, ZenonT(40) DEF Significant
<1> QED
  BY <1>8, Zenon

\* Significant bytes are bytes
LEMMA SignificantType ==
  ASSUME NEW n \in Nat
  PROVE  Significant[n] \in ByteString
<1> DEFINE Wrong == {m \in Nat : Significant[m] \notin ByteString}
<1>1. SUFFICES ASSUME Wrong # {} PROVE FALSE
  OBVIOUS
<1>2. PICK m \in Wrong : \A j \in Wrong : m <= j
  <2>1. Wrong \in SUBSET Nat
    OBVIOUS
  <2> HIDE DEF Wrong
  <2> QED
    BY <1>1, <2>1, Least
<1>3. m \in Nat /\ Significant[m] \notin ByteString
  OBVIOUS
<1>4. m # 0
  <2>1. <<>> \in ByteString
    BY DEF ByteString
  <2> QED
    BY <1>3, <2>1, SignificantStep
<1>5. m \div 256 \in Nat /\ m \div 256 < m /\ m % 256 \in 0..255
  BY <1>3, <1>4, Digits
<1>6. Significant[m \div 256] \in ByteString
  BY <1>2, <1>3, <1>5
<1>7. Append(Significant[m \div 256], m % 256) \in ByteString
  BY <1>5, <1>6, AppendProperties DEF ByteString
<1> QED
  BY <1>3, <1>4, <1>7, SignificantStep

\* VarInt::write writes bytes, the first of which says how many follow
LEMMA WriteType ==
  ASSUME NEW n \in Nat, NEW size \in 0..255, Fits(n, size)
  PROVE  /\ write(n) \in ByteString /\ Len(write(n)) = 1 + Len(Significant[n])
         /\ write(n)[1] = Len(Significant[n]) /\ Len(Significant[n]) \in 0..size
<1> DEFINE d == Significant[n]
           len == Len(d)
<1>1. d \in Seq(0..255)
  BY SignificantType DEF ByteString
<1>2. len \in 0..size /\ len \in 0..255
  <2>1. len \in Nat
    BY <1>1, LenProperties
  <2>2. len <= size
    BY DEF Fits
  <2> HIDE DEF len
  <2> QED
    BY <2>1, <2>2
<1>3. <<len>> \in Seq(0..255) /\ Len(<<len>>) = 1 /\ <<len>>[1] = len
  BY <1>2
<1>4. write(n) = <<len>> \o d
  BY DEF write
<1> HIDE DEF d, len
<1>5. /\ write(n) \in Seq(0..255) /\ Len(write(n)) = 1 + Len(d) /\ write(n)[1] = len
  <2>1. 1 \in 1..1
    OBVIOUS
  <2> QED
    BY <1>1, <1>3, <1>4, <2>1, ConcatFacts
<1> QED
  BY <1>2, <1>5 DEF ByteString, len, d

\* The definition of Value is satisfied
LEMMA ValueStep ==
  ASSUME NEW bytes \in ByteString
  PROVE  Value[bytes] = IF bytes = <<>> THEN 0 ELSE 256 * Value[Front(bytes)] + Last(bytes)
<1> DEFINE rank == [b \in ByteString |-> Len(b)]
           next == [b \in ByteString |-> IF b = <<>> THEN b ELSE Front(b)]
           stop == {<<>>}
           base == [b \in ByteString |-> 0]
           comb == [p \in ByteString \X Nat |-> IF p[1] = <<>> THEN 0 ELSE 256 * p[2] + Last(p[1])]
<1>1. ASSUME NEW b \in ByteString, b # <<>>
      PROVE  Front(b) \in ByteString /\ Len(Front(b)) < Len(b) /\ Last(b) \in Nat
  <2>1. PICK s \in Seq(0..255), x \in 0..255 : b = Append(s, x)
    BY <1>1, SequenceEmptyOrAppend DEF ByteString
  <2>2. Front(b) = s /\ Last(b) = x
    <3>1. Front(Append(s, x)) = s /\ Last(Append(s, x)) = x
      BY FrontAppend, ZenonT(40)
    <3> QED
      BY <2>1, <3>1, Zenon
  <2>3. Len(b) = Len(s) + 1 /\ Len(s) \in Nat
    BY <2>1, AppendProperties, LenProperties
  <2> QED
    BY <2>2, <2>3 DEF ByteString
<1>2. rank \in [ByteString -> Nat] /\ next \in [ByteString -> ByteString]
  BY <1>1, LenProperties DEF ByteString
<1>3. base \in [ByteString -> Nat] /\ comb \in [ByteString \X Nat -> Nat]
  <2>1. ASSUME NEW p \in ByteString \X Nat
        PROVE  (IF p[1] = <<>> THEN 0 ELSE 256 * p[2] + Last(p[1])) \in Nat
    <3>1. p[1] \in ByteString /\ p[2] \in Nat
      OBVIOUS
    <3>2. ASSUME p[1] # <<>> PROVE 256 * p[2] + Last(p[1]) \in Nat
      <4>1. Last(p[1]) \in Nat
        BY <1>1, <3>1, <3>2
      <4> QED
        BY <3>1, <4>1
    <3> QED
      BY <3>2
  <2> QED
    BY <2>1
<1>4. \A b \in ByteString : b \notin stop => rank[next[b]] < rank[b]
  BY <1>1
<1>5. PICK f : Solves(f, ByteString, Nat, next, stop, base, comb)
  <2>1. Descends(ByteString, Nat, rank, next, stop, base, comb)
    BY <1>2, <1>3, <1>4 DEF Descends
  <2> HIDE DEF rank, next, base, comb, stop
  <2> QED
    BY <2>1, Recursion
<1>6. ASSUME NEW b \in ByteString
      PROVE  f[b] = IF b = <<>> THEN 0 ELSE 256 * f[Front(b)] + Last(b)
  <2>1. CASE b = <<>>
    BY <1>5, <2>1 DEF Calls, Solves
  <2>2. CASE b # <<>>
    <3>1. next[b] = Front(b) /\ f[Front(b)] \in Nat
      BY <1>1, <1>5, <2>2 DEF Solves
    <3>2. comb[<<b, f[Front(b)]>>] = 256 * f[Front(b)] + Last(b)
      BY <2>2, <3>1
    <3>3. b \notin stop
      BY <2>2
    <3> HIDE DEF next, stop, base, comb
    <3>4. f[b] = Calls(f, b, next, stop, base, comb)
      BY <1>5, Zenon DEF Solves
    <3>5. f[b] = comb[<<b, f[next[b]]>>]
      BY <3>3, <3>4, Zenon DEF Calls
    <3>6. f[b] = 256 * f[Front(b)] + Last(b)
      BY <3>1, <3>2, <3>5, Zenon
    <3> QED
      BY <2>2, <3>6, Zenon
  <2> QED
    BY <2>1, <2>2
<1>7. f = [b \in ByteString |-> IF b = <<>> THEN 0 ELSE 256 * f[Front(b)] + Last(b)]
  BY <1>5, <1>6 DEF Solves
<1>8. Value = [b \in ByteString |-> IF b = <<>> THEN 0 ELSE 256 * Value[Front(b)] + Last(b)]
  BY <1>7, Zenon DEF Value
<1> QED
  BY <1>8, Zenon

\* What one byte adds
LEMMA ValueAppend ==
  ASSUME NEW bytes \in ByteString, NEW x \in 0..255
  PROVE  Value[Append(bytes, x)] = 256 * Value[bytes] + x
<1>1. <<>> \in ByteString /\ Append(bytes, x) \in ByteString /\ Append(bytes, x) # <<>>
  BY EmptySeq, AppendProperties DEF ByteString
<1>2. Front(Append(bytes, x)) = bytes /\ Last(Append(bytes, x)) = x
  BY FrontAppend DEF ByteString
<1>3. Value[Append(bytes, x)] = 256 * Value[Front(Append(bytes, x))] + Last(Append(bytes, x))
  BY <1>1, ValueStep, Zenon
<1> QED
  BY <1>2, <1>3, Zenon

\* The same for all strings and bytes
Shifts(bytes, x) == Value[Append(bytes, x)] = 256 * Value[bytes] + x

LEMMA ValueAdds == \A bytes \in ByteString, x \in 0..255 : Shifts(bytes, x)
<1> SUFFICES ASSUME NEW bytes \in ByteString, NEW x \in 0..255
             PROVE  Value[Append(bytes, x)] = 256 * Value[bytes] + x
  BY Zenon DEF Shifts
<1> QED
  BY ValueAppend

\* from_be_bytes is the inverse of to_be_bytes, whatever zero bytes are in front
LEMMA ValueOfSignificant ==
  ASSUME NEW n \in Nat, NEW zeros \in ByteString, Value[zeros] = 0
  PROVE  Value[zeros \o Significant[n]] = n
<1> DEFINE Wrong == {m \in Nat : Value[zeros \o Significant[m]] # m}
<1>1. SUFFICES ASSUME Wrong # {} PROVE FALSE
  OBVIOUS
<1>2. PICK m \in Wrong : \A j \in Wrong : m <= j
  <2>1. Wrong \in SUBSET Nat
    OBVIOUS
  <2> HIDE DEF Wrong
  <2> QED
    BY <1>1, <2>1, Least
<1>3. m \in Nat /\ Value[zeros \o Significant[m]] # m
  OBVIOUS
<1>4. m # 0
  <2>1. Significant[0] = <<>> /\ zeros \o <<>> = zeros
    <3>1. Significant[0] = <<>>
      BY SignificantStep
    <3>2. zeros \o <<>> = zeros
      <4>1. zeros \in Seq(0..255)
        BY Zenon DEF ByteString
      <4> QED
        BY <4>1, ConcatEmptySeq, Zenon
    <3> QED
      BY <3>1, <3>2
  <2> QED
    BY <1>3, <2>1
<1> DEFINE k == m \div 256
           x == m % 256
           d == Significant[k]
<1>5. k \in Nat /\ k < m /\ x \in 0..255 /\ m = 256 * k + x
  BY <1>3, <1>4, Digits
<1>6. Value[zeros \o d] = k
  BY <1>2, <1>3, <1>5
<1>7. Significant[m] = Append(d, x) /\ d \in ByteString
  <2>1. d \in ByteString
    BY <1>5, SignificantType
  <2>2. Significant[m] = IF m = 0 THEN <<>> ELSE Append(d, x)
    BY <1>3, SignificantStep, Zenon
  <2> HIDE DEF d, x
  <2> QED
    BY <1>4, <2>1, <2>2
<1> HIDE DEF k, x, d, Wrong
<1>8. zeros \o Append(d, x) = Append(zeros \o d, x)
  <2>1. /\ Append(d, x) = d \o <<x>> /\ <<x>> \in Seq(0..255) /\ zeros \o d \in Seq(0..255)
    BY <1>5, <1>7, AppendIsConcat, ConcatProperties DEF ByteString
  <2>2. zeros \o (d \o <<x>>) = (zeros \o d) \o <<x>>
    BY <1>7, <2>1, ConcatAssociative DEF ByteString
  <2>3. Append(zeros \o d, x) = (zeros \o d) \o <<x>>
    BY <1>5, <2>1, AppendIsConcat
  <2> QED
    BY <2>1, <2>2, <2>3
<1>9. zeros \o d \in ByteString
  BY <1>7, ConcatProperties DEF ByteString
<1>10. Value[Append(zeros \o d, x)] = 256 * k + x
  <2> DEFINE b == zeros \o d
  <2>1. b \in ByteString
    BY <1>9
  <2> HIDE DEF b
  <2>2. Value[Append(b, x)] = 256 * Value[b] + x
    <3>1. x \in 0..255
      BY <1>5
    <3>2. Shifts(b, x)
      BY <2>1, <3>1, ValueAdds, Zenon
    <3> QED
      BY <3>2, Zenon DEF Shifts
  <2> QED
    BY <1>6, <2>2, Zenon DEF b
<1> QED
  BY <1>3, <1>5, <1>7, <1>8, <1>10
-----------------------------------------------------------------------------
(* VarInt::read_from *)

\* Results of parsers
LEMMA Results ==
  /\ \A v, n : Some(v, n).status = "some" /\ Some(v, n).value = v /\ Some(v, n).n = n
  /\ Nothing.status = "none" /\ Nothing.n = 0 /\ Panic.status = "panic" /\ Panic.n = 0
  /\ Nothing \in [status : {"some", "none", "panic"}, value : {0}, n : Nat]
  /\ Panic \in [status : {"some", "none", "panic"}, value : {0}, n : Nat]
  /\ \A n \in Nat : Some(0, n) \in [status : {"some", "none", "panic"}, value : {0}, n : Nat]
<1>1. \A v, n : Some(v, n).status = "some" /\ Some(v, n).value = v /\ Some(v, n).n = n
  BY DEF Some
<1>2. Nothing.status = "none" /\ Nothing.n = 0 /\ Panic.status = "panic" /\ Panic.n = 0
  BY DEF Nothing, Panic
<1>3. Nothing \in [status : {"some", "none", "panic"}, value : {0}, n : Nat]
  BY DEF Nothing
<1>4. Panic \in [status : {"some", "none", "panic"}, value : {0}, n : Nat]
  BY DEF Panic
<1>5. \A n \in Nat : Some(0, n) \in [status : {"some", "none", "panic"}, value : {0}, n : Nat]
  BY DEF Some
<1> QED
  BY <1>1, <1>2, <1>3, <1>4, <1>5

\* The bytes start with a number of the type
Readable(bytes, size) == bytes # <<>> /\ bytes[1] <= size /\ bytes[1] + 1 <= Len(bytes)

\* A byte
LEMMA FirstByte ==
  ASSUME NEW bytes \in ByteString, bytes # <<>>
  PROVE  Len(bytes) \in Nat /\ Len(bytes) >= 1 /\ bytes[1] \in 0..255
<1>1. Len(bytes) \in Nat /\ Len(bytes) # 0
  BY EmptySeq, LenProperties DEF ByteString
<1>2. 1 \in 1..Len(bytes)
  BY <1>1
<1> QED
  BY <1>1, <1>2, ElementOfSeq DEF ByteString

\* What read_from returns
LEMMA ReadFromFacts ==
  ASSUME NEW bytes \in ByteString, NEW size \in Nat
  PROVE  /\ Readable(bytes, size) =>
              /\ read_from(bytes, size)
                   = Some(Value[SubSeq(bytes, 2, 1 + bytes[1])], bytes[1] + 1)
              /\ bytes[1] + 1 \in 1..Len(bytes)
         /\ ~Readable(bytes, size) => read_from(bytes, size) \in {Nothing, Panic}
<1>1. CASE bytes = <<>>
  BY <1>1 DEF Readable, read_from
<1>2. CASE bytes # <<>>
  <2> DEFINE len == Len(bytes)
             first == bytes[1]
             some == Some(Value[SubSeq(bytes, 2, 1 + bytes[1])], bytes[1] + 1)
  <2>1. len \in Nat /\ len >= 1 /\ first \in 0..255
    BY <1>2, FirstByte
  <2>2. read_from(bytes, size) = IF first > size THEN Nothing
                                 ELSE IF len < 1 + first THEN Panic ELSE some
    BY <1>2 DEF read_from
  <2>3. Readable(bytes, size) <=> first <= size /\ first + 1 <= len
    BY <1>2 DEF Readable
  <2> HIDE DEF some, len, first
  <2>4. /\ Readable(bytes, size) => read_from(bytes, size) = some /\ first + 1 \in 1..len
        /\ ~Readable(bytes, size) => read_from(bytes, size) \in {Nothing, Panic}
    BY <2>1, <2>2, <2>3
  <2> QED
    BY <2>4 DEF some, len, first
<1> QED
  BY <1>1, <1>2

\* What read_from returns, told by its status
LEMMA ReadFromStatus ==
  ASSUME NEW bytes \in ByteString, NEW size \in Nat
  PROVE  LET r == read_from(bytes, size) IN
         /\ r.status = "some" <=> Readable(bytes, size)
         /\ r.status = "some" => r.n \in 1..Len(bytes)
         /\ r.status # "some" => r \in {Nothing, Panic}
         /\ r.n \in Nat /\ r.status \in {"some", "none", "panic"}
<1> DEFINE r == read_from(bytes, size)
           v == Value[SubSeq(bytes, 2, 1 + bytes[1])]
           len == Len(bytes)
           n == bytes[1] + 1
<1>1. /\ Readable(bytes, size) => r = Some(v, n) /\ n \in 1..len
      /\ ~Readable(bytes, size) => r \in {Nothing, Panic}
  BY ReadFromFacts
<1>2. len \in Nat
  BY LenProperties DEF ByteString
<1> HIDE DEF r, v, n, len
<1>3. CASE Readable(bytes, size)
  <2>1. r.status = "some" /\ r.n = n /\ n \in 1..len /\ n \in Nat
    BY <1>1, <1>2, <1>3, Results
  <2> QED
    BY <1>3, <2>1 DEF r, len
<1>4. CASE ~Readable(bytes, size)
  <2>1. r.status # "some" /\ r.n = 0 /\ r \in {Nothing, Panic} /\ r.status \in {"none", "panic"}
    BY <1>1, <1>4, Results
  <2> QED
    BY <1>4, <2>1 DEF r, len
<1> QED
  BY <1>3, <1>4

\* read_from looks at no byte after the number
LEMMA ReadFromStable ==
  ASSUME NEW bytes \in ByteString, NEW rest \in ByteString, NEW size \in Nat,
         Readable(bytes, size)
  PROVE  read_from(bytes \o rest, size) = read_from(bytes, size)
<1> DEFINE c == bytes \o rest
           first == bytes[1]
<1>1. bytes # <<>> /\ first <= size /\ first + 1 <= Len(bytes)
  BY DEF Readable
<1>2. first \in 0..255 /\ Len(bytes) \in Nat /\ Len(bytes) >= 1
  BY <1>1, FirstByte
<1>3. /\ c \in ByteString /\ Len(c) = Len(bytes) + Len(rest) /\ Len(rest) \in Nat
      /\ \A i \in 1..Len(bytes) : c[i] = bytes[i]
  BY ConcatFacts DEF ByteString
<1>4. c[1] = first
  <2>1. 1 \in 1..Len(bytes)
    BY <1>2
  <2> HIDE DEF c
  <2> QED
    BY <1>3, <2>1
<1>5. SubSeq(c, 2, 1 + first) = SubSeq(bytes, 2, 1 + first)
  <2>1. CASE first = 0
    <3>1. 2 \in Int /\ 1 + first \in Int /\ 1 + first < 2
      BY <2>1
    <3> HIDE DEF c, first
    <3> QED
      BY <3>1, SubSeqEmpty
  <2>2. CASE first # 0
    <3> HIDE DEF first
    <3>1. 2 \in 1..Len(bytes) /\ 1 + first \in 2..Len(bytes)
      BY <1>1, <1>2, <2>2
    <3> QED
      BY <3>1, SubSeqOfConcat1 DEF ByteString
  <2> QED
    BY <2>1, <2>2
<1>6. Readable(c, size)
  <2>1. c # <<>>
    <3> HIDE DEF c
    <3> QED
      BY <1>2, <1>3, EmptySeq
  <2>2. first + 1 <= Len(c)
    <3> HIDE DEF c, first
    <3> QED
      BY <1>1, <1>2, <1>3
  <2> HIDE DEF c, first
  <2> QED
    BY <1>1, <1>4, <2>1, <2>2 DEF Readable
<1>7. /\ read_from(c, size) = Some(Value[SubSeq(c, 2, 1 + c[1])], c[1] + 1)
      /\ read_from(bytes, size) = Some(Value[SubSeq(bytes, 2, 1 + bytes[1])], bytes[1] + 1)
  <2>1. c \in ByteString
    BY <1>3
  <2> HIDE DEF c
  <2> QED
    BY <1>6, <2>1, ReadFromFacts
<1> HIDE DEF c
<1>8. read_from(c, size) = read_from(bytes, size)
  BY <1>4, <1>5, <1>7, Zenon DEF first
<1> QED
  BY <1>8 DEF c

\* VarInt: what was written is read back, whatever follows
LEMMA ReadFromWrite ==
  ASSUME NEW n \in Nat, NEW size \in 0..255, Fits(n, size), NEW rest \in ByteString
  PROVE  /\ read_from(write(n) \o rest, size) = Some(n, Len(write(n)))
         /\ Readable(write(n), size)
<1> DEFINE d == Significant[n]
           len == Len(d)
           b == write(n)
<1>1. b \in ByteString /\ Len(b) = 1 + len /\ b[1] = len /\ len \in 0..size /\ d \in ByteString
  BY WriteType, SignificantType, Zenon
<1>2. SubSeq(b, 2, 1 + len) = d
  <2>1. b = <<len>> \o d
    BY DEF write
  <2>2. <<len>> \in Seq(0..255) /\ Len(<<len>>) = 1
    <3>1. len \in 0..255
      <4>1. len \in 0..size
        BY <1>1
      <4> HIDE DEF len
      <4> QED
        BY <4>1
    <3> QED
      BY <3>1
  <2>3. From(b, 2) = d
    <3>1. From(<<len>> \o d, Len(<<len>>) + 1) = d
      <4> HIDE DEF len, d
      <4> QED
        BY <1>1, <2>2, ConcatParts DEF ByteString
    <3>2. Len(<<len>>) + 1 = 2
      BY <2>2
    <3> HIDE DEF len, d
    <3> QED
      BY <2>1, <3>1, <3>2
  <2> HIDE DEF b, len, d
  <2> QED
    BY <1>1, <2>3 DEF From
<1>3. Readable(b, size)
  <2>1. b # <<>>
    <3> HIDE DEF b, len
    <3> QED
      BY <1>1, EmptySeq
  <2> HIDE DEF b, len
  <2> QED
    BY <1>1, <2>1 DEF Readable
<1>4. Value[d] = n
  <2>1. <<>> \in ByteString /\ Value[<<>>] = 0
    BY EmptySeq, ValueStep DEF ByteString
  <2>2. Value[<<>> \o d] = n
    BY <2>1, ValueOfSignificant
  <2>3. <<>> \o d = d
    BY <1>1, ConcatEmptySeq DEF ByteString
  <2> HIDE DEF d
  <2> QED
    BY <2>2, <2>3
<1>5. read_from(b, size) = Some(n, 1 + len)
  <2>1. read_from(b, size) = Some(Value[SubSeq(b, 2, 1 + b[1])], b[1] + 1)
    <3> HIDE DEF b
    <3> QED
      BY <1>1, <1>3, ReadFromFacts
  <2>2. len + 1 = 1 + len
    BY <1>1
  <2> HIDE DEF b, len, d
  <2> QED
    BY <1>1, <1>2, <1>4, <2>1, <2>2
<1> HIDE DEF b
<1>6. read_from(b \o rest, size) = read_from(b, size)
  <2>1. size \in Nat
    OBVIOUS
  <2>2. b \in ByteString
    BY <1>1
  <2> QED
    BY <1>3, <2>1, <2>2, ReadFromStable
<1> QED
  BY <1>1, <1>3, <1>5, <1>6 DEF b
-----------------------------------------------------------------------------
(* Segments of an index *)

\* The end of a sequence, which is empty beyond it
LEMMA FromAny ==
  ASSUME NEW S, NEW s \in Seq(S), NEW i \in Nat, i >= 1
  PROVE  From(s, i) \in Seq(S) /\ (i > 1 /\ s # <<>> => Len(From(s, i)) < Len(s))
<1>1. Len(s) \in Nat
  BY LenProperties
<1>2. CASE i <= Len(s) + 1
  <2>1. i \in 1..(Len(s) + 1)
    BY <1>1, <1>2
  <2>2. From(s, i) \in Seq(S) /\ Len(From(s, i)) = Len(s) - i + 1
    BY <2>1, FromFacts
  <2> DEFINE l == Len(From(s, i))
             k == Len(s)
  <2>3. l = k - i + 1 /\ k \in Nat
    BY <1>1, <2>2
  <2> HIDE DEF l, k
  <2>4. i > 1 => l < k
    BY <2>3
  <2> QED
    BY <2>2, <2>4 DEF l, k
<1>3. CASE ~(i <= Len(s) + 1)
  <2>1. i \in Int /\ Len(s) \in Int /\ Len(s) < i
    BY <1>1, <1>3
  <2>2. From(s, i) = <<>>
    BY <2>1, SubSeqEmpty DEF From
  <2>3. <<>> \in Seq(S) /\ Len(<<>>) = 0
    BY EmptySeq
  <2>4. s # <<>> => Len(s) # 0
    BY EmptySeq
  <2> QED
    BY <1>1, <2>2, <2>3, <2>4
<1> QED
  BY <1>2, <1>3

\* The two numbers of a segment
PidOf(bytes) == read_from(bytes, 4)
NumberOf(bytes) == read_from(From(bytes, 1 + PidOf(bytes).n), 4)

\* The bytes start with a segment, and how many bytes it has
Paired(bytes) ==
  /\ PidOf(bytes).status = "some" /\ PidOf(bytes).value # 0
  /\ NumberOf(bytes).status = "some"
Both(bytes) == PidOf(bytes).n + NumberOf(bytes).n

\* Where the two numbers are
LEMMA NumberFacts ==
  ASSUME NEW bytes \in ByteString
  PROVE  /\ PidOf(bytes).n \in Nat /\ NumberOf(bytes).n \in Nat
         /\ From(bytes, 1 + PidOf(bytes).n) \in ByteString
         /\ PidOf(bytes).status \in {"some", "none", "panic"}
         /\ NumberOf(bytes).status # "some" => NumberOf(bytes) \in {Nothing, Panic}
         /\ Paired(bytes) => Both(bytes) \in 2..Len(bytes) /\ bytes # <<>>
         /\ Paired(bytes) => PidOf(bytes).n \in 1..Len(bytes)
<1> DEFINE p == PidOf(bytes)
           tail == From(bytes, 1 + p.n)
           q == NumberOf(bytes)
           len == Len(bytes)
<1>0. len \in Nat
  BY LenProperties DEF ByteString
<1>1. /\ p.n \in Nat /\ p.status \in {"some", "none", "panic"}
      /\ p.status = "some" => p.n \in 1..len
  BY ReadFromStatus DEF PidOf
<1>2. tail \in ByteString
  <2>1. 1 + p.n \in Nat /\ 1 + p.n >= 1
    <3> HIDE DEF p
    <3> QED
      BY <1>1
  <2> HIDE DEF p
  <2> QED
    BY <2>1, FromAny DEF ByteString
<1>3. /\ q.n \in Nat
      /\ q.status = "some" => q.n \in 1..Len(tail)
      /\ q.status # "some" => q \in {Nothing, Panic}
  <2>1. q = read_from(tail, 4)
    BY DEF NumberOf
  <2> HIDE DEF q, tail
  <2> QED
    BY <1>2, <2>1, ReadFromStatus
<1>4. ASSUME Paired(bytes) PROVE p.n + q.n \in 2..len /\ p.n \in 1..len
  <2>1. p.n \in 1..len /\ q.n \in 1..Len(tail)
    BY <1>1, <1>3, <1>4 DEF Paired
  <2>2. Len(tail) = len - p.n
    <3> DEFINE i == 1 + p.n
    <3>1. i \in 1..(len + 1) /\ len - i + 1 = len - p.n
      <4> HIDE DEF p, len
      <4> QED
        BY <1>0, <2>1
    <3>2. Len(From(bytes, i)) = len - i + 1
      <4> HIDE DEF i
      <4> QED
        BY <3>1, FromFacts DEF ByteString
    <3> QED
      BY <3>1, <3>2
  <2> HIDE DEF p, q, tail, len
  <2> QED
    BY <1>0, <2>1, <2>2
<1>5. ASSUME Paired(bytes) PROVE bytes # <<>>
  <2> HIDE DEF p, len
  <2>1. len # 0
    BY <1>0, <1>4, <1>5
  <2> QED
    BY <2>1, EmptySeq DEF len
<1> HIDE DEF p, q, tail, len
<1> QED
  BY <1>1, <1>2, <1>3, <1>4, <1>5 DEF p, q, tail, len, Both

\* Segment::parse reads those two numbers
LEMMA ParseFacts ==
  ASSUME NEW bytes \in ByteString
  PROVE  /\ parse(bytes).status = "some" <=> Paired(bytes)
         /\ Paired(bytes) => parse(bytes).n = Both(bytes)
<1> DEFINE p == PidOf(bytes)
           q == NumberOf(bytes)
           r == Some(<<p.value, q.value>>, p.n + q.n)
<1>1. parse(bytes) = IF p.status # "some" THEN p ELSE IF p.value = 0 THEN Nothing
                     ELSE IF q.status # "some" THEN q ELSE r
  BY DEF parse, PidOf, NumberOf
<1>2. r.status = "some" /\ r.n = p.n + q.n
  BY Results
<1> HIDE DEF p, q, r
<1>3. CASE Paired(bytes)
  BY <1>1, <1>2, <1>3 DEF Paired, Both, p, q
<1>4. CASE ~Paired(bytes)
  <2>1. CASE p.status # "some"
    BY <1>1, <1>4, <2>1
  <2>2. CASE p.status = "some" /\ p.value = 0
    BY <1>1, <1>4, <2>2, Results
  <2>3. CASE p.status = "some" /\ p.value # 0
    <3>1. q.status # "some"
      BY <1>4, <2>3 DEF Paired, p, q
    <3> QED
      BY <1>1, <1>4, <2>3, <3>1
  <2> QED
    BY <2>1, <2>2, <2>3
<1> QED
  BY <1>3, <1>4

\* A segment is read the same, whatever follows
LEMMA PairStable ==
  ASSUME NEW bytes \in ByteString, NEW rest \in ByteString, Paired(bytes)
  PROVE  /\ PidOf(bytes \o rest) = PidOf(bytes) /\ NumberOf(bytes \o rest) = NumberOf(bytes)
         /\ Paired(bytes \o rest) /\ Both(bytes \o rest) = Both(bytes)
         /\ From(bytes \o rest, 1 + Both(bytes)) = From(bytes, 1 + Both(bytes)) \o rest
<1> DEFINE c == bytes \o rest
           i == 1 + PidOf(bytes).n
           tail == From(bytes, i)
           b == Both(bytes)
<1>0. Len(bytes) \in Nat
  BY LenProperties DEF ByteString
<1>1. PidOf(c) = PidOf(bytes)
  <2>1. Readable(bytes, 4)
    BY ReadFromStatus DEF Paired, PidOf
  <2> QED
    BY <2>1, ReadFromStable DEF PidOf
<1>2. i \in 1..(Len(bytes) + 1) /\ tail \in ByteString
  <2>1. PidOf(bytes).n \in 1..Len(bytes)
    BY NumberFacts
  <2> QED
    BY <1>0, <2>1, NumberFacts
<1>3. From(c, i) = tail \o rest
  <2> HIDE DEF i
  <2> QED
    BY <1>2, FromConcat DEF ByteString
<1>4. NumberOf(c) = NumberOf(bytes)
  <2>1. NumberOf(c) = read_from(From(c, i), 4) /\ NumberOf(bytes) = read_from(tail, 4)
    BY <1>1 DEF NumberOf
  <2>2. read_from(tail, 4).status = "some"
    BY <2>1 DEF Paired
  <2> HIDE DEF tail, i
  <2>3. Readable(tail, 4)
    BY <1>2, <2>2, ReadFromStatus
  <2>4. read_from(tail \o rest, 4) = read_from(tail, 4)
    BY <1>2, <2>3, ReadFromStable
  <2> QED
    BY <1>3, <2>1, <2>4
<1>5. Paired(c) /\ Both(c) = b
  <2> HIDE DEF c
  <2> QED
    BY <1>1, <1>4 DEF Paired, Both
<1>6. From(c, 1 + b) = From(bytes, 1 + b) \o rest
  <2>1. b \in 2..Len(bytes)
    BY NumberFacts
  <2> HIDE DEF b
  <2>2. 1 + b \in 1..(Len(bytes) + 1)
    BY <1>0, <2>1
  <2> QED
    BY <2>2, FromConcat DEF ByteString
<1> QED
  BY <1>1, <1>4, <1>5, <1>6
-----------------------------------------------------------------------------
(* FractionalIndex::is_valid and FractionalIndex::from_bytes *)

\* What follows the segment at the start of the bytes
Next1 == [b \in ByteString |-> IF Paired(b) THEN From(b, 1 + Both(b)) ELSE b]
Unpaired == {b \in ByteString : ~Paired(b)}
Length == [b \in ByteString |-> Len(b)]

\* Every segment makes the bytes that are left shorter
LEMMA SegmentsDescend ==
  ASSUME NEW V, NEW base \in [ByteString -> V], NEW comb \in [ByteString \X V -> V]
  PROVE  Descends(ByteString, V, Length, Next1, Unpaired, base, comb)
<1>1. ASSUME NEW b \in ByteString, Paired(b)
      PROVE  From(b, 1 + Both(b)) \in ByteString /\ Len(From(b, 1 + Both(b))) < Len(b)
  <2> DEFINE i == 1 + Both(b)
  <2>1. i \in Nat /\ i > 1 /\ i >= 1 /\ b # <<>>
    <3>1. Both(b) \in 2..Len(b) /\ b # <<>>
      BY <1>1, NumberFacts
    <3>2. Len(b) \in Nat
      BY LenProperties DEF ByteString
    <3> QED
      BY <3>1, <3>2
  <2> HIDE DEF i
  <2>2. From(b, i) \in ByteString /\ Len(From(b, i)) < Len(b)
    BY <2>1, FromAny DEF ByteString
  <2> QED
    BY <2>2 DEF i
<1>2. Length \in [ByteString -> Nat]
  BY LenProperties DEF ByteString, Length
<1>3. Next1 \in [ByteString -> ByteString]
  BY <1>1 DEF Next1
<1>4. ASSUME NEW b \in ByteString, b \notin Unpaired PROVE Length[Next1[b]] < Length[b]
  <2>1. Paired(b)
    BY <1>4 DEF Unpaired
  <2>2. Next1[b] = From(b, 1 + Both(b))
    BY <2>1 DEF Next1
  <2>3. Next1[b] \in ByteString /\ Len(Next1[b]) < Len(b)
    BY <1>1, <2>1, <2>2
  <2> QED
    BY <2>3 DEF Length
<1> QED
  BY <1>2, <1>3, <1>4 DEF Descends

\* The definition of is_valid is satisfied
LEMMA ValidStep ==
  ASSUME NEW bytes \in ByteString
  PROVE  is_valid[bytes] = IF Paired(bytes) THEN is_valid[From(bytes, 1 + Both(bytes))]
                           ELSE bytes = <<>>
<1> DEFINE base == [b \in ByteString |-> b = <<>>]
           comb == [p \in ByteString \X BOOLEAN |-> p[2]]
<1>1. base \in [ByteString -> BOOLEAN] /\ comb \in [ByteString \X BOOLEAN -> BOOLEAN]
  OBVIOUS
<1>2. PICK f : Solves(f, ByteString, BOOLEAN, Next1, Unpaired, base, comb)
  <2> HIDE DEF base, comb
  <2>1. Descends(ByteString, BOOLEAN, Length, Next1, Unpaired, base, comb)
    BY <1>1, SegmentsDescend
  <2> QED
    BY <2>1, Recursion
<1>3. f \in [ByteString -> BOOLEAN] /\ Next1 \in [ByteString -> ByteString]
  <2> HIDE DEF base, comb
  <2>1. Descends(ByteString, BOOLEAN, Length, Next1, Unpaired, base, comb)
    BY <1>1, SegmentsDescend
  <2> QED
    BY <1>2, <2>1 DEF Solves, Descends
<1>4. ASSUME NEW b \in ByteString
      PROVE  f[b] = IF Paired(b) THEN f[From(b, 1 + Both(b))] ELSE b = <<>>
  <2>1. f[b] = Calls(f, b, Next1, Unpaired, base, comb)
    BY <1>2 DEF Solves
  <2>2. CASE Paired(b)
    <3>1. b \notin Unpaired /\ Next1[b] = From(b, 1 + Both(b))
      BY <2>2 DEF Unpaired, Next1
    <3>2. f[Next1[b]] \in BOOLEAN
      BY <1>3
    <3>3. comb[<<b, f[Next1[b]]>>] = f[Next1[b]]
      BY <3>2
    <3> HIDE DEF comb
    <3> QED
      BY <2>1, <2>2, <3>1, <3>3 DEF Calls
  <2>3. CASE ~Paired(b)
    <3>1. b \in Unpaired /\ base[b] = (b = <<>>)
      BY <2>3 DEF Unpaired
    <3> HIDE DEF base
    <3> QED
      BY <2>1, <2>3, <3>1 DEF Calls
  <2> QED
    BY <2>2, <2>3
<1>5. ASSUME NEW b \in ByteString
      PROVE  f[b] = IF parse(b).status = "some" THEN f[From(b, 1 + parse(b).n)] ELSE b = <<>>
  BY <1>4, ParseFacts
<1>6. f = [b \in ByteString |->
             IF parse(b).status = "some" THEN f[From(b, 1 + parse(b).n)] ELSE b = <<>>]
  BY <1>3, <1>5
<1>7. is_valid = [b \in ByteString |->
             IF parse(b).status = "some" THEN is_valid[From(b, 1 + parse(b).n)] ELSE b = <<>>]
  BY <1>6, Zenon DEF is_valid
<1>8. is_valid[bytes] = IF parse(bytes).status = "some"
                        THEN is_valid[From(bytes, 1 + parse(bytes).n)] ELSE bytes = <<>>
  BY <1>7, Zenon
<1> QED
  BY <1>8, ParseFacts

\* What the loop of from_bytes returns where no segment is read
Stopped(bytes) ==
  IF PidOf(bytes).status = "none" \/ (PidOf(bytes).status = "some" /\ PidOf(bytes).value = 0)
  THEN Some(0, 0)
  ELSE IF PidOf(bytes).status = "panic" THEN Panic ELSE NumberOf(bytes)

\* What it returns after a segment of n bytes
AfterSegment(n, tail) == IF tail.status # "some" THEN tail ELSE Some(0, n + tail.n)

ParserResult == [status : {"some", "none", "panic"}, value : {0}, n : Nat]

\* The definition of Consumed is satisfied
LEMMA ConsumedStep ==
  ASSUME NEW bytes \in ByteString
  PROVE  Consumed[bytes] = IF Paired(bytes)
                           THEN AfterSegment(Both(bytes), Consumed[From(bytes, 1 + Both(bytes))])
                           ELSE Stopped(bytes)
<1> DEFINE V == ParserResult
           base == [b \in ByteString |-> IF Paired(b) THEN Nothing ELSE Stopped(b)]
           comb == [p \in ByteString \X V |-> IF Paired(p[1]) THEN AfterSegment(Both(p[1]), p[2]) ELSE Nothing]
<1>1. Nothing \in V /\ Panic \in V /\ \A n \in Nat : Some(0, n) \in V
  BY Results DEF ParserResult
<1>2. ASSUME NEW b \in ByteString, ~Paired(b) PROVE Stopped(b) \in V
  <2>1. Some(0, 0) \in V
    BY <1>1
  <2>2. CASE NumberOf(b).status = "some"
    <3>1. PidOf(b).status = "none" \/ (PidOf(b).status = "some" /\ PidOf(b).value = 0)
            \/ PidOf(b).status = "panic"
      BY <1>2, <2>2, NumberFacts DEF Paired
    <3> QED
      BY <1>1, <2>1, <3>1 DEF Stopped
  <2>3. CASE NumberOf(b).status # "some"
    <3>1. NumberOf(b) \in V
      BY <1>1, <2>3, NumberFacts
    <3> QED
      BY <1>1, <2>1, <3>1 DEF Stopped
  <2> QED
    BY <2>2, <2>3
<1>3. ASSUME NEW n \in Nat, NEW v \in V PROVE AfterSegment(n, v) \in V
  <2>1. v.n \in Nat
    BY DEF ParserResult
  <2>2. n + v.n \in Nat
    BY <2>1
  <2> HIDE DEF V
  <2> QED
    BY <1>1, <2>2 DEF AfterSegment
<1>4. ASSUME NEW b \in ByteString, Paired(b) PROVE Both(b) \in Nat
  <2>1. Both(b) \in 2..Len(b)
    BY <1>4, NumberFacts
  <2> QED
    BY <2>1
<1> HIDE DEF V
<1>5. base \in [ByteString -> V]
  BY <1>1, <1>2
<1>6. comb \in [ByteString \X V -> V]
  <2>1. ASSUME NEW p \in ByteString \X V
        PROVE  (IF Paired(p[1]) THEN AfterSegment(Both(p[1]), p[2]) ELSE Nothing) \in V
    <3>1. p[1] \in ByteString /\ p[2] \in V
      OBVIOUS
    <3>2. Paired(p[1]) => AfterSegment(Both(p[1]), p[2]) \in V
      BY <1>3, <1>4, <3>1
    <3> QED
      BY <1>1, <3>2
  <2> QED
    BY <2>1
<1>7. Descends(ByteString, V, Length, Next1, Unpaired, base, comb)
  <2> HIDE DEF base, comb
  <2> QED
    BY <1>5, <1>6, SegmentsDescend
<1>8. PICK f : Solves(f, ByteString, V, Next1, Unpaired, base, comb)
  <2> HIDE DEF base, comb
  <2> QED
    BY <1>7, Recursion
<1>9. f \in [ByteString -> V] /\ Next1 \in [ByteString -> ByteString]
  <2> HIDE DEF base, comb
  <2> QED
    BY <1>7, <1>8 DEF Solves, Descends
<1>10. ASSUME NEW b \in ByteString
       PROVE  f[b] = IF Paired(b) THEN AfterSegment(Both(b), f[From(b, 1 + Both(b))]) ELSE Stopped(b)
  <2>1. f[b] = Calls(f, b, Next1, Unpaired, base, comb)
    BY <1>8 DEF Solves
  <2>2. CASE Paired(b)
    <3>1. b \notin Unpaired /\ Next1[b] = From(b, 1 + Both(b))
      BY <2>2 DEF Unpaired, Next1
    <3>2. f[Next1[b]] \in V
      BY <1>9
    <3>3. comb[<<b, f[Next1[b]]>>] = AfterSegment(Both(b), f[Next1[b]])
      BY <2>2, <3>2
    <3> HIDE DEF comb
    <3> QED
      BY <2>1, <2>2, <3>1, <3>3 DEF Calls
  <2>3. CASE ~Paired(b)
    <3>1. b \in Unpaired /\ base[b] = Stopped(b)
      BY <2>3 DEF Unpaired
    <3> HIDE DEF base
    <3> QED
      BY <2>1, <2>3, <3>1 DEF Calls
  <2> QED
    BY <2>2, <2>3
<1> DEFINE Body(g, b) ==
             LET pid == read_from(b, 4)
                 seq == read_from(From(b, 1 + pid.n), 4)
                 tail == g[From(b, 1 + pid.n + seq.n)]
             IN  IF pid.status = "none" \/ (pid.status = "some" /\ pid.value = 0) THEN Some(0, 0)
                 ELSE IF pid.status = "panic" THEN Panic
                 ELSE IF seq.status # "some" THEN seq
                 ELSE IF tail.status # "some" THEN tail
                 ELSE Some(0, pid.n + seq.n + tail.n)
<1>11. ASSUME NEW g, NEW b \in ByteString
       PROVE  Body(g, b) = IF Paired(b) THEN AfterSegment(Both(b), g[From(b, 1 + Both(b))])
                           ELSE Stopped(b)
  <2> DEFINE p == PidOf(b)
             q == NumberOf(b)
  <2>1. p.n \in Nat /\ q.n \in Nat /\ p.status \in {"some", "none", "panic"}
    BY NumberFacts
  <2> DEFINE t == g[From(b, 1 + p.n + q.n)]
             some == Some(0, p.n + q.n + t.n)
  <2>2. Body(g, b) = IF p.status = "none" \/ (p.status = "some" /\ p.value = 0) THEN Some(0, 0)
                     ELSE IF p.status = "panic" THEN Panic
                     ELSE IF q.status # "some" THEN q
                     ELSE IF t.status # "some" THEN t ELSE some
    BY Zenon DEF PidOf, NumberOf
  <2>3. 1 + p.n + q.n = 1 + Both(b)
    <3> HIDE DEF p, q
    <3>1. 1 + p.n + q.n = 1 + (p.n + q.n)
      BY <2>1
    <3> QED
      BY <3>1 DEF p, q, Both
  <2>4. t = g[From(b, 1 + Both(b))]
    BY <2>3
  <2>5. AfterSegment(Both(b), t) = IF t.status # "some" THEN t ELSE some
    BY DEF AfterSegment, Both
  <2> HIDE DEF Body, t, some, p, q
  <2>6. Paired(b) <=> p.status = "some" /\ p.value # 0 /\ q.status = "some"
    BY DEF Paired, p, q
  <2>7. Stopped(b) = IF p.status = "none" \/ (p.status = "some" /\ p.value = 0) THEN Some(0, 0)
                     ELSE IF p.status = "panic" THEN Panic ELSE q
    BY DEF Stopped, p, q
  <2>8. CASE Paired(b)
    BY <2>2, <2>4, <2>5, <2>6, <2>8
  <2>9. CASE ~Paired(b)
    BY <2>1, <2>2, <2>6, <2>7, <2>9
  <2> QED
    BY <2>8, <2>9
<1>12. f = [b \in ByteString |-> Body(f, b)]
  <2>1. \A b \in ByteString : f[b] = Body(f, b)
    BY <1>10, <1>11
  <2> HIDE DEF Body
  <2> QED
    BY <1>9, <2>1
<1>13. Consumed = [b \in ByteString |-> Body(Consumed, b)]
  BY <1>12, Zenon DEF Consumed
<1>14. Consumed[bytes] = Body(Consumed, bytes)
  BY <1>13, Zenon
<1> HIDE DEF Body
<1> QED
  BY <1>11, <1>14
\* The loop of from_bytes stops at a delimiter
LEMMA DelimiterStops ==
  ASSUME NEW next \in ByteString, next # <<>>, next[1] = 0
  PROVE  ~Paired(next) /\ Stopped(next) = Some(0, 0)
<1>1. Len(next) \in Nat /\ Len(next) >= 1
  BY FirstByte
<1>2. Readable(next, 4)
  BY <1>1 DEF Readable
<1>3. PidOf(next) = Some(Value[SubSeq(next, 2, 1 + next[1])], next[1] + 1)
  BY <1>2, ReadFromFacts DEF PidOf
<1>4. SubSeq(next, 2, 1 + next[1]) = <<>>
  <2>1. 1 + next[1] \in Int /\ 1 + next[1] < 2 /\ 2 \in Int
    OBVIOUS
  <2> QED
    BY <2>1, SubSeqEmpty
<1>5. Value[<<>>] = 0
  <2>1. <<>> \in ByteString
    BY DEF ByteString
  <2> QED
    BY <2>1, ValueStep
<1>6. PidOf(next).status = "some" /\ PidOf(next).value = 0
  <2> DEFINE n == next[1] + 1
  <2>1. PidOf(next) = Some(0, n)
    BY <1>3, <1>4, <1>5
  <2> HIDE DEF n
  <2> QED
    BY <2>1, Results
<1> QED
  BY <1>6 DEF Paired, Stopped

\* It reads a valid index up to the delimiter after it
LEMMA ConsumedIndex ==
  ASSUME NEW bytes \in ByteString, is_valid[bytes],
         NEW next \in ByteString, next # <<>>, next[1] = 0
  PROVE  Consumed[bytes \o next] = Some(0, Len(bytes))
<1> DEFINE Bad(b) == is_valid[b] /\ Consumed[b \o next] # Some(0, Len(b))
           Wrong == {k \in Nat : \E b \in ByteString : Len(b) = k /\ Bad(b)}
<1>0. \A b \in ByteString : Len(b) \in Nat
  BY LenProperties DEF ByteString
<1>1. SUFFICES ASSUME Wrong # {} PROVE FALSE
  BY <1>0
<1>2. PICK k \in Wrong : \A j \in Wrong : k <= j
  <2>1. Wrong \in SUBSET Nat
    OBVIOUS
  <2> HIDE DEF Wrong
  <2> QED
    BY <1>1, <2>1, Least
<1>3. PICK b \in ByteString : Len(b) = k /\ Bad(b)
  BY <1>2
<1> DEFINE c == b \o next
<1>4. c \in ByteString
  BY ConcatProperties DEF ByteString
<1>5. CASE Paired(b)
  <2> DEFINE n == Both(b)
             tail == From(b, 1 + n)
  <2>1. Paired(c) /\ Both(c) = n /\ From(c, 1 + n) = tail \o next
    BY <1>5, PairStable
  <2>2. n \in 2..Len(b) /\ Len(b) \in Nat
    BY <1>0, <1>5, NumberFacts
  <2> HIDE DEF n
  <2>3. tail \in ByteString /\ Len(tail) = Len(b) - n /\ Len(tail) \in Nat
    <3>1. 1 + n \in 1..(Len(b) + 1) /\ Len(b) - (1 + n) + 1 = Len(b) - n
      BY <2>2
    <3> QED
      BY <3>1, FromFacts DEF ByteString
  <2>4. is_valid[tail]
    BY <1>3, <1>5, ValidStep DEF n
  <2> HIDE DEF tail
  <2>5. Consumed[tail \o next] = Some(0, Len(tail))
    <3>1. ASSUME Bad(tail) PROVE FALSE
      <4>1. Len(tail) \in Wrong
        BY <2>3, <3>1
      <4> QED
        BY <1>2, <1>3, <2>2, <2>3, <4>1
    <3> QED
      BY <2>4, <3>1
  <2>6. Consumed[c] = AfterSegment(n, Consumed[tail \o next])
    <3> HIDE DEF c
    <3> QED
      BY <1>4, <2>1, ConsumedStep
  <2>7. AfterSegment(n, Some(0, Len(tail))) = Some(0, n + Len(tail))
    BY Results DEF AfterSegment
  <2>8. n + Len(tail) = Len(b)
    BY <2>2, <2>3
  <2> QED
    BY <1>3, <2>5, <2>6, <2>7, <2>8
<1>6. CASE ~Paired(b)
  <2>1. b = <<>>
    BY <1>3, <1>6, ValidStep
  <2>2. c = next /\ Len(b) = 0
    BY <2>1, ConcatEmptySeq DEF ByteString
  <2>3. Consumed[next] = Some(0, 0)
    BY DelimiterStops, ConsumedStep
  <2> QED
    BY <1>3, <2>2, <2>3
<1> QED
  BY <1>5, <1>6

\* FractionalIndex::from_bytes: a valid index is found, whatever its bytes are,
\* up to the delimiter after it
LEMMA FromBytesIndex ==
  ASSUME NEW bytes \in ByteString, is_valid[bytes], bytes # <<>>,
         NEW next \in ByteString, next # <<>>, next[1] = 0
  PROVE  from_bytes(bytes \o next) = Some(bytes, Len(bytes))
<1> DEFINE c == bytes \o next
           n == Len(bytes)
<1>1. n \in Nat /\ n # 0
  BY EmptySeq, LenProperties DEF ByteString
<1>2. Consumed[c] = Some(0, n)
  BY ConsumedIndex
<1>3. SubSeq(c, 1, n) = bytes
  BY ConcatParts DEF ByteString
<1> HIDE DEF c, n
<1>4. Consumed[c].status = "some" /\ Consumed[c].n = n
  BY <1>2, Results
<1>5. from_bytes(c) = Some(bytes, n)
  BY <1>1, <1>3, <1>4 DEF from_bytes
<1> QED
  BY <1>5 DEF c, n

\* What from_bytes returns for any bytes
LEMMA FromBytesFacts ==
  ASSUME NEW bytes \in ByteString
  PROVE  from_bytes(bytes).n \in Nat
<1>1. ASSUME NEW b \in ByteString PROVE Consumed[b].n \in Nat
  <2> DEFINE Wrong == {k \in Nat : \E x \in ByteString : Len(x) = k /\ Consumed[x].n \notin Nat}
  <2>0. \A x \in ByteString : Len(x) \in Nat
    BY LenProperties DEF ByteString
  <2>1. SUFFICES ASSUME Wrong # {} PROVE FALSE
    BY <2>0
  <2>2. PICK k \in Wrong : \A j \in Wrong : k <= j
    <3>1. Wrong \in SUBSET Nat
      OBVIOUS
    <3> HIDE DEF Wrong
    <3> QED
      BY <2>1, <3>1, Least
  <2>3. PICK x \in ByteString : Len(x) = k /\ Consumed[x].n \notin Nat
    BY <2>2
  <2>4. CASE Paired(x)
    <3> DEFINE n == Both(x)
               tail == From(x, 1 + n)
    <3>1. n \in 2..Len(x) /\ Len(x) \in Nat
      BY <2>0, <2>4, NumberFacts
    <3>2. Consumed[x] = AfterSegment(n, Consumed[tail])
      BY <2>4, ConsumedStep
    <3> HIDE DEF n
    <3>3. tail \in ByteString /\ Len(tail) = Len(x) - n /\ Len(tail) \in Nat
      <4>1. 1 + n \in 1..(Len(x) + 1) /\ Len(x) - (1 + n) + 1 = Len(x) - n
        BY <3>1
      <4> QED
        BY <4>1, FromFacts DEF ByteString
    <3> HIDE DEF tail
    <3>4. Consumed[tail].n \in Nat
      <4>1. ASSUME Consumed[tail].n \notin Nat PROVE FALSE
        <5>1. Len(tail) \in Wrong
          BY <3>3, <4>1
        <5> QED
          BY <2>2, <2>3, <3>1, <3>3, <5>1
      <4> QED
        BY <4>1
    <3>5. AfterSegment(n, Consumed[tail]).n \in Nat
      <4> DEFINE t == Consumed[tail]
                 m == n + t.n
      <4>1. m \in Nat /\ t.n \in Nat
        BY <3>1, <3>4
      <4>2. AfterSegment(n, t) = IF t.status # "some" THEN t ELSE Some(0, m)
        BY DEF AfterSegment
      <4> HIDE DEF m, t
      <4>3. AfterSegment(n, t).n \in Nat
        BY <4>1, <4>2, Results
      <4> QED
        BY <4>3 DEF t
    <3> QED
      BY <2>3, <3>2, <3>5
  <2>5. CASE ~Paired(x)
    <3>1. Consumed[x] = Stopped(x)
      BY <2>5, ConsumedStep
    <3>2. NumberOf(x).n \in Nat
      BY NumberFacts
    <3>3. Stopped(x).n \in Nat
      BY <3>2, Results DEF Stopped
    <3> QED
      BY <2>3, <3>1, <3>3
  <2> QED
    BY <2>4, <2>5
<1> DEFINE i == Consumed[bytes].n
           some == Some(SubSeq(bytes, 1, i), i)
<1>2. i \in Nat /\ some.n = i
  BY <1>1, Results
<1>3. from_bytes(bytes) = IF Consumed[bytes].status # "some" THEN Consumed[bytes]
                          ELSE IF i = 0 THEN Nothing ELSE some
  BY DEF from_bytes
<1> HIDE DEF some
<1> QED
  BY <1>2, <1>3, Results
-----------------------------------------------------------------------------
(* PathReader *)

\* PathReader::read_field stops at the first delimiter or at the end
LEMMA FieldLengthFacts ==
  ASSUME NEW bytes \in ByteString
  PROVE  /\ FieldLength(bytes) \in 0..Len(bytes)
         /\ \A i \in 1..FieldLength(bytes) : bytes[i] # 0
         /\ FieldLength(bytes) < Len(bytes) => bytes[FieldLength(bytes) + 1] = 0
<1> DEFINE len == Len(bytes)
           Ends == {n \in 0..len : n < len => bytes[n + 1] = 0}
           P(n) == (\A i \in 1..n : bytes[i] # DELIMITER) /\ (n < len => bytes[n + 1] = DELIMITER)
<1>1. len \in Nat
  BY LenProperties DEF ByteString
<1> HIDE DEF len
<1>2. PICK n \in Ends : \A m \in Ends : n <= m
  <2>1. len \in Ends /\ Ends \in SUBSET Nat
    BY <1>1
  <2> HIDE DEF Ends
  <2> QED
    BY <2>1, Least
<1>3. ASSUME NEW i \in 1..n PROVE bytes[i] # 0
  <2>1. CASE bytes[i] = 0
    <3>1. i - 1 \in 0..len /\ i - 1 + 1 = i /\ i - 1 < n
      BY <1>1
    <3>2. i - 1 \in Ends
      BY <2>1, <3>1
    <3> QED
      BY <1>2, <3>1, <3>2
  <2> QED
    BY <2>1
<1>4. n \in 0..len /\ P(n)
  BY <1>2, <1>3 DEF DELIMITER
<1> DEFINE f == CHOOSE m \in 0..len : P(m)
<1>5. f \in 0..len /\ P(f)
  <2> HIDE DEF P
  <2> QED
    BY <1>4
<1>6. FieldLength(bytes) = f
  BY DEF FieldLength, len
<1> HIDE DEF f
<1> QED
  BY <1>5, <1>6 DEF len, DELIMITER

\* A segment and how many bytes were read
Item(segment, n) == [segment |-> segment, n |-> n]

\* Its parts
LEMMA ItemFacts ==
  \A segment, n : Item(segment, n).segment = segment /\ Item(segment, n).n = n
BY DEF Item

\* A distinction of tags
ByTag(r, tag, a, b, c, d, e, f) ==
  r = CASE tag = 31 -> a [] tag = 30 -> b [] tag = 29 -> c
        [] tag \in 1..16 -> d [] tag \in 17..28 -> e [] OTHER -> f

\* The distinction, case by case
EachTag(r, tag, a, b, c, d, e, f) ==
  /\ tag = 31 => r = a
  /\ tag = 30 => r = b
  /\ tag = 29 => r = c
  /\ tag \in 1..16 => r = d
  /\ tag \in 17..28 => r = e
  /\ tag = 0 \/ tag >= 32 => r = f

\* Its cases exclude each other
LEMMA TagCases ==
  ASSUME NEW tag \in 0..255, NEW a, NEW b, NEW c, NEW d, NEW e, NEW f, NEW r,
         ByTag(r, tag, a, b, c, d, e, f)
  PROVE  EachTag(r, tag, a, b, c, d, e, f)
<1> USE DEF ByTag, EachTag
<1>1. CASE tag \in 1..16
  BY <1>1
<1>2. CASE tag \in 17..28
  BY <1>2
<1>3. CASE tag = 0 \/ tag >= 32
  BY <1>3
<1>4. CASE tag \in {29, 30, 31}
  BY <1>4
<1> QED
  BY <1>1, <1>2, <1>3, <1>4

\* What r, the result of read, is for each value of the tag
Cases(r, buf, tag, rest, index, end_index, len, err) ==
  /\ buf[1] # 0 => r = err
  /\ buf[1] = 0 /\ tag = 31 =>
       r = IF end_index.status # "some" THEN err
           ELSE Item(<<"chunked", <<end_index.value>>>>, 2 + end_index.n)
  /\ buf[1] = 0 /\ tag = 30 => r = Item(<<"lww", <<>>>>, Len(buf))
  /\ buf[1] = 0 /\ tag = 29 =>
       r = IF Len(rest) # 4 THEN err ELSE Item(<<"counter", <<Value[rest]>>>>, Len(buf))
  /\ buf[1] = 0 /\ tag \in 1..16 =>
       r = IF index.status # "some" THEN err ELSE Item(<<"index", index.value>>, 1 + index.n)
  /\ buf[1] = 0 /\ tag \in 17..28 => r = err
  /\ buf[1] = 0 /\ (tag = 0 \/ tag >= 32) =>
       r = Item(<<"field", SubSeq(buf, 2, 1 + len)>>, 1 + len)

\* The definition of read
LEMMA ReadCases ==
  ASSUME NEW buf, buf[2] \in 0..255
  PROVE  Cases(read(buf), buf, buf[2], From(buf, 3), from_bytes(From(buf, 2)),
               read_from(From(buf, 3), 8), FieldLength(From(buf, 2)),
               Item(<<"error", <<>>>>, Len(buf)))
<1> DEFINE tag == buf[2]
           rest == From(buf, 3)
           index == from_bytes(From(buf, 2))
           end_index == read_from(rest, 8)
           len == FieldLength(From(buf, 2))
           err == Item(<<"error", <<>>>>, Len(buf))
           chunked == Item(<<"chunked", <<end_index.value>>>>, 2 + end_index.n)
           last == Item(<<"lww", <<>>>>, Len(buf))
           count == Item(<<"counter", <<Value[rest]>>>>, Len(buf))
           item == Item(<<"index", index.value>>, 1 + index.n)
           field == Item(<<"field", SubSeq(buf, 2, 1 + len)>>, 1 + len)
           a == IF end_index.status # "some" THEN err ELSE chunked
           c == IF Len(rest) # 4 THEN err ELSE count
           d == IF index.status # "some" THEN err ELSE item
           r == read(buf)
<1>1. IF buf[1] # 0 THEN r = err ELSE ByTag(r, tag, a, last, c, d, err, field)
  BY DEF read, Item, DELIMITER, TERMINATOR_CHUNKED, TERMINATOR_LWW, TERMINATOR_COUNTER, ByTag
<1>2. tag \in 0..255
  OBVIOUS
<1> HIDE DEF tag, a, last, c, d, err, field, r
<1>3. CASE buf[1] # 0
  BY <1>1, <1>3, Zenon DEF Cases, r, err, tag, rest, index, end_index, len
<1>4. CASE buf[1] = 0
  <2>1. ByTag(r, tag, a, last, c, d, err, field)
    BY <1>1, <1>4
  <2>2. EachTag(r, tag, a, last, c, d, err, field)
    BY <1>2, <2>1, TagCases
  <2> QED
    BY <1>4, <2>2, Zenon DEF EachTag, Cases, chunked, last, count, item, field, a, c, d, r,
       err, tag, rest, index, end_index, len
<1> QED
  BY <1>3, <1>4

\* PathReader::next makes progress
LEMMA ReadProgress ==
  ASSUME NEW buf \in ByteString, ~(Len(buf) < 2)
  PROVE  read(buf).n \in Nat /\ read(buf).n >= 1
<1> DEFINE tag == buf[2]
           rest == From(buf, 3)
           index == from_bytes(From(buf, 2))
           end_index == read_from(rest, 8)
           len == FieldLength(From(buf, 2))
           err == Item(<<"error", <<>>>>, Len(buf))
           r == read(buf)
           n == Len(buf)
<1>1. n \in Nat /\ n >= 2
  BY LenProperties DEF ByteString
<1>2. tag \in 0..255
  <2>1. 2 \in 1..Len(buf)
    BY <1>1
  <2> QED
    BY <2>1, ElementOfSeq DEF ByteString
<1>3. rest \in ByteString /\ From(buf, 2) \in ByteString
  BY FromAny DEF ByteString
<1>4. end_index.n \in Nat /\ index.n \in Nat /\ len \in Nat
  <2>1. end_index.n \in Nat
    <3> HIDE DEF rest
    <3> QED
      BY <1>3, ReadFromStatus
  <2>2. index.n \in Nat
    BY <1>3, FromBytesFacts
  <2>3. len \in Nat
    <3> DEFINE b == From(buf, 2)
    <3>1. b \in ByteString
      BY <1>3
    <3> HIDE DEF b
    <3>2. FieldLength(b) \in 0..Len(b)
      BY <3>1, FieldLengthFacts
    <3> QED
      BY <3>2 DEF b
  <2> QED
    BY <2>1, <2>2, <2>3
<1>5. Cases(r, buf, tag, rest, index, end_index, len, err)
  BY <1>2, ReadCases
<1> HIDE DEF index, end_index, len, err, r, n, tag
<1>6. \E s : \/ r = Item(s, n) \/ r = Item(s, 2 + end_index.n) \/ r = Item(s, 1 + index.n)
             \/ r = Item(s, 1 + len)
  <2>1. tag \in 1..16 \/ tag \in 17..28 \/ tag = 29 \/ tag = 30 \/ tag = 31 \/ tag = 0 \/ tag >= 32
    BY <1>2
  <2> QED
    BY <1>5, <2>1, Zenon DEF Cases, err, n
<1>7. PICK s : \/ r = Item(s, n) \/ r = Item(s, 2 + end_index.n) \/ r = Item(s, 1 + index.n)
               \/ r = Item(s, 1 + len)
  BY <1>6
<1>8. r.n = n \/ r.n = 2 + end_index.n \/ r.n = 1 + index.n \/ r.n = 1 + len
  <2> DEFINE a == 2 + end_index.n
             b == 1 + index.n
             c == 1 + len
  <2>1. r = Item(s, n) \/ r = Item(s, a) \/ r = Item(s, b) \/ r = Item(s, c)
    BY <1>7
  <2> HIDE DEF a, b, c
  <2>2. r.n = n \/ r.n = a \/ r.n = b \/ r.n = c
    BY <2>1, ItemFacts
  <2> QED
    BY <2>2 DEF a, b, c
<1>9. r.n \in Nat /\ r.n >= 1
  BY <1>1, <1>4, <1>8
<1> QED
  BY <1>9 DEF r

\* The definition of Read is satisfied
LEMMA ReadStep ==
  ASSUME NEW buf \in ByteString
  PROVE  Read[buf] = IF Len(buf) < 2 THEN <<>>
                     ELSE <<read(buf).segment>> \o Read[From(buf, 1 + read(buf).n)]
<1> DEFINE S == {read(b).segment : b \in ByteString}
           V == Seq(S)
           stop == {b \in ByteString : Len(b) < 2}
           next == [b \in ByteString |-> IF Len(b) < 2 THEN b ELSE From(b, 1 + read(b).n)]
           base == [b \in ByteString |-> <<>>]
           comb == [p \in ByteString \X V |-> <<read(p[1]).segment>> \o p[2]]
<1>1. ASSUME NEW b \in ByteString, ~(Len(b) < 2)
      PROVE  From(b, 1 + read(b).n) \in ByteString /\ Len(From(b, 1 + read(b).n)) < Len(b)
  <2> DEFINE i == 1 + read(b).n
  <2>1. i \in Nat /\ i >= 1 /\ i > 1
    <3>1. read(b).n \in Nat /\ read(b).n >= 1
      BY <1>1, ReadProgress
    <3> QED
      BY <3>1
  <2>2. b # <<>>
    BY <1>1, EmptySeq
  <2> HIDE DEF i
  <2>3. From(b, i) \in ByteString /\ Len(From(b, i)) < Len(b)
    BY <2>1, <2>2, FromAny DEF ByteString
  <2> QED
    BY <2>3 DEF i
<1>2. Length \in [ByteString -> Nat] /\ next \in [ByteString -> ByteString]
  BY <1>1, LenProperties DEF Length, ByteString
<1>3. base \in [ByteString -> V]
  <2>1. <<>> \in V
    BY EmptySeq
  <2> HIDE DEF V
  <2> QED
    BY <2>1
<1>4. comb \in [ByteString \X V -> V]
  <2>1. ASSUME NEW p \in ByteString \X V PROVE <<read(p[1]).segment>> \o p[2] \in V
    <3> DEFINE s == read(p[1]).segment
               q == p[2]
    <3>1. s \in S /\ q \in Seq(S)
      OBVIOUS
    <3> HIDE DEF s, S, q
    <3>2. <<s>> \in Seq(S)
      BY <3>1
    <3> DEFINE t == <<s>>
    <3> HIDE DEF t
    <3>3. t \in Seq(S)
      BY <3>2 DEF t
    <3>4. t \o q \in Seq(S)
      BY <3>1, <3>3, ConcatProperties
    <3> QED
      BY <3>4 DEF t, s, q
  <2> HIDE DEF V
  <2> QED
    BY <2>1
<1>5. \A b \in ByteString : b \notin stop => Length[next[b]] < Length[b]
  <2>1. ASSUME NEW b \in ByteString, b \notin stop PROVE Length[next[b]] < Length[b]
    <3>1. ~(Len(b) < 2) /\ next[b] = From(b, 1 + read(b).n)
      BY <2>1
    <3>2. next[b] \in ByteString /\ Len(next[b]) < Len(b)
      BY <1>1, <3>1
    <3> HIDE DEF next
    <3> QED
      BY <3>2 DEF Length
  <2> QED
    BY <2>1
<1> HIDE DEF V
<1>6. Descends(ByteString, V, Length, next, stop, base, comb)
  <2> HIDE DEF next, base, comb, stop
  <2> QED
    BY <1>2, <1>3, <1>4, <1>5 DEF Descends
<1>7. PICK f : Solves(f, ByteString, V, next, stop, base, comb)
  <2> HIDE DEF next, base, comb, stop
  <2> QED
    BY <1>6, Recursion
<1>8. f \in [ByteString -> V]
  BY <1>7 DEF Solves
<1>9. ASSUME NEW b \in ByteString
      PROVE  f[b] = IF Len(b) < 2 THEN <<>>
                    ELSE <<read(b).segment>> \o f[From(b, 1 + read(b).n)]
  <2>1. f[b] = Calls(f, b, next, stop, base, comb)
    BY <1>7 DEF Solves
  <2>2. CASE Len(b) < 2
    <3>1. b \in stop /\ base[b] = <<>>
      BY <2>2
    <3> HIDE DEF base, stop
    <3> QED
      BY <2>1, <2>2, <3>1 DEF Calls
  <2>3. CASE ~(Len(b) < 2)
    <3>1. b \notin stop /\ next[b] = From(b, 1 + read(b).n) /\ next[b] \in ByteString
      BY <1>1, <2>3
    <3> HIDE DEF next
    <3>2. f[next[b]] \in V
      BY <1>8, <3>1
    <3>3. comb[<<b, f[next[b]]>>] = <<read(b).segment>> \o f[next[b]]
      BY <3>2
    <3> HIDE DEF comb, stop
    <3> QED
      BY <2>1, <2>3, <3>1, <3>3 DEF Calls
  <2> QED
    BY <2>2, <2>3
<1>10. f = [b \in ByteString |-> IF Len(b) < 2 THEN <<>>
              ELSE LET r == read(b) IN <<r.segment>> \o f[From(b, 1 + r.n)]]
  BY <1>8, <1>9
<1>11. Read = [b \in ByteString |-> IF Len(b) < 2 THEN <<>>
              ELSE LET r == read(b) IN <<r.segment>> \o Read[From(b, 1 + r.n)]]
  BY <1>10, Zenon DEF Read
<1> QED
  BY <1>11, Zenon
\* A part of the second half of a concatenation
LEMMA SubSeqSecond ==
  ASSUME NEW S, NEW s \in Seq(S), NEW t \in Seq(S), NEW c, c = s \o t,
         NEW i \in Nat, i >= 1, NEW j \in Nat, j <= Len(t)
  PROVE  SubSeq(c, Len(s) + i, Len(s) + j) = SubSeq(t, i, j)
<1> DEFINE n == Len(s)
           m == Len(t)
<1>1. n \in Nat /\ m \in Nat /\ j <= m
  BY LenProperties
<1>2. CASE i <= j
  <2>1. n + i \in n + 1 .. n + m /\ n + j \in n + 1 .. n + m /\ n + i - n = i /\ n + j - n = j
    <3> HIDE DEF n, m
    <3> QED
      BY <1>1, <1>2
  <2>2. SubSeq(s \o t, n + i, n + j) = SubSeq(t, n + i - n, n + j - n)
    BY <2>1, SubSeqOfConcat2
  <2> HIDE DEF n
  <2> QED
    BY <2>1, <2>2 DEF n
<1>3. CASE ~(i <= j)
  <2> HIDE DEF n, m
  <2>1. n + i \in Int /\ n + j \in Int /\ n + j < n + i /\ i \in Int /\ j \in Int /\ j < i
    BY <1>1, <1>3
  <2>2. SubSeq(c, n + i, n + j) = <<>> /\ SubSeq(t, i, j) = <<>>
    BY <2>1, SubSeqEmpty
  <2> QED
    BY <2>2 DEF n
<1> QED
  BY <1>2, <1>3

\* Bytes after a delimiter
Delim(body) == <<DELIMITER>> \o body

\* A buffer that starts with a delimiter
LEMMA DelimFacts ==
  ASSUME NEW body \in ByteString, body # <<>>
  PROVE  /\ Delim(body) \in ByteString /\ Len(Delim(body)) = 1 + Len(body)
         /\ ~(Len(Delim(body)) < 2)
         /\ Delim(body)[1] = 0 /\ Delim(body)[2] = body[1] /\ Delim(body)[2] \in 0..255
         /\ From(Delim(body), 2) = body
         /\ \A i \in 1..(Len(body) + 1) : From(Delim(body), 1 + i) = From(body, i)
         /\ \A i \in 0..Len(body) : SubSeq(Delim(body), 2, 1 + i) = SubSeq(body, 1, i)
<1> DEFINE d == <<0>>
           n == Len(body)
           buf == Delim(body)
<1>1. d \in Seq(0..255) /\ Len(d) = 1 /\ d[1] = 0 /\ body \in Seq(0..255) /\ buf = d \o body
  BY DEF ByteString, Delim, DELIMITER
<1>2. n \in Nat /\ n >= 1 /\ body[1] \in 0..255
  BY FirstByte
<1> HIDE DEF d, n, buf
<1>3. /\ buf \in Seq(0..255) /\ Len(buf) = 1 + n
      /\ \A i \in 1..1 : buf[i] = d[i]
      /\ \A i \in 1..n : buf[1 + i] = body[i]
  <2>1. /\ buf \in Seq(0..255) /\ Len(buf) = Len(d) + Len(body)
        /\ \A i \in 1..Len(d) : buf[i] = d[i]
        /\ \A i \in 1..Len(body) : buf[Len(d) + i] = body[i]
    <3>1. d \in Seq(0..255) /\ body \in Seq(0..255) /\ buf = d \o body
      BY <1>1
    <3> QED
      BY <3>1, ConcatFacts
  <2>2. Len(d) = 1
    BY <1>1
  <2> QED
    BY <2>1, <2>2, Zenon DEF n
<1>4. buf[1] = 0 /\ buf[2] = body[1]
  <2>1. 1 \in 1..1 /\ 1 \in 1..n /\ 1 + 1 = 2
    BY <1>2
  <2>2. buf[1] = d[1]
    BY <1>3, <2>1
  <2>3. buf[1 + 1] = body[1]
    BY <1>3, <2>1, Zenon
  <2> QED
    BY <1>1, <2>1, <2>2, <2>3
<1>5. ASSUME NEW i \in Nat, i >= 1, NEW j \in Nat, j <= n
      PROVE  SubSeq(buf, 1 + i, 1 + j) = SubSeq(body, i, j)
  <2>1. SubSeq(buf, Len(d) + i, Len(d) + j) = SubSeq(body, i, j)
    <3>1. d \in Seq(0..255) /\ body \in Seq(0..255) /\ buf = d \o body /\ j <= Len(body)
      BY <1>1, <1>5 DEF n
    <3> QED
      BY <1>5, <3>1, SubSeqSecond
  <2> QED
    BY <1>1, <2>1
<1>6. ASSUME NEW i \in 1..(n + 1) PROVE From(buf, 1 + i) = From(body, i)
  <2>1. i \in Nat /\ i >= 1 /\ n <= n
    BY <1>2
  <2>2. SubSeq(buf, 1 + i, 1 + n) = SubSeq(body, i, n)
    BY <1>2, <1>5, <2>1
  <2> QED
    BY <1>3, <2>2 DEF From, n
<1>7. ASSUME NEW i \in 0..n PROVE SubSeq(buf, 2, 1 + i) = SubSeq(body, 1, i)
  <2>1. 1 \in Nat /\ 1 >= 1 /\ i \in Nat /\ i <= n /\ 1 + 1 = 2
    BY <1>2
  <2>2. SubSeq(buf, 1 + 1, 1 + i) = SubSeq(body, 1, i)
    BY <1>5, <2>1
  <2> QED
    BY <2>1, <2>2
<1>8. From(buf, 2) = body
  <2>1. SubSeq(body, 1, n) = body
    BY SubSeqFull DEF n, ByteString
  <2>2. n \in 0..n
    BY <1>2
  <2>3. SubSeq(buf, 2, 1 + n) = SubSeq(body, 1, n)
    BY <1>7, <2>2
  <2> QED
    BY <1>3, <2>1, <2>3 DEF From
<1>9. ~(Len(buf) < 2)
  BY <1>2, <1>3
<1> QED
  BY <1>2, <1>3, <1>4, <1>6, <1>7, <1>8, <1>9 DEF n, buf, ByteString

\* The length of a field is found by its delimiter
LEMMA FieldLengthField ==
  ASSUME NEW f \in ByteString, IsField(f), NEW next \in ByteString, next # <<>>, next[1] = 0
  PROVE  FieldLength(f \o next) = Len(f)
<1> DEFINE c == f \o next
           n == Len(f)
           m == Len(next)
           l == FieldLength(c)
<1>1. /\ c \in ByteString /\ Len(c) = n + m /\ n \in Nat
      /\ \A i \in 1..n : c[i] = f[i]
      /\ \A i \in 1..m : c[n + i] = next[i]
  BY ConcatFacts DEF ByteString
<1>2. m \in Nat /\ m >= 1
  BY FirstByte
<1>3. \A i \in 1..n : f[i] >= 32
  <2>1. DOMAIN f = 1..n
    BY LenProperties DEF ByteString
  <2> QED
    BY <2>1 DEF IsField
<1> HIDE DEF c, n, m
<1>4. /\ l \in 0..(n + m)
      /\ \A i \in 1..l : c[i] # 0
      /\ l < n + m => c[l + 1] = 0
  BY <1>1, FieldLengthFacts
<1> HIDE DEF l
<1>5. c[n + 1] = 0
  <2>1. 1 \in 1..m
    BY <1>2
  <2> QED
    BY <1>1, <2>1
<1>6. ~(l > n)
  <2>1. l > n => n + 1 \in 1..l
    BY <1>1, <1>4
  <2> QED
    BY <1>4, <1>5, <2>1
<1>7. ~(l < n)
  <2>1. ASSUME l < n PROVE FALSE
    <3>1. l + 1 \in 1..n /\ l < n + m
      BY <1>1, <1>2, <1>4, <2>1
    <3>2. c[l + 1] = 0 /\ c[l + 1] = f[l + 1] /\ f[l + 1] >= 32
      BY <1>1, <1>3, <1>4, <3>1
    <3> QED
      BY <3>2
  <2> QED
    BY <2>1
<1>8. l = n
  BY <1>1, <1>2, <1>4, <1>6, <1>7
<1> QED
  BY <1>8 DEF l, n, c
\* What a delimiter starts
Delimiting == {b \in ByteString : b # <<>> /\ b[1] = 0}

\* Bytes and the delimiter after them
LEMMA Followed ==
  ASSUME NEW b \in ByteString, NEW next \in Delimiting
  PROVE  /\ b \o next \in ByteString /\ b \o next # <<>>
         /\ (b \o next)[1] = IF b = <<>> THEN 0 ELSE b[1]
         /\ Len(b \o next) \in Nat /\ Len(b) \in 0..Len(b \o next)
         /\ From(b \o next, Len(b) + 1) = next /\ SubSeq(b \o next, 1, Len(b)) = b
<1> DEFINE c == b \o next
           n == Len(b)
           m == Len(next)
<1>0. next \in ByteString /\ next # <<>> /\ next[1] = 0
  BY DEF Delimiting
<1>1. /\ c \in ByteString /\ Len(c) = n + m /\ n \in Nat
      /\ \A i \in 1..n : c[i] = b[i]
      /\ \A i \in 1..m : c[n + i] = next[i]
  BY <1>0, ConcatFacts DEF ByteString
<1>2. m \in Nat /\ m >= 1
  BY <1>0, FirstByte
<1>3. From(c, n + 1) = next /\ SubSeq(c, 1, n) = b
  BY <1>0, ConcatParts DEF ByteString
<1>4. c # <<>>
  <2> HIDE DEF c, n, m
  <2> QED
    BY <1>1, <1>2, EmptySeq
<1>5. c[1] = IF b = <<>> THEN 0 ELSE b[1]
  <2>1. CASE b = <<>>
    BY <1>0, <2>1, ConcatEmptySeq DEF ByteString
  <2>2. CASE b # <<>>
    <3>1. 1 \in 1..n
      BY <2>2, FirstByte
    <3> HIDE DEF c, n
    <3> QED
      BY <1>1, <2>2, <3>1
  <2> QED
    BY <2>1, <2>2
<1>6. Len(c) \in Nat /\ n \in 0..Len(c)
  <2> HIDE DEF c, n, m
  <2> QED
    BY <1>1, <1>2
<1> QED
  BY <1>1, <1>3, <1>4, <1>5, <1>6

\* PathReader reads a field back
LEMMA ReadField ==
  ASSUME NEW f \in ByteString, IsField(f), NEW next \in Delimiting
  PROVE  read(Delim(f \o next)) = Item(<<"field", f>>, 1 + Len(f))
<1> DEFINE body == f \o next
           buf == Delim(body)
           n == Len(f)
           tag == buf[2]
           rest == From(buf, 3)
           index == from_bytes(From(buf, 2))
           end_index == read_from(rest, 8)
           len == FieldLength(From(buf, 2))
           err == Item(<<"error", <<>>>>, Len(buf))
<1>1. /\ body \in ByteString /\ body # <<>> /\ body[1] = IF f = <<>> THEN 0 ELSE f[1]
      /\ n \in 0..Len(body) /\ SubSeq(body, 1, n) = f
  BY Followed
<1>2. FieldLength(body) = n
  BY FieldLengthField DEF Delimiting
<1>3. f # <<>> => f[1] >= 32
  <2>1. f # <<>> => 1 \in 1..Len(f)
    BY FirstByte
  <2>2. DOMAIN f = 1..Len(f)
    BY LenProperties DEF ByteString
  <2> QED
    BY <2>1, <2>2 DEF IsField
<1> HIDE DEF body, n
<1>4. /\ buf \in ByteString /\ buf[1] = 0 /\ buf[2] = body[1] /\ buf[2] \in 0..255
      /\ From(buf, 2) = body /\ SubSeq(buf, 2, 1 + n) = SubSeq(body, 1, n)
  BY <1>1, DelimFacts
<1>5. Cases(read(buf), buf, tag, rest, index, end_index, len, err)
  BY <1>4, ReadCases
<1>6. tag = 0 \/ tag >= 32
  BY <1>1, <1>3, <1>4
<1>7. len = n
  BY <1>2, <1>4
<1> HIDE DEF buf, tag, rest, index, end_index, len, err
<1>8. read(buf) = Item(<<"field", SubSeq(buf, 2, 1 + len)>>, 1 + len)
  BY <1>4, <1>5, <1>6, Zenon DEF Cases
<1> QED
  BY <1>1, <1>4, <1>7, <1>8, Zenon DEF buf, body, n

\* A byte that is the length of a pid
LEMMA PidLength ==
  ASSUME NEW x \in 0..255, x <= 4, x # 0
  PROVE  x \in 1..16
  OBVIOUS

\* The first byte of an index is the length of a pid
LEMMA IndexTag ==
  ASSUME NEW b \in ByteString, is_valid[b], b # <<>>
  PROVE  b[1] \in 1..16
<1>1. Paired(b)
  BY ValidStep
<1>2. Readable(b, 4)
  BY <1>1, ReadFromStatus DEF Paired, PidOf
<1>3. b[1] \in 0..255 /\ b[1] <= 4
  BY <1>2, FirstByte DEF Readable
<1>4. b[1] # 0
  BY <1>1, DelimiterStops
<1> QED
  BY <1>3, <1>4, PidLength, Zenon

\* PathReader reads an index back
LEMMA ReadIndex ==
  ASSUME NEW b \in ByteString, is_valid[b], b # <<>>, NEW next \in Delimiting
  PROVE  read(Delim(b \o next)) = Item(<<"index", b>>, 1 + Len(b))
<1> DEFINE body == b \o next
           buf == Delim(body)
           n == Len(b)
           tag == buf[2]
           rest == From(buf, 3)
           index == from_bytes(From(buf, 2))
           end_index == read_from(rest, 8)
           len == FieldLength(From(buf, 2))
           err == Item(<<"error", <<>>>>, Len(buf))
<1>1. /\ body \in ByteString /\ body # <<>> /\ body[1] = IF b = <<>> THEN 0 ELSE b[1]
  BY Followed
<1>2. from_bytes(body) = Some(b, n)
  BY FromBytesIndex DEF Delimiting
<1>3. b[1] \in 1..16
  BY IndexTag
<1> HIDE DEF body, n
<1>4. /\ buf[1] = 0 /\ buf[2] = body[1] /\ buf[2] \in 0..255 /\ From(buf, 2) = body
  BY <1>1, DelimFacts
<1>5. Cases(read(buf), buf, tag, rest, index, end_index, len, err)
  BY <1>4, ReadCases
<1>6. tag \in 1..16
  BY <1>1, <1>3, <1>4
<1>7. index = Some(b, n)
  BY <1>2, <1>4
<1> HIDE DEF buf, tag, rest, index, end_index, len, err
<1>8. read(buf) = IF index.status # "some" THEN err ELSE Item(<<"index", index.value>>, 1 + index.n)
  BY <1>4, <1>5, <1>6, Zenon DEF Cases
<1>9. index.status = "some" /\ index.value = b /\ index.n = n
  BY <1>7, Results
<1>10. read(buf) = Item(<<"index", b>>, 1 + n)
  BY <1>8, <1>9, Zenon
<1> QED
  BY <1>10 DEF buf, body, n

\* The segments a path may contain before its terminator
Plain ==
  {<<"field", f>> : f \in {b \in ByteString : IsField(b)}}
    \cup {<<"index", i>> : i \in {b \in ByteString : is_valid[b] /\ b # <<>>}}

\* One such segment is read, then what follows
LEMMA ReadPlain ==
  ASSUME NEW s \in Plain, NEW next \in Delimiting
  PROVE  Read[Delim(s[2] \o next)] = <<s>> \o Read[next]
<1> DEFINE b == s[2]
           body == b \o next
           buf == Delim(body)
           n == Len(b)
<1>1. b \in ByteString /\ read(buf) = Item(s, 1 + n)
  <2>1. CASE s \in {<<"field", f>> : f \in {x \in ByteString : IsField(x)}}
    <3>1. PICK f \in ByteString : IsField(f) /\ s = <<"field", f>>
      BY <2>1
    <3>2. b = f
      BY <3>1
    <3>3. read(Delim(f \o next)) = Item(<<"field", f>>, 1 + Len(f))
      BY <3>1, ReadField
    <3> QED
      BY <3>1, <3>2, <3>3, Zenon
  <2>2. CASE s \in {<<"index", i>> : i \in {x \in ByteString : is_valid[x] /\ x # <<>>}}
    <3>1. PICK i \in ByteString : is_valid[i] /\ i # <<>> /\ s = <<"index", i>>
      BY <2>2
    <3>2. b = i
      BY <3>1
    <3>3. read(Delim(i \o next)) = Item(<<"index", i>>, 1 + Len(i))
      BY <3>1, ReadIndex
    <3> QED
      BY <3>1, <3>2, <3>3, Zenon
  <2> QED
    BY <2>1, <2>2 DEF Plain
<1> HIDE DEF b
<1>2. /\ body \in ByteString /\ body # <<>> /\ Len(body) \in Nat /\ n \in 0..Len(body)
      /\ From(body, n + 1) = next
  BY <1>1, Followed
<1> HIDE DEF body, n
<1>3. /\ buf \in ByteString /\ ~(Len(buf) < 2)
      /\ \A i \in 1..(Len(body) + 1) : From(buf, 1 + i) = From(body, i)
  BY <1>2, DelimFacts
<1>4. From(buf, 1 + (1 + n)) = next
  <2>1. n + 1 \in 1..(Len(body) + 1) /\ 1 + n = n + 1
    BY <1>2
  <2>2. From(buf, 1 + (n + 1)) = From(body, n + 1)
    BY <1>3, <2>1
  <2> QED
    BY <1>2, <2>1, <2>2
<1>5. read(buf).segment = s /\ read(buf).n = 1 + n
  BY <1>1, ItemFacts
<1> HIDE DEF buf
<1>6. Read[buf] = <<read(buf).segment>> \o Read[From(buf, 1 + read(buf).n)]
  BY <1>3, ReadStep
<1> QED
  BY <1>4, <1>5, <1>6, Zenon DEF buf, body, b
-----------------------------------------------------------------------------
(* Terminators *)

\* The bytes of a PID: four, big endian
LEMMA PidBytesFacts ==
  ASSUME NEW pid \in Nat, Fits(pid, 4)
  PROVE  PidBytes(pid) \in ByteString /\ Len(PidBytes(pid)) = 4 /\ Value[PidBytes(pid)] = pid
<1> DEFINE digits == Significant[pid]
           n == Len(digits)
           Zeros(k) == [i \in 1..k |-> 0]
           zeros == Zeros(4 - n)
<1>1. n <= 4
  BY DEF Fits
<1>2. digits \in Seq(0..255) /\ n \in Nat
  BY <1>1, SignificantType, LenProperties DEF ByteString
<1> HIDE DEF digits, n
<1>3. 4 - n \in Nat
  BY <1>1, <1>2
<1>4. \A k \in Nat : Zeros(k) \in Seq(0..255) /\ Len(Zeros(k)) = k
  OBVIOUS
<1>5. ASSUME NEW k \in Nat PROVE Value[Zeros(k)] = 0
  <2> DEFINE Wrong == {j \in Nat : Value[Zeros(j)] # 0}
  <2>1. SUFFICES ASSUME Wrong # {} PROVE FALSE
    OBVIOUS
  <2>2. PICK j \in Wrong : \A i \in Wrong : j <= i
    <3>1. Wrong \in SUBSET Nat
      OBVIOUS
    <3> HIDE DEF Wrong
    <3> QED
      BY <2>1, <3>1, Least
  <2>3. j \in Nat /\ Value[Zeros(j)] # 0
    OBVIOUS
  <2>4. j # 0
    <3>1. Zeros(0) = <<>> /\ <<>> \in ByteString
      BY EmptySeq DEF ByteString
    <3> HIDE DEF Zeros
    <3>2. Value[Zeros(0)] = 0
      BY <3>1, ValueStep
    <3> QED
      BY <2>3, <3>2
  <2>5. j - 1 \in Nat /\ j - 1 \notin Wrong
    <3> HIDE DEF Wrong
    <3>1. j - 1 \in Nat /\ ~(j <= j - 1)
      BY <2>3, <2>4
    <3> QED
      BY <2>2, <3>1
  <2>6. Zeros(j) = Append(Zeros(j - 1), 0)
    <3> DEFINE z == Zeros(j - 1)
               y == Append(z, 0)
    <3>1. z \in Seq(0..255) /\ Len(z) = j - 1 /\ 0 \in 0..255
      BY <1>4, <2>5
    <3>2. \A i \in 1..(j - 1) : z[i] = 0
      BY <2>3
    <3> HIDE DEF z
    <3>3. /\ y \in Seq(0..255) /\ Len(y) = j /\ y[j] = 0
          /\ \A i \in 1..(j - 1) : y[i] = z[i]
      BY <2>3, <2>5, <3>1, AppendProperties
    <3> HIDE DEF y
    <3>4. \A i \in 1..j : y[i] = 0
      BY <2>3, <3>2, <3>3
    <3>5. y = Zeros(j)
      <4>1. Zeros(j) \in Seq(0..255) /\ Len(Zeros(j)) = j /\ \A i \in 1..j : Zeros(j)[i] = 0
        BY <1>4, <2>3
      <4> HIDE DEF Zeros
      <4> QED
        BY <3>3, <3>4, <4>1, SeqEqual
    <3> QED
      BY <3>5 DEF y, z
  <2>7. Value[Append(Zeros(j - 1), 0)] = 256 * Value[Zeros(j - 1)] + 0
    <3>1. Zeros(j - 1) \in ByteString /\ 0 \in 0..255
      BY <1>4, <2>5 DEF ByteString
    <3> HIDE DEF Zeros
    <3> QED
      BY <3>1, ValueAppend, Zenon
  <2>8. Value[Zeros(j - 1)] = 0
    BY <2>5
  <2> HIDE DEF Zeros
  <2> QED
    BY <2>3, <2>6, <2>7, <2>8
<1>6. zeros \in ByteString /\ Len(zeros) = 4 - n /\ Value[zeros] = 0
  <2> HIDE DEF Zeros
  <2> QED
    BY <1>3, <1>4, <1>5 DEF ByteString
<1>7. PidBytes(pid) = zeros \o digits
  BY DEF PidBytes, digits, n
<1> HIDE DEF zeros
<1>8. zeros \o digits \in Seq(0..255) /\ Len(zeros \o digits) = Len(zeros) + Len(digits)
  BY <1>2, <1>6, ConcatProperties DEF ByteString
<1>9. Len(zeros \o digits) = 4
  <2>1. 4 - n + n = 4
    BY <1>2
  <2> QED
    BY <1>6, <1>8, <2>1, Zenon DEF n
<1>10. Value[zeros \o digits] = pid
  BY <1>6, ValueOfSignificant DEF digits
<1> QED
  BY <1>7, <1>8, <1>9, <1>10 DEF ByteString

\* A tag and what follows it
LEMMA TagFacts ==
  ASSUME NEW tag \in 0..255, NEW bytes \in ByteString
  PROVE  /\ <<tag>> \o bytes \in ByteString /\ <<tag>> \o bytes # <<>>
         /\ (<<tag>> \o bytes)[1] = tag /\ From(<<tag>> \o bytes, 2) = bytes
         /\ Len(<<tag>> \o bytes) = 1 + Len(bytes) /\ Len(bytes) \in Nat
         /\ <<DELIMITER, tag>> \o bytes = Delim(<<tag>> \o bytes)
<1> DEFINE t == <<tag>>
           d == <<0>>
           c == t \o bytes
<1>0. d \o t = <<0, tag>>
  <2>1. d \in Seq(0..255) /\ Append(d, tag) = <<0, tag>>
    <3> DEFINE a == Append(d, tag)
               b == <<0, tag>>
    <3>1. d \in Seq(0..255) /\ Len(d) = 1 /\ d[1] = 0
      OBVIOUS
    <3>2. b \in Seq(0..255) /\ Len(b) = 2 /\ b[1] = 0 /\ b[2] = tag
      OBVIOUS
    <3> HIDE DEF d, b
    <3>3. /\ a \in Seq(0..255) /\ Len(a) = Len(d) + 1 /\ a[Len(d) + 1] = tag
          /\ \A i \in 1..Len(d) : a[i] = d[i]
      <4>1. d \in Seq(0..255)
        BY <3>1
      <4> QED
        BY <4>1, AppendProperties
    <3> HIDE DEF a
    <3>4. Len(a) = 2 /\ a[2] = tag /\ a[1] = 0
      BY <3>1, <3>3
    <3>5. \A i \in 1..Len(a) : a[i] = b[i]
      BY <3>2, <3>4
    <3>6. a = b
      BY <3>2, <3>3, <3>4, <3>5, SeqEqual
    <3> QED
      BY <3>1, <3>6 DEF a, b
  <2>2. Append(d, tag) = d \o <<tag>>
    <3> HIDE DEF d
    <3> QED
      BY <2>1, AppendIsConcat
  <2> QED
    BY <2>1, <2>2, Zenon
<1>1. t \in Seq(0..255) /\ Len(t) = 1 /\ t[1] = tag /\ d \in Seq(0..255)
  OBVIOUS
<1> HIDE DEF t, d
<1>2. /\ c \in Seq(0..255) /\ Len(c) = Len(t) + Len(bytes) /\ Len(bytes) \in Nat
      /\ \A i \in 1..Len(t) : c[i] = t[i]
  <2>1. bytes \in Seq(0..255) /\ c = t \o bytes
    BY DEF ByteString
  <2> HIDE DEF c
  <2> QED
    <3>1. t \in Seq(0..255)
      BY <1>1
    <3> QED
      BY <2>1, <3>1, ConcatFacts
<1>3. From(c, Len(t) + 1) = bytes
  BY <1>1, ConcatParts DEF ByteString
<1>4. d \o c = (d \o t) \o bytes
  <2>1. d \in Seq(0..255) /\ t \in Seq(0..255) /\ bytes \in Seq(0..255)
    BY <1>1 DEF ByteString
  <2> QED
    BY <2>1, ConcatAssociative
<1> HIDE DEF c
<1>5. c # <<>> /\ c[1] = tag /\ Len(c) = 1 + Len(bytes) /\ From(c, 2) = bytes
  <2>1. c[1] = tag
    <3>1. 1 \in 1..Len(t)
      BY <1>1
    <3> QED
      BY <1>1, <1>2, <3>1
  <2>2. Len(c) = 1 + Len(bytes) /\ Len(t) + 1 = 2
    BY <1>1, <1>2
  <2>3. c # <<>>
    BY <1>2, <2>2, EmptySeq
  <2> QED
    BY <1>3, <2>1, <2>2, <2>3
<1> QED
  <2>1. <<0, tag>> \o bytes = <<0>> \o c
    BY <1>0, <1>4, Zenon DEF d
  <2>2. c \in ByteString
    BY <1>2 DEF ByteString
  <2> QED
    BY <1>2, <1>5, <2>1, <2>2, Zenon DEF c, t, Delim, DELIMITER

\* A segment that is read to the end is the last one
LEMMA ReadLast ==
  ASSUME NEW body \in ByteString, body # <<>>, NEW s,
         read(Delim(body)) = Item(s, Len(Delim(body)))
  PROVE  Read[Delim(body)] = <<s>> /\ Delim(body) \in Delimiting
<1> DEFINE buf == Delim(body)
           n == Len(buf)
<1>1. buf \in ByteString /\ ~(Len(buf) < 2) /\ buf[1] = 0
  BY DelimFacts
<1>2. read(buf).segment = s /\ read(buf).n = n
  BY ItemFacts
<1>3. n \in Nat /\ ~(n < 2)
  BY <1>1, LenProperties DEF ByteString
<1>4. From(buf, 1 + n) = <<>>
  <2>1. 1 + n \in Int /\ n \in Int /\ n < 1 + n
    <3> HIDE DEF n
    <3> QED
      BY <1>3
  <2> QED
    BY <2>1, SubSeqEmpty DEF From
<1>5. buf # <<>>
  BY <1>3, EmptySeq
<1>6. Read[<<>>] = <<>>
  <2>1. <<>> \in ByteString /\ Len(<<>>) < 2
    BY EmptySeq DEF ByteString
  <2> QED
    BY <2>1, ReadStep
<1> HIDE DEF n, buf
<1>7. Read[buf] = <<read(buf).segment>> \o Read[From(buf, 1 + read(buf).n)]
  BY <1>1, ReadStep
<1>8. <<s>> \o <<>> = <<s>>
  <2>1. <<s>> \in Seq({s})
    OBVIOUS
  <2> QED
    BY <2>1, ConcatEmptySeq
<1> QED
  BY <1>1, <1>2, <1>4, <1>5, <1>6, <1>7, <1>8 DEF buf, Delimiting

\* A last-write-wins terminator is read back
LEMMA ReadLww ==
  LET body == <<TERMINATOR_LWW>>
  IN  Read[Delim(body)] = <<<<"lww", <<>>>>>> /\ Delim(body) \in Delimiting
<1> DEFINE body == <<TERMINATOR_LWW>>
           buf == Delim(body)
           tag == buf[2]
           rest == From(buf, 3)
           index == from_bytes(From(buf, 2))
           end_index == read_from(rest, 8)
           len == FieldLength(From(buf, 2))
           err == Item(<<"error", <<>>>>, Len(buf))
<1>1. body \in ByteString /\ body # <<>> /\ body[1] = 30
  BY DEF ByteString, TERMINATOR_LWW
<1> HIDE DEF body
<1>2. buf[1] = 0 /\ tag = 30
  BY <1>1, DelimFacts
<1>3. Cases(read(buf), buf, tag, rest, index, end_index, len, err)
  BY <1>2, ReadCases
<1> HIDE DEF buf, tag, rest, index, end_index, len, err
<1>4. read(buf) = Item(<<"lww", <<>>>>, Len(buf))
  BY <1>2, <1>3, Zenon DEF Cases
<1> QED
  BY <1>1, <1>4, ReadLast, Zenon DEF buf, body

\* A chunk terminator is read back
LEMMA ReadChunked ==
  ASSUME NEW e \in Nat, Fits(e, 8)
  PROVE  LET body == <<TERMINATOR_CHUNKED>> \o write(e)
         IN  Read[Delim(body)] = <<<<"chunked", <<e>>>>>> /\ Delim(body) \in Delimiting
<1> DEFINE body == <<TERMINATOR_CHUNKED>> \o write(e)
           buf == Delim(body)
           b == write(e)
           tag == buf[2]
           rest == From(buf, 3)
           index == from_bytes(From(buf, 2))
           end_index == read_from(rest, 8)
           len == FieldLength(From(buf, 2))
           err == Item(<<"error", <<>>>>, Len(buf))
<1>0. 8 \in 0..255 /\ TERMINATOR_CHUNKED \in 0..255 /\ TERMINATOR_CHUNKED = 31
  BY DEF TERMINATOR_CHUNKED
<1>1. b \in ByteString
  BY <1>0, WriteType, Zenon
<1>2. /\ body \in ByteString /\ body # <<>> /\ body[1] = 31 /\ From(body, 2) = b
      /\ Len(body) = 1 + Len(b) /\ Len(b) \in Nat
  BY <1>0, <1>1, TagFacts, Zenon
<1>3. read_from(b, 8) = Some(e, Len(b))
  <2>1. <<>> \in ByteString /\ b \o <<>> = b
    BY <1>1, EmptySeq, ConcatEmptySeq DEF ByteString
  <2>2. read_from(b \o <<>>, 8) = Some(e, Len(b))
    BY <1>0, <2>1, ReadFromWrite
  <2> QED
    BY <2>1, <2>2
<1> HIDE DEF body, b
<1>4. /\ buf[1] = 0 /\ tag = 31 /\ Len(buf) = 1 + Len(body)
      /\ \A i \in 1..(Len(body) + 1) : From(buf, 1 + i) = From(body, i)
  BY <1>2, DelimFacts
<1>5. Cases(read(buf), buf, tag, rest, index, end_index, len, err)
  <2>1. buf[2] \in 0..255
    BY <1>4
  <2> QED
    BY <2>1, ReadCases
<1>6. rest = b
  <2>1. 2 \in 1..(Len(body) + 1) /\ 1 + 2 = 3
    BY <1>2
  <2>2. From(buf, 1 + 2) = From(body, 2)
    BY <1>4, <2>1, Zenon
  <2> QED
    BY <1>2, <2>1, <2>2
<1>7. end_index.status = "some" /\ end_index.value = e /\ end_index.n = Len(b)
  <2>1. end_index = Some(e, Len(b))
    BY <1>3, <1>6
  <2> HIDE DEF end_index
  <2> QED
    BY <2>1, Results
<1> HIDE DEF buf, tag, rest, index, end_index, len, err
<1>8. read(buf) = IF end_index.status # "some" THEN err
                  ELSE Item(<<"chunked", <<end_index.value>>>>, 2 + end_index.n)
  BY <1>4, <1>5, Zenon DEF Cases
<1>9. Len(buf) = 2 + Len(b)
  BY <1>2, <1>4
<1>10. read(buf) = Item(<<"chunked", <<e>>>>, Len(buf))
  BY <1>7, <1>8, <1>9, Zenon
<1> QED
  BY <1>2, <1>10, ReadLast, Zenon DEF buf, body, b

\* The counter of a peer is read back
LEMMA ReadCounter ==
  ASSUME NEW pid \in Nat, Fits(pid, 4)
  PROVE  LET body == <<TERMINATOR_COUNTER>> \o PidBytes(pid)
         IN  Read[Delim(body)] = <<<<"counter", <<pid>>>>>> /\ Delim(body) \in Delimiting
<1> DEFINE body == <<TERMINATOR_COUNTER>> \o PidBytes(pid)
           buf == Delim(body)
           b == PidBytes(pid)
           tag == buf[2]
           rest == From(buf, 3)
           index == from_bytes(From(buf, 2))
           end_index == read_from(rest, 8)
           len == FieldLength(From(buf, 2))
           err == Item(<<"error", <<>>>>, Len(buf))
<1>0. TERMINATOR_COUNTER \in 0..255 /\ TERMINATOR_COUNTER = 29
  BY DEF TERMINATOR_COUNTER
<1>1. b \in ByteString /\ Len(b) = 4 /\ Value[b] = pid
  BY PidBytesFacts
<1>2. /\ body \in ByteString /\ body # <<>> /\ body[1] = 29 /\ From(body, 2) = b
      /\ Len(body) = 1 + Len(b) /\ Len(b) \in Nat
  BY <1>0, <1>1, TagFacts, Zenon
<1> HIDE DEF body, b
<1>4. /\ buf[1] = 0 /\ tag = 29 /\ Len(buf) = 1 + Len(body)
      /\ \A i \in 1..(Len(body) + 1) : From(buf, 1 + i) = From(body, i)
  BY <1>2, DelimFacts
<1>5. Cases(read(buf), buf, tag, rest, index, end_index, len, err)
  <2>1. buf[2] \in 0..255
    BY <1>4
  <2> QED
    BY <2>1, ReadCases
<1>6. rest = b
  <2>1. 2 \in 1..(Len(body) + 1) /\ 1 + 2 = 3
    BY <1>2
  <2>2. From(buf, 1 + 2) = From(body, 2)
    BY <1>4, <2>1, Zenon
  <2> QED
    BY <1>2, <2>1, <2>2
<1> HIDE DEF buf, tag, rest, index, end_index, len, err
<1>8. read(buf) = IF Len(rest) # 4 THEN err ELSE Item(<<"counter", <<Value[rest]>>>>, Len(buf))
  BY <1>4, <1>5, Zenon DEF Cases
<1>10. read(buf) = Item(<<"counter", <<pid>>>>, Len(buf))
  BY <1>1, <1>6, <1>8, Zenon
<1> QED
  BY <1>2, <1>10, ReadLast, Zenon DEF buf, body, b
-----------------------------------------------------------------------------
(* Sequences of byte strings *)

\* The equation of the function inside FlattenSeq
Flattened(g, seqs, n) == g = [i \in 1..n |-> IF i = 1 THEN seqs[i] ELSE g[i-1] \o seqs[i]]

\* It has a solution for every length
LEMMA FlattenedExists ==
  ASSUME NEW seqs, NEW n \in Nat
  PROVE  \E g : Flattened(g, seqs, n)
<1> DEFINE Wrong == {m \in Nat : ~\E g : Flattened(g, seqs, m)}
<1>1. SUFFICES ASSUME Wrong # {} PROVE FALSE
  OBVIOUS
<1>2. PICK m \in Wrong : \A j \in Wrong : m <= j
  <2>1. Wrong \in SUBSET Nat
    OBVIOUS
  <2> HIDE DEF Wrong
  <2> QED
    BY <1>1, <2>1, Least
<1>3. m \in Nat /\ ~\E g : Flattened(g, seqs, m)
  OBVIOUS
<1>4. CASE m = 0
  <2> DEFINE g == [i \in 1..0 |-> <<>>]
  <2>1. Flattened(g, seqs, 0)
    BY DEF Flattened
  <2> QED
    BY <1>3, <1>4, <2>1
<1>5. CASE m # 0
  <2>1. m - 1 \in Nat /\ m - 1 \notin Wrong
    BY <1>2, <1>3, <1>5
  <2>2. PICK g : Flattened(g, seqs, m - 1)
    BY <2>1
  <2> DEFINE last == IF m = 1 THEN seqs[m] ELSE g[m-1] \o seqs[m]
             h == [i \in 1..m |-> IF i < m THEN g[i] ELSE last]
  <2>3. ASSUME NEW i \in 1..m
        PROVE  h[i] = IF i = 1 THEN seqs[i] ELSE h[i-1] \o seqs[i]
    <3>1. i # 1 => i - 1 \in 1..m /\ i - 1 < m
      BY <1>3
    <3>2. i # 1 => h[i-1] = g[i-1]
      BY <3>1
    <3>3. CASE i < m
      <4>1. i \in 1..(m - 1)
        BY <1>3, <3>3
      <4>2. g[i] = IF i = 1 THEN seqs[i] ELSE g[i-1] \o seqs[i]
        BY <2>2, <4>1 DEF Flattened
      <4> QED
        BY <3>2, <3>3, <4>2
    <3>4. CASE i = m
      BY <1>3, <3>2, <3>4
    <3> QED
      BY <1>3, <3>3, <3>4
  <2>4. h = [i \in 1..m |-> IF i = 1 THEN seqs[i] ELSE h[i-1] \o seqs[i]]
    BY <2>3
  <2> HIDE DEF h
  <2>5. Flattened(h, seqs, m)
    BY <2>4, Zenon DEF Flattened
  <2> QED
    BY <1>3, <2>5
<1> QED
  BY <1>4, <1>5

\* and it is the value of FlattenSeq
LEMMA FlattenSolution ==
  ASSUME NEW S, NEW seqs \in Seq(S), seqs # <<>>
  PROVE  \E f : Flattened(f, seqs, Len(seqs)) /\ FlattenSeq(seqs) = f[Len(seqs)]
<1> DEFINE f == CHOOSE g : g = [i \in 1..Len(seqs) |-> IF i = 1 THEN seqs[i] ELSE g[i-1] \o seqs[i]]
<1>1. Len(seqs) \in Nat /\ Len(seqs) # 0
  BY LenProperties, EmptySeq
<1>2. FlattenSeq(seqs) = f[Len(seqs)]
  BY <1>1 DEF FlattenSeq
<1>3. \E g : Flattened(g, seqs, Len(seqs))
  BY <1>1, FlattenedExists
<1>4. f = [i \in 1..Len(seqs) |-> IF i = 1 THEN seqs[i] ELSE f[i-1] \o seqs[i]]
  BY <1>3, Zenon DEF Flattened
<1> HIDE DEF f
<1> QED
  BY <1>2, <1>4, Zenon DEF Flattened

\* Solutions for a sequence and a longer one agree
LEMMA FlattenedUnique ==
  ASSUME NEW n \in Nat, NEW m \in Nat, n <= m, NEW s, NEW t, NEW f, NEW g,
         Flattened(f, s, n), Flattened(g, t, m), \A i \in 1..n : s[i] = t[i]
  PROVE  \A i \in 1..n : f[i] = g[i]
<1> DEFINE Wrong == {i \in 1..n : f[i] # g[i]}
<1>1. SUFFICES ASSUME Wrong # {} PROVE FALSE
  OBVIOUS
<1>2. PICK i \in Wrong : \A j \in Wrong : i <= j
  <2>1. Wrong \in SUBSET Nat
    OBVIOUS
  <2> HIDE DEF Wrong
  <2> QED
    BY <1>1, <2>1, Least
<1>3. i \in 1..n /\ i \in 1..m /\ f[i] # g[i]
  BY <1>2
<1>4. /\ f[i] = IF i = 1 THEN s[i] ELSE f[i-1] \o s[i]
      /\ g[i] = IF i = 1 THEN t[i] ELSE g[i-1] \o t[i]
  BY <1>3, Zenon DEF Flattened
<1>5. i # 1 => f[i-1] = g[i-1]
  <2>1. ASSUME i # 1 PROVE i - 1 \in 1..n /\ ~(i <= i - 1)
    BY <1>3, <2>1
  <2> QED
    BY <1>2, <2>1
<1> QED
  BY <1>3, <1>4, <1>5

\* FlattenSeq from the end
LEMMA FlattenAppend ==
  ASSUME NEW seqs \in Seq(ByteString), NEW x \in ByteString
  PROVE  FlattenSeq(Append(seqs, x)) = FlattenSeq(seqs) \o x /\ FlattenSeq(<<>>) = <<>>
<1> DEFINE n == Len(seqs)
           t == Append(seqs, x)
<1>0. FlattenSeq(<<>>) = <<>>
  BY DEF FlattenSeq
<1>1. /\ n \in Nat /\ t \in Seq(ByteString) /\ t # <<>> /\ Len(t) = n + 1
      /\ t[n + 1] = x /\ \A i \in 1..n : t[i] = seqs[i]
  BY LenProperties, AppendProperties
<1> HIDE DEF t
<1>2. PICK g : Flattened(g, t, Len(t)) /\ FlattenSeq(t) = g[Len(t)]
  BY <1>1, FlattenSolution
<1>3. g[n + 1] = IF n + 1 = 1 THEN t[n + 1] ELSE g[n + 1 - 1] \o t[n + 1]
  <2>1. n + 1 \in 1..Len(t)
    BY <1>1
  <2>2. \A i \in 1..Len(t) : g[i] = IF i = 1 THEN t[i] ELSE g[i-1] \o t[i]
    BY <1>2, Zenon DEF Flattened
  <2> DEFINE m == n + 1
  <2>3. m \in 1..Len(t)
    BY <2>1
  <2> HIDE DEF m
  <2>4. g[m] = IF m = 1 THEN t[m] ELSE g[m-1] \o t[m]
    BY <2>2, <2>3, Zenon
  <2> QED
    BY <2>4 DEF m
<1>4. CASE seqs = <<>>
  <2>1. n = 0
    BY <1>4
  <2>2. FlattenSeq(t) = x
    BY <1>1, <1>2, <1>3, <2>1
  <2>3. <<>> \o x = x
    BY ConcatEmptySeq DEF ByteString
  <2> QED
    BY <1>0, <1>4, <2>2, <2>3 DEF t
<1>5. CASE seqs # <<>>
  <2>1. PICK f : Flattened(f, seqs, n) /\ FlattenSeq(seqs) = f[n]
    BY <1>5, FlattenSolution
  <2>2. n # 0
    BY <1>5, EmptySeq
  <2>3. f[n] = g[n]
    <3>1. n <= n + 1 /\ n \in 1..n /\ n + 1 \in Nat
      BY <1>1, <2>2
    <3>2. Flattened(g, t, n + 1)
      BY <1>1, <1>2
    <3>3. \A i \in 1..n : seqs[i] = t[i]
      BY <1>1
    <3> HIDE DEF n
    <3>4. \A i \in 1..n : f[i] = g[i]
      BY <1>1, <2>1, <3>1, <3>2, <3>3, FlattenedUnique
    <3> QED
      BY <3>1, <3>4
  <2>4. n + 1 # 1 /\ n + 1 - 1 = n
    BY <1>1, <2>2
  <2>5. FlattenSeq(t) = g[n] \o x
    BY <1>1, <1>2, <1>3, <2>4
  <2> QED
    BY <1>0, <2>1, <2>3, <2>5 DEF t
<1> QED
  BY <1>4, <1>5

\* The codes of the elements of p, one after the other
Coding(c, p) == FlattenSeq([i \in DOMAIN p |-> c[p[i]]])

\* The code of one more element is added at the end
LEMMA CodingAppend ==
  ASSUME NEW S, NEW c \in [S -> ByteString], NEW p \in Seq(S), NEW x \in S
  PROVE  Coding(c, <<>>) = <<>> /\ Coding(c, Append(p, x)) = Coding(c, p) \o c[x]
<1> DEFINE q == Append(p, x)
           s == [i \in DOMAIN p |-> c[p[i]]]
           t == [i \in DOMAIN q |-> c[q[i]]]
           n == Len(p)
<1>1. /\ n \in Nat /\ q \in Seq(S) /\ Len(q) = n + 1 /\ q[n + 1] = x
      /\ \A i \in 1..n : q[i] = p[i]
      /\ \A i \in 1..n : p[i] \in S
  BY LenProperties, AppendProperties, ElementOfSeq
<1>2. DOMAIN p = 1..n /\ DOMAIN q = 1..(n + 1)
  BY <1>1, LenProperties
<1> HIDE DEF q, n
<1>3. s \in Seq(ByteString) /\ Len(s) = n /\ \A i \in 1..n : s[i] = c[p[i]]
  BY <1>1, <1>2
<1>4. t \in Seq(ByteString) /\ Len(t) = n + 1 /\ \A i \in 1..(n + 1) : t[i] = c[q[i]]
  <2>1. \A i \in 1..(n + 1) : q[i] \in S
    BY <1>1, ElementOfSeq
  <2> QED
    BY <1>1, <1>2, <2>1
<1>5. c[x] \in ByteString
  OBVIOUS
<1>6. t = Append(s, c[x])
  <2> HIDE DEF s, t
  <2> DEFINE y == c[x]
             a == Append(s, y)
  <2>1. y \in ByteString
    BY <1>5
  <2> HIDE DEF y
  <2>2. /\ a \in Seq(ByteString) /\ Len(a) = Len(s) + 1 /\ a[Len(s) + 1] = y
        /\ \A i \in 1..Len(s) : a[i] = s[i]
    <3>1. s \in Seq(ByteString)
      BY <1>3
    <3> QED
      BY <2>1, <3>1, AppendProperties
  <2> HIDE DEF a
  <2>3. Len(a) = n + 1 /\ a[n + 1] = y /\ \A i \in 1..n : a[i] = s[i]
    BY <1>3, <2>2
  <2>4. t[n + 1] = y
    BY <1>1, <1>4 DEF y
  <2>5. \A i \in 1..n : t[i] = s[i]
    BY <1>1, <1>3, <1>4
  <2>6. \A i \in 1..(n + 1) : t[i] = a[i]
    BY <1>1, <2>3, <2>4, <2>5
  <2>7. t = a
    BY <1>4, <2>2, <2>3, <2>6, SeqEqual
  <2> QED
    BY <2>7 DEF a, y
<1>7. FlattenSeq(t) = FlattenSeq(s) \o c[x]
  <2> HIDE DEF s, t
  <2> QED
    BY <1>3, <1>5, <1>6, FlattenAppend
<1>8. Coding(c, <<>>) = <<>>
  <2>1. [i \in DOMAIN <<>> |-> c[<<>>[i]]] = <<>>
    OBVIOUS
  <2>2. FlattenSeq(<<>>) = <<>>
    BY DEF FlattenSeq
  <2> QED
    BY <2>1, <2>2, Zenon DEF Coding
<1> QED
  BY <1>7, <1>8, Zenon DEF Coding, s, t, q

\* A coding is bytes, and that of a concatenation is a concatenation
LEMMA CodingConcat ==
  ASSUME NEW S, NEW c \in [S -> ByteString], NEW p \in Seq(S), NEW q \in Seq(S)
  PROVE  /\ Coding(c, p) \in ByteString /\ Coding(c, q) \in ByteString
         /\ Coding(c, p \o q) = Coding(c, p) \o Coding(c, q)
<1>1. ASSUME NEW s \in Seq(S) PROVE Coding(c, s) \in ByteString
  <2> DEFINE Wrong == {k \in Nat : \E t \in Seq(S) : Len(t) = k /\ Coding(c, t) \notin ByteString}
  <2>0. \A t \in Seq(S) : Len(t) \in Nat
    BY LenProperties
  <2>1. SUFFICES ASSUME Wrong # {} PROVE FALSE
    BY <2>0
  <2>2. PICK k \in Wrong : \A j \in Wrong : k <= j
    <3>1. Wrong \in SUBSET Nat
      OBVIOUS
    <3> HIDE DEF Wrong
    <3> QED
      BY <2>1, <3>1, Least
  <2>3. PICK t \in Seq(S) : Len(t) = k /\ Coding(c, t) \notin ByteString
    BY <2>2
  <2>4. t # <<>>
    <3>1. \A x \in S : Coding(c, <<>>) = <<>>
      BY CodingAppend
    <3>2. [i \in DOMAIN <<>> |-> c[<<>>[i]]] = <<>>
      OBVIOUS
    <3>3. Coding(c, <<>>) = <<>>
      BY <3>2, Zenon DEF Coding, FlattenSeq
    <3> QED
      BY <2>3, <3>3 DEF ByteString
  <2>5. PICK u \in Seq(S), x \in S : t = Append(u, x)
    BY <2>4, SequenceEmptyOrAppend
  <2>6. Len(u) \in Nat /\ Len(u) < k
    BY <2>0, <2>3, <2>5, AppendProperties
  <2>7. Coding(c, u) \in ByteString
    <3>1. Len(u) \notin Wrong
      <4>1. ~(k <= Len(u))
        BY <2>6
      <4> HIDE DEF Wrong
      <4> QED
        BY <2>2, <4>1
    <3> QED
      BY <2>6, <3>1
  <2>8. Coding(c, u) \o c[x] \in ByteString
    BY <2>7, ConcatProperties DEF ByteString
  <2> QED
    BY <2>3, <2>5, <2>8, CodingAppend
<1> DEFINE Bad(t) == Coding(c, p \o t) # Coding(c, p) \o Coding(c, t)
           Wrong == {k \in Nat : \E t \in Seq(S) : Len(t) = k /\ Bad(t)}
<1>2. \A t \in Seq(S) : Len(t) \in Nat
  BY LenProperties
<1>3. SUFFICES ASSUME Wrong # {} PROVE FALSE
  BY <1>1, <1>2
<1>4. PICK k \in Wrong : \A j \in Wrong : k <= j
  <2>1. Wrong \in SUBSET Nat
    OBVIOUS
  <2> HIDE DEF Wrong
  <2> QED
    BY <1>3, <2>1, Least
<1>5. PICK t \in Seq(S) : Len(t) = k /\ Bad(t)
  BY <1>4
<1>6. CASE t = <<>>
  <2>1. p \o t = p /\ Coding(c, p) \o <<>> = Coding(c, p)
    BY <1>1, <1>6, ConcatEmptySeq DEF ByteString
  <2>2. Coding(c, <<>>) = <<>>
    <3>1. [i \in DOMAIN <<>> |-> c[<<>>[i]]] = <<>>
      OBVIOUS
    <3> QED
      BY <3>1, Zenon DEF Coding, FlattenSeq
  <2> QED
    BY <1>5, <1>6, <2>1, <2>2
<1>7. CASE t # <<>>
  <2>1. PICK u \in Seq(S), x \in S : t = Append(u, x)
    BY <1>7, SequenceEmptyOrAppend
  <2>2. Len(u) \in Nat /\ Len(u) < k
    BY <1>2, <1>5, <2>1, AppendProperties
  <2>3. Coding(c, p \o u) = Coding(c, p) \o Coding(c, u)
    <3>1. Len(u) \notin Wrong
      <4>1. ~(k <= Len(u))
        BY <2>2
      <4> HIDE DEF Wrong
      <4> QED
        BY <1>4, <4>1
    <3> QED
      BY <2>2, <3>1
  <2>4. p \o u \in Seq(S) /\ p \o t = Append(p \o u, x)
    <3> DEFINE e == <<x>>
    <3>1. e \in Seq(S) /\ p \o u \in Seq(S)
      BY ConcatProperties
    <3>2. t = u \o e /\ Append(p \o u, x) = (p \o u) \o e
      BY <2>1, <3>1, AppendIsConcat
    <3> HIDE DEF e
    <3>3. (p \o u) \o e = p \o (u \o e)
      <4> HIDE DEF Wrong
      <4> QED
        BY <3>1, ConcatAssociative
    <3> QED
      BY <3>1, <3>2, <3>3
  <2>5. Coding(c, p \o t) = Coding(c, p \o u) \o c[x]
    BY <2>4, CodingAppend
  <2>6. Coding(c, t) = Coding(c, u) \o c[x]
    BY <2>1, CodingAppend
  <2>7. (Coding(c, p) \o Coding(c, u)) \o c[x] = Coding(c, p) \o (Coding(c, u) \o c[x])
    <3>1. Coding(c, p) \in ByteString /\ Coding(c, u) \in ByteString /\ c[x] \in ByteString
      BY <1>1
    <3> HIDE DEF Wrong
    <3> QED
      BY <3>1, Joined
  <2> QED
    BY <1>5, <2>3, <2>5, <2>6, <2>7
<1> QED
  BY <1>6, <1>7
\* A sequence around its k-th element
SplitsAt(S, c, p, k) ==
  /\ SubSeq(p, 1, k - 1) \in Seq(S) /\ From(p, k + 1) \in Seq(S)
  /\ Coding(c, p) = Coding(c, SubSeq(p, 1, k - 1)) \o (c[p[k]] \o Coding(c, From(p, k + 1)))

\* So does the coding of every sequence
LEMMA CodingSplit ==
  ASSUME NEW S, NEW c \in [S -> ByteString], NEW p \in Seq(S), NEW k \in 1..Len(p)
  PROVE  SplitsAt(S, c, p, k)
<1> DEFINE n == Len(p)
           pre == SubSeq(p, 1, k - 1)
           here == SubSeq(p, 1, k)
           post == From(p, k + 1)
           x == p[k]
<1>1. n \in Nat /\ k \in 1..n /\ k \in Nat
  BY LenProperties
<1>2. x \in S
  BY ElementOfSeq
<1>3. /\ pre \in Seq(S) /\ here \in Seq(S) /\ post \in Seq(S)
  <2>1. \A i \in 1..(k - 1) : p[i] \in S
    BY <1>1, ElementOfSeq
  <2>2. \A i \in 1..k : p[i] \in S
    BY <1>1, ElementOfSeq
  <2>3. 1 \in Int /\ k - 1 \in Int /\ k \in Int /\ k + 1 \in Nat /\ k + 1 >= 1
    BY <1>1
  <2>4. pre \in Seq(S)
    BY <2>1, <2>3, SubSeqProperties
  <2>5. here \in Seq(S)
    BY <2>2, <2>3, SubSeqProperties
  <2>6. post \in Seq(S)
    BY <2>3, FromAny
  <2> QED
    BY <2>4, <2>5, <2>6
<1>4. here \o post = p
  <2>1. 1 \in 1..(n + 1) /\ k \in 1 - 1 .. n /\ n \in k..n
    BY <1>1
  <2>2. SubSeq(p, 1, k) \o SubSeq(p, k + 1, n) = SubSeq(p, 1, n)
    BY <2>1, ConcatAdjacentSubSeq
  <2>3. SubSeq(p, 1, n) = p
    BY SubSeqFull
  <2> QED
    BY <2>2, <2>3, Zenon DEF From
<1>5. here = Append(pre, x)
  <2>1. 1 \in 1..n /\ k \in 1..n
    BY <1>1
  <2>2. SubSeq(p, 1, k) = SubSeq(p, 1, k - 1) \o <<p[k]>>
    BY <2>1, SubSeqRecursiveSecond
  <2>3. Append(pre, x) = pre \o <<x>>
    BY <1>2, <1>3, AppendIsConcat
  <2> QED
    BY <2>2, <2>3
<1> HIDE DEF pre, here, post, x
<1> DEFINE P == Coding(c, pre)
           Q == Coding(c, post)
           D == c[x]
<1>6. Coding(c, here) = P \o D /\ P \in ByteString
  BY <1>2, <1>3, <1>5, CodingAppend, CodingConcat
<1>7. Coding(c, here \o post) = Coding(c, here) \o Q /\ Q \in ByteString
  BY <1>3, CodingConcat
<1>8. D \in ByteString
  BY <1>2
<1> HIDE DEF P, Q, D
<1>9. (P \o D) \o Q = P \o (D \o Q)
  BY <1>6, <1>7, <1>8, Joined
<1>10. Coding(c, p) = P \o (D \o Q)
  BY <1>4, <1>6, <1>7, <1>9
<1> QED
  BY <1>3, <1>10 DEF SplitsAt, P, D, Q, pre, post, x
-----------------------------------------------------------------------------
(* Paths *)

\* Segments before the terminator, and the bytes PathWriter adds for one
Piece == {"field", "index"} \X ByteString
PieceBytes == [s \in Piece |-> Delim(s[2])]

\* The bytes of a path without its terminator
Encoded(path) == Coding(PieceBytes, path)

\* A delimiter in front
LEMMA DelimBytes ==
  ASSUME NEW b \in ByteString, NEW c \in ByteString
  PROVE  Delim(b) \in Delimiting /\ Delim(b) \in ByteString /\ Delim(b) \o c = Delim(b \o c)
<1> DEFINE d == <<0>>
           e == Delim(b)
<1>1. d \in ByteString /\ Len(d) = 1 /\ d[1] = 0
  BY DEF ByteString
<1>2. e = d \o b
  BY DEF Delim, DELIMITER
<1> HIDE DEF d, e
<1>3. (d \o b) \o c = d \o (b \o c) /\ d \o b \in ByteString
  BY <1>1, Joined
<1>4. e # <<>> /\ e[1] = 0
  <2>1. /\ Len(e) = Len(d) + Len(b) /\ Len(b) \in Nat
        /\ \A i \in 1..Len(d) : e[i] = d[i]
    <3>1. d \in ByteString
      BY <1>1
    <3> QED
      BY <1>2, <3>1, ConcatFacts DEF ByteString
  <2>2. 1 \in 1..Len(d)
    BY <1>1
  <2>3. Len(e) # 0
    BY <1>1, <2>1
  <2> QED
    BY <1>1, <2>1, <2>2, <2>3, EmptySeq
<1>5. e \o c = Delim(b \o c)
  BY <1>2, <1>3 DEF Delim, DELIMITER, d
<1> QED
  BY <1>2, <1>3, <1>4, <1>5 DEF e, Delimiting

\* The code of a segment
LEMMA PieceType ==
  /\ PieceBytes \in [Piece -> ByteString]
  /\ \A s \in Piece : PieceBytes[s] = Delim(s[2]) /\ s[2] \in ByteString
<1>1. ASSUME NEW s \in Piece PROVE s[2] \in ByteString /\ Delim(s[2]) \in ByteString
  <2>1. s[2] \in ByteString
    BY DEF Piece
  <2> QED
    BY <2>1, DelimBytes
<1> QED
  BY <1>1 DEF PieceBytes

\* PathWriter adds one segment after the other
LEMMA EncodedAppend ==
  ASSUME NEW path \in Seq(Piece), NEW s \in Piece
  PROVE  /\ Encoded(path) \in ByteString /\ Encoded(<<>>) = <<>>
         /\ Encoded(Append(path, s)) = Encoded(path) \o Delim(s[2])
<1>1. Encoded(path) \in ByteString
  BY PieceType, CodingConcat DEF Encoded
<1>2. Coding(PieceBytes, <<>>) = <<>> /\
      Coding(PieceBytes, Append(path, s)) = Coding(PieceBytes, path) \o PieceBytes[s]
  BY PieceType, CodingAppend
<1> QED
  BY <1>1, <1>2, PieceType DEF Encoded

\* A part of a path and what follows it
LEMMA EncodedConcat ==
  ASSUME NEW p \in Seq(Piece), NEW q \in Seq(Piece)
  PROVE  /\ Encoded(p) \in ByteString /\ Encoded(q) \in ByteString
         /\ Encoded(p \o q) = Encoded(p) \o Encoded(q)
BY PieceType, CodingConcat DEF Encoded

\* The rest of a path starts with a delimiter
LEMMA EncodedDelimiting ==
  ASSUME NEW path \in Seq(Piece), NEW next \in Delimiting
  PROVE  Encoded(path) \o next \in Delimiting
<1>0. next \in ByteString
  BY DEF Delimiting
<1>1. CASE path = <<>>
  <2>1. Encoded(<<>>) = <<>>
    <3> DEFINE none == <<>>
    <3>0. none \in ByteString
      BY DEF ByteString
    <3> HIDE DEF none
    <3>1. <<"field", none>> \in Piece
      BY <3>0 DEF Piece
    <3> QED
      BY <3>1, EncodedAppend
  <2>2. <<>> \o next = next
    BY <1>0, ConcatEmptySeq DEF ByteString
  <2> QED
    BY <1>1, <2>1, <2>2
<1>2. CASE path # <<>>
  <2> DEFINE x == path[1]
             post == SubSeq(path, 2, Len(path))
             n == Len(path)
  <2>1. n \in Nat /\ n # 0 /\ 1 \in 1..n /\ n \in 1..n
    BY <1>2, LenProperties, EmptySeq
  <2>2. x \in Piece
    BY <2>1, ElementOfSeq
  <2>3. post \in Seq(Piece)
    <3>1. From(path, 2) \in Seq(Piece)
      BY FromAny
    <3> QED
      BY <3>1 DEF From
  <2>4. path = <<x>> \o post
    <3>1. SubSeq(path, 1, n) = <<path[1]>> \o SubSeq(path, 1 + 1, n)
      BY <2>1, SubSeqRecursiveFirst
    <3>2. SubSeq(path, 1, n) = path /\ 1 + 1 = 2
      BY SubSeqFull
    <3> QED
      BY <3>1, <3>2
  <2> HIDE DEF post, x
  <2>5. <<x>> \in Seq(Piece) /\ <<>> \in Seq(Piece)
    BY <2>2
  <2>6. Encoded(<<x>>) = Delim(x[2])
    <3>1. Append(<<>>, x) = <<x>>
      OBVIOUS
    <3>2. Encoded(Append(<<>>, x)) = Encoded(<<>>) \o Delim(x[2]) /\ Encoded(<<>>) = <<>>
      BY <2>2, <2>5, EncodedAppend
    <3>3. <<>> \o Delim(x[2]) = Delim(x[2])
      <4>1. x[2] \in ByteString
        BY <2>2, PieceType
      <4>2. Delim(x[2]) \in ByteString
        BY <4>1, DelimBytes
      <4> QED
        BY <4>2, ConcatEmptySeq DEF ByteString
    <3> QED
      BY <3>1, <3>2, <3>3
  <2> DEFINE r == Encoded(post)
             one == <<x>>
  <2>7. Encoded(path) = Delim(x[2]) \o r /\ r \in ByteString /\ x[2] \in ByteString
    <3>1. one \in Seq(Piece)
      BY <2>5
    <3>2. path = one \o post /\ Encoded(one) = Delim(x[2])
      BY <2>4, <2>6
    <3> HIDE DEF one
    <3>3. Encoded(one \o post) = Encoded(one) \o Encoded(post) /\ Encoded(post) \in ByteString
      BY <2>3, <3>1, EncodedConcat
    <3> QED
      BY <2>2, <3>2, <3>3, PieceType
  <2> HIDE DEF r
  <2> DEFINE b == x[2]
  <2>8. b \in ByteString
    BY <2>7
  <2> HIDE DEF b
  <2>9. (Delim(b) \o r) \o next = Delim(b) \o (r \o next) /\ r \o next \in ByteString
    <3>1. Delim(b) \in ByteString
      BY <2>8, DelimBytes
    <3> QED
      BY <1>0, <2>7, <3>1, Joined
  <2>10. Delim(b) \o (r \o next) \in Delimiting
    <3> DEFINE c == r \o next
    <3>1. c \in ByteString
      BY <2>9
    <3> HIDE DEF c
    <3>2. Delim(b) \o c = Delim(b \o c) /\ b \o c \in ByteString
      BY <2>8, <3>1, DelimBytes, Joined
    <3>3. Delim(b \o c) \in Delimiting
      BY <3>2, DelimBytes
    <3> QED
      BY <3>2, <3>3 DEF c
  <2> QED
    BY <2>7, <2>9, <2>10 DEF b
<1> QED
  BY <1>1, <1>2

\* A path around its k-th segment
LEMMA EncodedSplit ==
  ASSUME NEW path \in Seq(Piece), NEW k \in 1..Len(path)
  PROVE  /\ SubSeq(path, 1, k - 1) \in Seq(Piece) /\ From(path, k + 1) \in Seq(Piece)
         /\ Encoded(path) = Encoded(SubSeq(path, 1, k - 1))
                              \o (Delim(path[k][2]) \o Encoded(From(path, k + 1)))
<1>1. path[k] \in Piece
  BY ElementOfSeq
<1>2. PieceBytes[path[k]] = Delim(path[k][2])
  BY <1>1, PieceType
<1>3. PieceBytes \in [Piece -> ByteString]
  BY PieceType
<1>4. /\ SubSeq(path, 1, k - 1) \in Seq(Piece) /\ From(path, k + 1) \in Seq(Piece)
      /\ Coding(PieceBytes, path) = Coding(PieceBytes, SubSeq(path, 1, k - 1))
           \o (PieceBytes[path[k]] \o Coding(PieceBytes, From(path, k + 1)))
  <2>1. SplitsAt(Piece, PieceBytes, path, k)
    BY <1>3, CodingSplit
  <2> QED
    BY <2>1, Zenon DEF SplitsAt
<1> QED
  BY <1>2, <1>4, Zenon DEF Encoded

-----------------------------------------------------------------------------
(* Paths are read back *)

\* The segments PathReader may return
Parsed == {read(b).segment : b \in ByteString}

\* It returns such segments
LEMMA ReadType ==
  ASSUME NEW buf \in ByteString
  PROVE  Read[buf] \in Seq(Parsed)
<1> DEFINE Wrong == {k \in Nat : \E b \in ByteString : Len(b) = k /\ Read[b] \notin Seq(Parsed)}
<1>0. \A b \in ByteString : Len(b) \in Nat
  BY LenProperties DEF ByteString
<1>1. SUFFICES ASSUME Wrong # {} PROVE FALSE
  BY <1>0
<1>2. PICK k \in Wrong : \A j \in Wrong : k <= j
  <2>1. Wrong \in SUBSET Nat
    OBVIOUS
  <2> HIDE DEF Wrong
  <2> QED
    BY <1>1, <2>1, Least
<1>3. PICK b \in ByteString : Len(b) = k /\ Read[b] \notin Seq(Parsed)
  BY <1>2
<1>4. ~(Len(b) < 2)
  <2>1. <<>> \in Seq(Parsed)
    OBVIOUS
  <2> QED
    BY <1>3, <2>1, ReadStep
<1> DEFINE i == 1 + read(b).n
           rest == From(b, i)
           s == read(b).segment
           one == <<s>>
<1>5. i \in Nat /\ i >= 1 /\ i > 1
  <2>1. read(b).n \in Nat /\ read(b).n >= 1
    BY <1>4, ReadProgress
  <2> QED
    BY <2>1
<1>6. Read[b] = one \o Read[rest]
  BY <1>4, ReadStep
<1>7. one \in Seq(Parsed)
  <2>1. s \in Parsed
    BY DEF Parsed
  <2> HIDE DEF s
  <2> QED
    BY <2>1
<1> HIDE DEF i, one
<1>8. rest \in ByteString /\ Len(rest) < Len(b)
  <2>1. b # <<>>
    BY <1>4, EmptySeq
  <2> QED
    BY <1>5, <2>1, FromAny DEF ByteString
<1> HIDE DEF rest
<1>9. Read[rest] \in Seq(Parsed)
  <2>1. Len(rest) \in Nat /\ ~(k <= Len(rest))
    BY <1>0, <1>3, <1>8
  <2>2. Len(rest) \notin Wrong
    <3> HIDE DEF Wrong
    <3> QED
      BY <1>2, <2>1
  <2> QED
    BY <1>8, <2>1, <2>2
<1>10. one \o Read[rest] \in Seq(Parsed)
  <2> HIDE DEF Wrong
  <2> QED
    BY <1>7, <1>9, ConcatProperties
<1> QED
  BY <1>3, <1>6, <1>10

\* Plain segments are segments
LEMMA PlainPiece == Plain \subseteq Piece
<1>1. ASSUME NEW s \in Plain PROVE s \in Piece
  <2>1. CASE s \in {<<"field", f>> : f \in {x \in ByteString : IsField(x)}}
    BY <2>1 DEF Piece
  <2>2. CASE s \in {<<"index", i>> : i \in {x \in ByteString : is_valid[x] /\ x # <<>>}}
    <3>1. PICK i \in ByteString : s = <<"index", i>>
      BY <2>2
    <3> QED
      BY <3>1 DEF Piece
  <2> QED
    BY <2>1, <2>2 DEF Plain
<1> QED
  BY <1>1

\* PathReader returns every segment of a path, then what follows it
THEOREM ReadEncoded ==
  ASSUME NEW path \in Seq(Plain), NEW next \in Delimiting
  PROVE  Read[Encoded(path) \o next] = path \o Read[next]
<1> DEFINE Bad(p) == \E t \in Delimiting : Read[Encoded(p) \o t] # p \o Read[t]
           Wrong == {k \in Nat : \E p \in Seq(Plain) : Len(p) = k /\ Bad(p)}
           All == Plain \cup Parsed
<1>0. \A p \in Seq(Plain) : Len(p) \in Nat
  BY LenProperties
<1>1. SUFFICES ASSUME Wrong # {} PROVE FALSE
  BY <1>0
<1>2. PICK k \in Wrong : \A j \in Wrong : k <= j
  <2>1. Wrong \in SUBSET Nat
    OBVIOUS
  <2> HIDE DEF Wrong
  <2> QED
    BY <1>1, <2>1, Least
<1>3. PICK p \in Seq(Plain) : Len(p) = k /\ Bad(p)
  BY <1>2
<1>4. PICK t \in Delimiting : Read[Encoded(p) \o t] # p \o Read[t]
  BY <1>3
<1>5. t \in ByteString /\ Read[t] \in Seq(Parsed) /\ Read[t] \in Seq(All)
  <2>1. t \in ByteString
    BY DEF Delimiting
  <2>2. Read[t] \in Seq(Parsed)
    BY <2>1, ReadType
  <2>3. Parsed \subseteq All
    OBVIOUS
  <2>4. \A S, T : S \subseteq T => Seq(S) \subseteq Seq(T)
    OBVIOUS
  <2> HIDE DEF All, Wrong
  <2> QED
    BY <2>1, <2>2, <2>3, <2>4
<1>6. CASE p = <<>>
  <2>1. Encoded(<<>>) = <<>>
    <3> DEFINE none == <<>>
    <3>0. none \in ByteString
      BY DEF ByteString
    <3> HIDE DEF none
    <3>1. <<"field", none>> \in Piece /\ <<>> \in Seq(Piece)
      BY <3>0 DEF Piece
    <3> QED
      BY <3>1, EncodedAppend
  <2>2. <<>> \o t = t /\ <<>> \o Read[t] = Read[t]
    BY <1>5, ConcatEmptySeq DEF ByteString
  <2> QED
    BY <1>4, <1>6, <2>1, <2>2
<1>7. CASE p # <<>>
  <2>1. PICK q \in Seq(Plain), s \in Plain : p = Append(q, s)
    BY <1>7, SequenceEmptyOrAppend
  <2> DEFINE b == s[2]
             u == Delim(b \o t)
             e == Encoded(q)
  <2>2. q \in Seq(Piece) /\ s \in Piece /\ b \in ByteString
    <3>1. \A S, T : S \subseteq T => Seq(S) \subseteq Seq(T)
      OBVIOUS
    <3>2. q \in Seq(Piece) /\ s \in Piece
      BY <3>1, PlainPiece
    <3> QED
      BY <3>2, PieceType
  <2>3. Encoded(p) = e \o Delim(b) /\ e \in ByteString
    BY <2>1, <2>2, EncodedAppend
  <2> HIDE DEF b, e
  <2>4. Delim(b) \o t = u /\ Delim(b) \in ByteString /\ b \o t \in ByteString
    BY <1>5, <2>2, DelimBytes, Joined
  <2>5. Encoded(p) \o t = e \o u
    <3> DEFINE d == Delim(b)
    <3>1. e \in ByteString /\ d \in ByteString /\ t \in ByteString
      BY <1>5, <2>3, <2>4
    <3>2. Encoded(p) = e \o d /\ d \o t = u
      BY <2>3, <2>4
    <3> HIDE DEF d, u, Wrong
    <3>3. (e \o d) \o t = e \o (d \o t)
      BY <3>1, Joined
    <3> QED
      BY <3>2, <3>3
  <2>6. u \in Delimiting
    BY <2>4, <1>5, DelimBytes
  <2>7. Read[u] = <<s>> \o Read[t]
    BY ReadPlain DEF b
  <2> HIDE DEF u
  <2>8. Read[e \o u] = q \o Read[u]
    <3>1. Len(q) \in Nat /\ ~(k <= Len(q))
      BY <1>0, <1>3, <2>1, AppendProperties
    <3>2. Len(q) \notin Wrong
      <4> HIDE DEF Wrong
      <4> QED
        BY <1>2, <3>1
    <3> QED
      BY <2>6, <3>1, <3>2 DEF e
  <2>9. q \o (<<s>> \o Read[t]) = p \o Read[t]
    <3> DEFINE one == <<s>>
               r == Read[t]
    <3>1. one \in Seq(All) /\ q \in Seq(All) /\ r \in Seq(All)
      <4>1. s \in All /\ Plain \subseteq All
        OBVIOUS
      <4>2. \A S, T : S \subseteq T => Seq(S) \subseteq Seq(T)
        OBVIOUS
      <4> HIDE DEF All, Wrong
      <4> QED
        BY <1>5, <4>1, <4>2
    <3>2. p = q \o one
      BY <2>1, AppendIsConcat
    <3> HIDE DEF one, r, All, Wrong
    <3>3. (q \o one) \o r = q \o (one \o r)
      BY <3>1, ConcatAssociative
    <3> QED
      BY <3>2, <3>3 DEF one, r
  <2> QED
    BY <1>4, <2>5, <2>7, <2>8, <2>9
<1> QED
  BY <1>6, <1>7

-----------------------------------------------------------------------------
(* The order of byte strings *)

\* s and t differ, and s is the lower one at the first difference
Below(s, t) ==
  \E j \in 1..Len(s) : /\ j <= Len(t)
                       /\ \A i \in 1..(j - 1) : s[i] = t[i]
                       /\ s[j] < t[j]

\* Such strings are in lexical order
LEMMA BelowLower ==
  ASSUME NEW s \in ByteString, NEW t \in ByteString, Below(s, t)
  PROVE  Lower(s, t)
<1>1. PICK j \in 1..Len(s) : /\ j <= Len(t)
                             /\ \A i \in 1..(j - 1) : s[i] = t[i]
                             /\ s[j] < t[j]
  BY DEF Below
<1>2. Len(s) \in Nat /\ Len(t) \in Nat
  BY LenProperties DEF ByteString
<1>3. j \in 1..Len(t) /\ j <= Len(s) + 1
  BY <1>1, <1>2
<1> QED
  BY <1>1, <1>3 DEF Lower

\* Nothing that follows changes their order
LEMMA BelowExtend ==
  ASSUME NEW s \in ByteString, NEW t \in ByteString, NEW u \in ByteString, NEW v \in ByteString,
         Below(s, t)
  PROVE  Below(s \o u, t \o v)
<1>1. PICK j \in 1..Len(s) : /\ j <= Len(t)
                             /\ \A i \in 1..(j - 1) : s[i] = t[i]
                             /\ s[j] < t[j]
  BY DEF Below
<1> DEFINE a == s \o u
           b == t \o v
<1>2. /\ Len(a) = Len(s) + Len(u) /\ Len(s) \in Nat /\ Len(u) \in Nat
      /\ \A i \in 1..Len(s) : a[i] = s[i]
  BY ConcatFacts DEF ByteString
<1>3. /\ Len(b) = Len(t) + Len(v) /\ Len(t) \in Nat /\ Len(v) \in Nat
      /\ \A i \in 1..Len(t) : b[i] = t[i]
  BY ConcatFacts DEF ByteString
<1> HIDE DEF a, b
<1>4. j \in 1..Len(a) /\ j <= Len(b) /\ j \in 1..Len(t)
  BY <1>1, <1>2, <1>3
<1>5. a[j] = s[j] /\ b[j] = t[j]
  BY <1>2, <1>3, <1>4
<1>6. ASSUME NEW i \in 1..(j - 1) PROVE a[i] = b[i]
  <2>1. i \in 1..Len(s) /\ i \in 1..Len(t)
    BY <1>1, <1>2, <1>3
  <2> QED
    BY <1>1, <1>2, <1>3, <2>1
<1>7. Below(a, b)
  BY <1>1, <1>4, <1>5, <1>6 DEF Below
<1> QED
  BY <1>7 DEF a, b

\* nor does what is before both
LEMMA BelowPrefix ==
  ASSUME NEW s \in ByteString, NEW t \in ByteString, NEW p \in ByteString, Below(s, t)
  PROVE  Below(p \o s, p \o t)
<1>1. PICK j \in 1..Len(s) : /\ j <= Len(t)
                             /\ \A i \in 1..(j - 1) : s[i] = t[i]
                             /\ s[j] < t[j]
  BY DEF Below
<1> DEFINE a == p \o s
           b == p \o t
           n == Len(p)
<1>2. /\ Len(a) = n + Len(s) /\ n \in Nat /\ Len(s) \in Nat
      /\ \A i \in 1..n : a[i] = p[i]
      /\ \A i \in 1..Len(s) : a[n + i] = s[i]
  BY ConcatFacts DEF ByteString
<1>3. /\ Len(b) = n + Len(t) /\ n \in Nat /\ Len(t) \in Nat
      /\ \A i \in 1..n : b[i] = p[i]
      /\ \A i \in 1..Len(t) : b[n + i] = t[i]
  BY ConcatFacts DEF ByteString
<1> HIDE DEF a, b, n
<1> DEFINE k == n + j
<1>4. k \in 1..Len(a) /\ k <= Len(b) /\ j \in 1..Len(t)
  BY <1>1, <1>2, <1>3
<1>5. a[k] = s[j] /\ b[k] = t[j]
  BY <1>2, <1>3, <1>4
<1>6. ASSUME NEW i \in 1..(k - 1) PROVE a[i] = b[i]
  <2>1. CASE i <= n
    <3>1. i \in 1..n
      BY <1>2, <2>1
    <3> QED
      BY <1>2, <1>3, <3>1
  <2>2. CASE ~(i <= n)
    <3> DEFINE l == i - n
    <3>1. l \in 1..(j - 1) /\ l \in 1..Len(s) /\ l \in 1..Len(t) /\ i = n + l
      BY <1>1, <1>2, <1>3, <2>2
    <3> HIDE DEF l
    <3>2. a[n + l] = s[l] /\ b[n + l] = t[l] /\ s[l] = t[l]
      BY <1>1, <1>2, <1>3, <3>1
    <3> QED
      BY <3>1, <3>2
  <2> QED
    BY <2>1, <2>2
<1> HIDE DEF k
<1>7. Below(a, b)
  BY <1>1, <1>4, <1>5, <1>6 DEF Below
<1> QED
  BY <1>7 DEF a, b

\* Strings that differ in their first byte
LEMMA BelowFirst ==
  ASSUME NEW s \in ByteString, NEW t \in ByteString, s # <<>>, t # <<>>, s[1] < t[1]
  PROVE  Below(s, t)
<1>1. Len(s) \in Nat /\ Len(s) >= 1 /\ Len(t) \in Nat /\ Len(t) >= 1
  BY FirstByte
<1>2. 1 \in 1..Len(s) /\ 1 <= Len(t) /\ \A i \in 1..(1 - 1) : s[i] = t[i]
  BY <1>1
<1> QED
  BY <1>2 DEF Below

\* One more byte
LEMMA AppendByte ==
  ASSUME NEW s \in ByteString, NEW b \in 0..255
  PROVE  Append(s, b) = s \o <<b>> /\ Len(Append(s, b)) = Len(s) + 1 /\ Len(s) \in Nat
<1>1. s \in Seq(0..255)
  BY DEF ByteString
<1>2. Len(Append(s, b)) = Len(s) + 1
  BY <1>1, AppendProperties
<1>3. Append(s, b) = s \o <<b>>
  BY <1>1, AppendIsConcat
<1> QED
  BY <1>1, <1>2, <1>3, LenProperties

\* Of two numbers the lower one has fewer bytes, or as many and lower ones
LEMMA SignificantOrder ==
  ASSUME NEW m \in Nat, NEW n \in Nat, n < m
  PROVE  \/ Len(Significant[n]) < Len(Significant[m])
         \/ Len(Significant[n]) = Len(Significant[m]) /\ Below(Significant[n], Significant[m])
<1> DEFINE Ordered(x, y) ==
             \/ Len(Significant[x]) < Len(Significant[y])
             \/ Len(Significant[x]) = Len(Significant[y]) /\ Below(Significant[x], Significant[y])
           Wrong == {y \in Nat : \E x \in Nat : x < y /\ ~Ordered(x, y)}
<1>1. SUFFICES ASSUME Wrong # {} PROVE FALSE
  OBVIOUS
<1> HIDE DEF Ordered
<1>2. PICK y \in Wrong : \A j \in Wrong : y <= j
  <2>1. Wrong \in SUBSET Nat
    OBVIOUS
  <2> HIDE DEF Wrong
  <2> QED
    BY <1>1, <2>1, Least
<1>3. PICK x \in Nat : y \in Nat /\ x < y /\ ~Ordered(x, y)
  BY <1>2
<1>4. y # 0
  BY <1>3
<1> DEFINE y1 == y \div 256
           y2 == y % 256
           x1 == x \div 256
           x2 == x % 256
           sy == Significant[y1]
           sx == Significant[x1]
<1>5. /\ y1 \in Nat /\ y1 < y /\ y2 \in 0..255 /\ y = 256 * y1 + y2
      /\ x1 \in Nat /\ x2 \in 0..255 /\ x = 256 * x1 + x2
  BY <1>3, <1>4, Digits
<1>6. sy \in ByteString /\ sx \in ByteString
  BY <1>5, SignificantType
<1>7. Significant[y] = Append(sy, y2) /\ (x # 0 => Significant[x] = Append(sx, x2))
  <2>1. Significant[y] = IF y = 0 THEN <<>> ELSE Append(sy, y2)
    BY <1>3, SignificantStep, Zenon
  <2>2. Significant[x] = IF x = 0 THEN <<>> ELSE Append(sx, x2)
    BY <1>3, SignificantStep, Zenon
  <2> HIDE DEF sy, sx, x2, y2
  <2> QED
    BY <1>4, <2>1, <2>2
<1> HIDE DEF x1, x2, y1, y2, Wrong
<1>8. /\ Append(sy, y2) = sy \o <<y2>> /\ Append(sx, x2) = sx \o <<x2>>
      /\ Len(Append(sy, y2)) = Len(sy) + 1 /\ Len(Append(sx, x2)) = Len(sx) + 1
      /\ Len(sy) \in Nat /\ Len(sx) \in Nat
      /\ <<y2>> \in ByteString /\ <<x2>> \in ByteString
  <2>1. y2 \in 0..255 /\ x2 \in 0..255
    BY <1>5
  <2>2. <<y2>> \in ByteString /\ <<x2>> \in ByteString
    BY <2>1 DEF ByteString
  <2>3. Append(sy, y2) = sy \o <<y2>> /\ Len(Append(sy, y2)) = Len(sy) + 1 /\ Len(sy) \in Nat
    BY <1>6, <2>1, AppendByte, Zenon
  <2>4. Append(sx, x2) = sx \o <<x2>> /\ Len(Append(sx, x2)) = Len(sx) + 1 /\ Len(sx) \in Nat
    BY <1>6, <2>1, AppendByte, Zenon
  <2> QED
    BY <2>2, <2>3, <2>4
<1>9. CASE x = 0
  <2>1. Significant[x] = <<>> /\ Len(<<>>) = 0
    BY <1>9, SignificantStep
  <2>2. Len(Significant[x]) < Len(Significant[y])
    BY <1>7, <1>8, <2>1
  <2> QED
    BY <1>3, <2>2 DEF Ordered
<1>10. CASE x # 0 /\ x1 < y1
  <2>1. Ordered(x1, y1)
    <3>1. y1 \notin Wrong
      BY <1>2, <1>3, <1>5
    <3> QED
      BY <1>5, <1>10, <3>1 DEF Wrong
  <2>2. CASE Len(sx) < Len(sy)
    <3>1. Len(Significant[x]) < Len(Significant[y])
      BY <1>7, <1>8, <1>10, <2>2
    <3> QED
      BY <1>3, <3>1 DEF Ordered
  <2>3. CASE Len(sx) = Len(sy) /\ Below(sx, sy)
    <3>1. Below(sx \o <<x2>>, sy \o <<y2>>)
      BY <1>6, <1>8, <2>3, BelowExtend
    <3>2. Len(Significant[x]) = Len(Significant[y])
      BY <1>7, <1>8, <1>10, <2>3
    <3>3. Significant[x] = sx \o <<x2>> /\ Significant[y] = sy \o <<y2>>
      BY <1>7, <1>8, <1>10
    <3> QED
      BY <1>3, <3>1, <3>2, <3>3 DEF Ordered
  <2> QED
    BY <2>1, <2>2, <2>3 DEF Ordered
<1>11. CASE x # 0 /\ ~(x1 < y1)
  <2>1. x1 = y1 /\ x2 < y2
    BY <1>3, <1>5, <1>11
  <2> DEFINE a == <<x2>>
             b == <<y2>>
  <2>2. Below(a, b)
    <3>1. a # <<>> /\ b # <<>> /\ a[1] = x2 /\ b[1] = y2
      OBVIOUS
    <3>2. a \in ByteString /\ b \in ByteString /\ a[1] < b[1]
      BY <1>8, <2>1, <3>1
    <3> HIDE DEF a, b
    <3> QED
      BY <3>1, <3>2, BelowFirst
  <2>3. sx = sy
    BY <2>1
  <2>4. Below(sx \o a, sx \o b)
    <3> HIDE DEF a, b
    <3> QED
      BY <1>6, <1>8, <2>2, BelowPrefix DEF a, b
  <2>5. Significant[x] = sx \o a /\ Significant[y] = sx \o b
    BY <1>7, <1>8, <1>11, <2>3
  <2>6. Len(Significant[x]) = Len(Significant[y])
    BY <1>7, <1>8, <1>11, <2>3
  <2> QED
    BY <1>3, <2>4, <2>5, <2>6 DEF Ordered
<1> QED
  BY <1>9, <1>10, <1>11

\* VarInt: the bytes of numbers sort like the numbers
LEMMA WriteOrder ==
  ASSUME NEW size \in 0..255, NEW n \in Nat, NEW m \in Nat, Fits(n, size), Fits(m, size), n < m
  PROVE  Below(write(n), write(m))
<1> DEFINE a == Significant[n]
           b == Significant[m]
           la == Len(a)
           lb == Len(b)
           wa == write(n)
           wb == write(m)
<1>1. wa \in ByteString /\ wa[1] = la /\ la \in 0..size /\ Len(wa) = 1 + la
  BY WriteType, Zenon
<1>2. wb \in ByteString /\ wb[1] = lb /\ lb \in 0..size /\ Len(wb) = 1 + lb
  BY WriteType, Zenon
<1>3. wa = <<la>> \o a /\ wb = <<lb>> \o b
  BY DEF write
<1>4. a \in ByteString /\ b \in ByteString
  BY SignificantType
<1>5. la < lb \/ (la = lb /\ Below(a, b))
  BY SignificantOrder
<1> HIDE DEF wa, wb, la, lb, a, b
<1>6. CASE la < lb
  <2>1. wa # <<>> /\ wb # <<>> /\ wa[1] < wb[1]
    BY <1>1, <1>2, <1>6, EmptySeq
  <2>2. Below(wa, wb)
    BY <1>1, <1>2, <2>1, BelowFirst
  <2> QED
    BY <2>2 DEF wa, wb
<1>7. CASE la = lb /\ Below(a, b)
  <2> DEFINE h == <<la>>
  <2>1. h \in ByteString
    <3>1. la \in 0..255
      BY <1>1
    <3> QED
      BY <3>1 DEF ByteString
  <2>2. wa = h \o a /\ wb = h \o b
    BY <1>3, <1>7
  <2> HIDE DEF h
  <2>3. Below(h \o a, h \o b)
    BY <1>4, <1>7, <2>1, BelowPrefix
  <2> QED
    BY <2>2, <2>3 DEF wa, wb
<1> QED
  BY <1>5, <1>6, <1>7

-----------------------------------------------------------------------------
(* The order of fractional indices *)

\* Segments of an index, and what Segment::write writes
Pair == {q \in Nat \X Nat : q[1] # 0 /\ Fits(q[1], 4) /\ Fits(q[2], 4)}
PairBytes == [q \in Pair |-> write(q[1]) \o write(q[2])]

\* A segment is lower than another: by pid, then by seq
PairLess(x, y) == x[1] < y[1] \/ (x[1] = y[1] /\ x[2] < y[2])

\* Its parts
LEMMA PairFacts ==
  ASSUME NEW q \in Pair
  PROVE  /\ q[1] \in Nat /\ q[2] \in Nat /\ q[1] # 0 /\ Fits(q[1], 4) /\ Fits(q[2], 4)
         /\ write(q[1]) \in ByteString /\ write(q[2]) \in ByteString
         /\ PairBytes[q] = write(q[1]) \o write(q[2])
         /\ PairBytes \in [Pair -> ByteString]
<1>1. ASSUME NEW r \in Pair
      PROVE  /\ r[1] \in Nat /\ r[2] \in Nat /\ r[1] # 0 /\ Fits(r[1], 4) /\ Fits(r[2], 4)
             /\ write(r[1]) \in ByteString /\ write(r[2]) \in ByteString
             /\ write(r[1]) \o write(r[2]) \in ByteString
  <2>1. r[1] \in Nat /\ r[2] \in Nat /\ r[1] # 0 /\ Fits(r[1], 4) /\ Fits(r[2], 4)
    BY DEF Pair
  <2>2. 4 \in 0..255
    OBVIOUS
  <2>3. write(r[1]) \in ByteString /\ write(r[2]) \in ByteString
    BY <2>1, <2>2, WriteType, Zenon
  <2> QED
    BY <2>1, <2>3, Joined
<1> QED
  BY <1>1 DEF PairBytes

\* The bytes of a segment never start with a delimiter: its pid is not zero
LEMMA PairFirst ==
  ASSUME NEW q \in Pair, NEW u \in ByteString
  PROVE  PairBytes[q] \o u \in ByteString /\ PairBytes[q] \o u # <<>> /\ (PairBytes[q] \o u)[1] > 0
<1> DEFINE a == write(q[1])
           b == write(q[2])
           s == Significant[q[1]]
           c == b \o u
<1>1. /\ q[1] \in Nat /\ q[1] # 0 /\ Fits(q[1], 4) /\ a \in ByteString /\ b \in ByteString
      /\ PairBytes[q] = a \o b
  BY PairFacts
<1>2. a[1] = Len(s) /\ Len(a) = 1 + Len(s) /\ Len(s) \in Nat
  <2>1. 4 \in 0..255
    OBVIOUS
  <2>2. a[1] = Len(s) /\ Len(a) = 1 + Len(s) /\ Len(s) \in 0..4
    BY <1>1, <2>1, WriteType, Zenon
  <2> QED
    BY <2>2
<1>3. Len(s) > 0
  <2> DEFINE h == q[1] \div 256
             l == q[1] % 256
  <2>1. s = Append(Significant[h], l)
    <3>1. s = IF q[1] = 0 THEN <<>> ELSE Append(Significant[h], l)
      BY <1>1, SignificantStep, Zenon
    <3> QED
      BY <1>1, <3>1, Zenon
  <2>2. h \in Nat /\ l \in 0..255
    <3>1. ASSUME NEW m \in Nat PROVE m \div 256 \in Nat /\ m % 256 \in 0..255
      BY Digits
    <3> QED
      BY <1>1, <3>1, Zenon
  <2>3. Significant[h] \in ByteString
    BY <2>2, SignificantType
  <2> HIDE DEF s, h, l
  <2>4. Len(Append(Significant[h], l)) = Len(Significant[h]) + 1 /\ Len(Significant[h]) \in Nat
    BY <2>2, <2>3, AppendByte, Zenon
  <2> QED
    BY <2>1, <2>4
<1> HIDE DEF a, b, s
<1>4. (a \o b) \o u = a \o c /\ c \in ByteString /\ a \o b \in ByteString
  BY <1>1, Joined
<1> HIDE DEF c
<1> DEFINE d == a \o c
<1>5. /\ d \in ByteString /\ Len(d) = Len(a) + Len(c) /\ Len(c) \in Nat
      /\ \A i \in 1..Len(a) : d[i] = a[i]
  BY <1>1, <1>4, ConcatFacts DEF ByteString
<1>6. PairBytes[q] \o u = d
  BY <1>1, <1>4
<1> HIDE DEF d
<1>7. 1 \in 1..Len(a) /\ Len(d) # 0
  BY <1>2, <1>5
<1>8. d[1] > 0 /\ d # <<>>
  BY <1>2, <1>3, <1>5, <1>7, EmptySeq
<1> QED
  BY <1>5, <1>6, <1>8

\* The bytes of segments sort like the segments
LEMMA PairOrder ==
  ASSUME NEW x \in Pair, NEW y \in Pair, PairLess(x, y)
  PROVE  Below(PairBytes[x], PairBytes[y])
<1> DEFINE a == write(x[1])
           b == write(x[2])
           c == write(y[1])
           d == write(y[2])
<1>1. /\ x[1] \in Nat /\ x[2] \in Nat /\ Fits(x[1], 4) /\ Fits(x[2], 4)
      /\ a \in ByteString /\ b \in ByteString /\ PairBytes[x] = a \o b
  BY PairFacts
<1>2. /\ y[1] \in Nat /\ y[2] \in Nat /\ Fits(y[1], 4) /\ Fits(y[2], 4)
      /\ c \in ByteString /\ d \in ByteString /\ PairBytes[y] = c \o d
  BY PairFacts
<1>3. 4 \in 0..255
  OBVIOUS
<1>4. CASE x[1] < y[1]
  <2>1. Below(a, c)
    BY <1>1, <1>2, <1>3, <1>4, WriteOrder
  <2> HIDE DEF a, b, c, d
  <2>2. Below(a \o b, c \o d)
    BY <1>1, <1>2, <2>1, BelowExtend
  <2> QED
    BY <1>1, <1>2, <2>2
<1>5. CASE x[1] = y[1] /\ x[2] < y[2]
  <2>1. Below(b, d)
    BY <1>1, <1>2, <1>3, <1>5, WriteOrder
  <2>2. a = c
    BY <1>5
  <2> HIDE DEF a, b, c, d
  <2>3. Below(a \o b, a \o d)
    BY <1>1, <1>2, <2>1, BelowPrefix
  <2> QED
    BY <1>1, <1>2, <2>2, <2>3
<1> QED
  BY <1>4, <1>5 DEF PairLess

\* The order of fractional indices, segment by segment
SegmentsLess(a, b) ==
  \E i \in 1..Len(b) : /\ i <= Len(a) + 1
                       /\ \A j \in 1..(i - 1) : a[j] = b[j]
                       /\ i <= Len(a) => PairLess(a[i], b[i])

\* Beginnings of sequences that agree are equal
LEMMA SamePrefix ==
  ASSUME NEW S, NEW p \in Seq(S), NEW q \in Seq(S), NEW n \in Nat,
         n <= Len(p), n <= Len(q), \A j \in 1..n : p[j] = q[j]
  PROVE  SubSeq(p, 1, n) = SubSeq(q, 1, n)
<1> DEFINE a == SubSeq(p, 1, n)
           b == SubSeq(q, 1, n)
<1>1. Len(p) \in Nat /\ Len(q) \in Nat
  BY LenProperties
<1>2. n \in 0..Len(p) /\ n \in 0..Len(q) /\ 1 \in Int /\ n \in Int
  BY <1>1
<1>3. a \in Seq(S) /\ Len(a) = n /\ \A j \in 1..n : a[j] = p[j]
  <2>1. \A j \in 1..n : p[j] \in S
    BY <1>1, ElementOfSeq
  <2>2. /\ a \in Seq(S) /\ Len(a) = IF 1 <= n THEN n - 1 + 1 ELSE 0
        /\ \A j \in 1..(n - 1 + 1) : a[j] = p[1 + j - 1]
    BY <1>2, <2>1, SubSeqProperties
  <2> HIDE DEF a
  <2> QED
    BY <2>2
<1>4. b \in Seq(S) /\ Len(b) = n /\ \A j \in 1..n : b[j] = q[j]
  <2>1. \A j \in 1..n : q[j] \in S
    BY <1>1, ElementOfSeq
  <2>2. /\ b \in Seq(S) /\ Len(b) = IF 1 <= n THEN n - 1 + 1 ELSE 0
        /\ \A j \in 1..(n - 1 + 1) : b[j] = q[1 + j - 1]
    BY <1>2, <2>1, SubSeqProperties
  <2> HIDE DEF b
  <2> QED
    BY <2>2
<1> HIDE DEF a, b
<1>5. \A j \in 1..Len(a) : a[j] = b[j]
  BY <1>3, <1>4
<1>6. a = b
  BY <1>3, <1>4, <1>5, SeqEqual
<1> QED
  BY <1>6 DEF a, b

\* The bytes of an index
LEMMA IndexCoding ==
  ASSUME NEW a \in Seq(Pair)
  PROVE  Bytes(a) = Coding(PairBytes, a) /\ Bytes(a) \in ByteString
<1>1. ASSUME NEW i \in DOMAIN a PROVE write(a[i][1]) \o write(a[i][2]) = PairBytes[a[i]]
  <2>1. a[i] \in Pair
    BY ElementOfSeq
  <2> QED
    BY <2>1, PairFacts
<1>2. [i \in DOMAIN a |-> write(a[i][1]) \o write(a[i][2])] = [i \in DOMAIN a |-> PairBytes[a[i]]]
  BY <1>1
<1>3. Bytes(a) = Coding(PairBytes, a)
  BY <1>2, Zenon DEF Bytes, Coding
<1>4. PairBytes \in [Pair -> ByteString]
  <2>1. ASSUME NEW q \in Pair PROVE write(q[1]) \o write(q[2]) \in ByteString
    BY PairFacts, Joined
  <2> QED
    BY <2>1 DEF PairBytes
<1> QED
  BY <1>3, <1>4, CodingConcat

\* Lower segments in the middle decide
LEMMA MiddleOrder ==
  ASSUME NEW p \in ByteString, NEW x \in ByteString, NEW y \in ByteString,
         NEW a \in ByteString, NEW b \in ByteString, NEW u \in ByteString, NEW v \in ByteString,
         Below(x, y)
  PROVE  Below((p \o (x \o a)) \o u, (p \o (y \o b)) \o v)
<1> DEFINE au == a \o u
           bv == b \o v
           xa == x \o a
           yb == y \o b
<1>1. (x \o a) \o u = x \o au /\ au \in ByteString /\ xa \in ByteString
  <2>1. Joining(x, a, u)
    BY Joins, Zenon
  <2> QED
    BY <2>1, Zenon DEF Joining
<1>2. (y \o b) \o v = y \o bv /\ bv \in ByteString /\ yb \in ByteString
  <2>1. Joining(y, b, v)
    BY Joins, Zenon
  <2> QED
    BY <2>1, Zenon DEF Joining
<1> HIDE DEF au, bv
<1> DEFINE l == x \o au
           r == y \o bv
<1>3. Below(l, r) /\ l \in ByteString /\ r \in ByteString
  BY <1>1, <1>2, BelowExtend, Joined
<1>4. xa \o u = l /\ yb \o v = r
  BY <1>1, <1>2
<1> HIDE DEF xa, yb, l, r
<1>5. (p \o xa) \o u = p \o (xa \o u) /\ (p \o yb) \o v = p \o (yb \o v)
  <2>1. Joining(p, xa, u) /\ Joining(p, yb, v)
    BY <1>1, <1>2, Joins, Zenon
  <2> QED
    BY <2>1, Zenon DEF Joining
<1>6. Below(p \o l, p \o r)
  BY <1>3, BelowPrefix
<1>7. Below((p \o xa) \o u, (p \o yb) \o v)
  BY <1>4, <1>5, <1>6
<1> QED
  BY <1>7 DEF xa, yb

\* An index before another: lexical order of the bytes, whatever is added to
\* them as the next segment of a path (lseq.md)
THEOREM IndexOrder ==
  ASSUME NEW a \in Seq(Pair), NEW b \in Seq(Pair), SegmentsLess(a, b),
         NEW u \in Delimiting, NEW v \in Delimiting
  PROVE  Below(Bytes(a) \o u, Bytes(b) \o v)
<1>1. PICK i \in 1..Len(b) : /\ i <= Len(a) + 1
                             /\ \A j \in 1..(i - 1) : a[j] = b[j]
                             /\ i <= Len(a) => PairLess(a[i], b[i])
  BY DEF SegmentsLess
<1>2. /\ u \in ByteString /\ u # <<>> /\ u[1] = 0
      /\ v \in ByteString /\ v # <<>> /\ v[1] = 0
  BY DEF Delimiting
<1>3. Len(a) \in Nat /\ Len(b) \in Nat /\ i \in Nat /\ i - 1 \in Nat
  BY <1>1, LenProperties
<1> DEFINE c == PairBytes
           pre == SubSeq(b, 1, i - 1)
           post == From(b, i + 1)
           P == Coding(c, pre)
           Y == c[b[i]]
           B == Coding(c, post)
<1>4. b[i] \in Pair
  BY <1>1, ElementOfSeq
<1>5. c \in [Pair -> ByteString]
  BY <1>4, PairFacts
<1>6. pre \in Seq(Pair) /\ post \in Seq(Pair) /\ Coding(c, b) = P \o (Y \o B)
  <2>1. i \in 1..Len(b)
    BY <1>1
  <2>2. SplitsAt(Pair, c, b, i)
    BY <1>5, <2>1, CodingSplit
  <2> QED
    BY <2>2, Zenon DEF SplitsAt
<1>7. P \in ByteString /\ B \in ByteString /\ Y \in ByteString
  BY <1>4, <1>5, <1>6, CodingConcat
<1>8. Bytes(a) = Coding(c, a) /\ Bytes(b) = Coding(c, b) /\ Bytes(a) \in ByteString
  BY IndexCoding
<1>9. pre = SubSeq(a, 1, i - 1)
  <2>1. i - 1 <= Len(a) /\ i - 1 <= Len(b)
    BY <1>1, <1>3
  <2>2. \A j \in 1..(i - 1) : b[j] = a[j]
    BY <1>1
  <2> QED
    BY <1>3, <2>1, <2>2, SamePrefix
<1>10. CASE i <= Len(a)
  <2>1. i \in 1..Len(a)
    BY <1>3, <1>10, <1>1
  <2>2. a[i] \in Pair
    BY <2>1, ElementOfSeq
  <2> DEFINE X == c[a[i]]
             rest == From(a, i + 1)
             A == Coding(c, rest)
  <2>3. SubSeq(a, 1, i - 1) \in Seq(Pair) /\ rest \in Seq(Pair)
        /\ Coding(c, a) = Coding(c, SubSeq(a, 1, i - 1)) \o (X \o A)
    <3>1. SplitsAt(Pair, c, a, i)
      BY <1>5, <2>1, CodingSplit
    <3> QED
      BY <3>1, Zenon DEF SplitsAt
  <2>4. X \in ByteString /\ A \in ByteString
    BY <1>5, <2>2, <2>3, CodingConcat
  <2>5. Coding(c, a) = P \o (X \o A)
    BY <1>9, <2>3
  <2>6. Below(X, Y)
    BY <1>1, <1>4, <1>10, <2>2, PairOrder
  <2> HIDE DEF X, Y, A, B, P
  <2>7. Below((P \o (X \o A)) \o u, (P \o (Y \o B)) \o v)
    BY <1>2, <1>7, <2>4, <2>6, MiddleOrder
  <2> QED
    BY <1>6, <1>8, <2>5, <2>7
<1>11. CASE ~(i <= Len(a))
  <2>1. i - 1 = Len(a)
    BY <1>1, <1>3, <1>11
  <2>2. pre = a
    BY <1>9, <2>1, SubSeqFull
  <2>3. Bytes(a) = P
    BY <1>8, <2>2
  <2> DEFINE Bv == B \o v
  <2>4. Bv \in ByteString /\ (Y \o B) \o v = Y \o Bv /\ Y \o B \in ByteString
    <3>1. Joining(Y, B, v)
      BY <1>2, <1>7, Joins, Zenon
    <3> QED
      BY <3>1, Zenon DEF Joining
  <2> DEFINE YB == Y \o B
             YBv == Y \o Bv
  <2>5. YBv \in ByteString /\ YBv # <<>> /\ YBv[1] > 0
    <3> HIDE DEF Bv
    <3> QED
      BY <1>4, <2>4, PairFirst
  <2>6. YB \in ByteString /\ YB \o v = YBv /\ Bytes(b) = P \o YB
    BY <1>6, <1>8, <2>4
  <2> HIDE DEF YB, YBv, P
  <2>7. Below(u, YBv)
    <3>1. u[1] < YBv[1]
      BY <1>2, <2>5
    <3> QED
      BY <1>2, <2>5, <3>1, BelowFirst
  <2>8. Below(P \o u, P \o YBv)
    BY <1>2, <1>7, <2>5, <2>7, BelowPrefix
  <2>9. (P \o YB) \o v = P \o (YB \o v)
    <3>1. Joining(P, YB, v)
      BY <1>2, <1>7, <2>6, Joins, Zenon
    <3> QED
      BY <3>1, Zenon DEF Joining
  <2> QED
    BY <2>3, <2>6, <2>8, <2>9
<1> QED
  BY <1>10, <1>11

=============================================================================
