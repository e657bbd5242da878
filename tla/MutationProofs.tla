--------------------------- MODULE MutationProofs ---------------------------
(* Theorems about the writers of keys, for any fields, indices and         *)
(* terminators and any limit of the length of a key.                       *)
EXTENDS Mutation, PathProofs, FiniteSetTheorems

-----------------------------------------------------------------------------
(* Segments of paths *)

\* A fractional index is a sequence of the segments that PathProofs is about
LEMMA IndexPairs ==
  ASSUME NEW index \in Index
  PROVE  index \in Seq(Pair)
<1>1. index \in Seq(Nat \X Nat) /\ Len(index) \in Nat /\ DOMAIN index = 1..Len(index)
  BY IndexAssumption, LenProperties
<1>2. ASSUME NEW i \in DOMAIN index PROVE index[i] \in Pair
  <2>1. index[i] \in Nat \X Nat
    BY <1>1, ElementOfSeq
  <2>2. index[i][1] # 0 /\ Fits(index[i][1], 4) /\ Fits(index[i][2], 4)
    BY IndexAssumption
  <2> QED
    BY <2>1, <2>2 DEF Pair
<1> QED
  BY <1>1, <1>2, Retyped

\* Segment::write writes bytes
LEMMA BytesType ==
  ASSUME NEW index \in Index
  PROVE  Bytes(index) \in ByteString
BY IndexPairs, IndexCoding

\* A segment of a path is a kind and bytes
LEMMA SegmentType ==
  ASSUME NEW segment \in Segment
  PROVE  /\ segment[1] \in {"field", "index"} /\ segment[2] \in ByteString
         /\ Len(segment[2]) \in Nat
<1>1. segment[1] \in {"field", "index"} /\ segment[2] \in ByteString
  BY FieldAssumption, BytesType DEF Segment
<1> QED
  BY <1>1, LenProperties DEF ByteString

-----------------------------------------------------------------------------
(* The writer and the running calls *)

Terminator ==
  {<<"lww", <<>>>>} \cup {<<"chunked", <<c>>>> : c \in Chunk} \cup {<<"counter", <<p>>>> : p \in Pid}

Writer == [buf : ByteString, written : Nat]

Frame == [trunc : Nat, path : Seq(Segment)]

Key == [path : Seq(Segment \cup Terminator), buf : ByteString]

\* How many segments of a path are indices
IndexCount(path) == Cardinality({i \in DOMAIN path : path[i][1] = "index"})

Typed ==
  /\ client \in {"none", "mutation", "path"}
  /\ w \in Writer
  /\ frames \in Seq(Frame)
  /\ keys \in Seq(Key)
  /\ error \in {"", "InvalidField", "InvalidIndex", "Panic", "TooLong", "Callback"}
  /\ visited \in Nat

\* What has been counted never exceeds the limit, and covers every length a loop
\* truncates to, but for the delimiters of indices
Counted ==
  /\ w.written <= MaxLength
  /\ \A i \in DOMAIN frames : frames[i].trunc <= w.written + IndexCount(frames[i].path)

\* Calls inside each other keep at least what the outer ones keep, and between
\* two changes the buffer is as long as the innermost one keeps it
Stacked ==
  /\ \A i, j \in DOMAIN frames : i <= j => frames[i].trunc <= frames[j].trunc
  /\ client = "none" => frames = <<>> /\ w = new
  /\ client = "mutation" => /\ frames = <<>> => Len(w.buf) = 0
                            /\ frames # <<>> => Len(w.buf) = frames[Len(frames)].trunc
                            /\ w.written <= visited

\* A path of its own has no loop that truncates
OwnPath ==
  client = "path" => /\ Len(frames) = 1 /\ frames[1].trunc = 0
                     /\ Len(w.buf) <= w.written + IndexCount(frames[1].path)

Inv == Typed /\ Counted /\ Stacked /\ OwnPath

\* The fields of a result
LEMMA WrittenFields ==
  ASSUME NEW writer, NEW bytes, NEW n
  PROVE  /\ Written(writer, bytes, n).error = ""
         /\ Written(writer, bytes, n).w = [buf |-> writer.buf \o bytes,
                                          written |-> writer.written + n]
BY Zenon DEF Written

\* and of a refusal
LEMMA RefusedFields ==
  ASSUME NEW writer, NEW how
  PROVE  Refused(writer, how).error = how /\ Refused(writer, how).w = writer
BY DEF Refused

\* Writing bytes makes the buffer that much longer
LEMMA WrittenResult ==
  ASSUME NEW writer \in Writer, NEW bytes \in ByteString, NEW n \in Nat
  PROVE  /\ Written(writer, bytes, n).w \in Writer
         /\ Len(Written(writer, bytes, n).w.buf) = Len(writer.buf) + Len(bytes)
         /\ Written(writer, bytes, n).w.written = writer.written + n
         /\ Written(writer, bytes, n).w.buf = writer.buf \o bytes
<1>1. writer.buf \in Seq(0..255) /\ writer.written \in Nat /\ bytes \in Seq(0..255)
  BY DEF Writer, ByteString
<1> DEFINE all == writer.buf \o bytes
<1>2. all \in Seq(0..255) /\ Len(all) = Len(writer.buf) + Len(bytes)
  BY <1>1, ConcatProperties
<1>3. Written(writer, bytes, n).w = [buf |-> all, written |-> writer.written + n]
  BY WrittenFields
<1> HIDE DEF all
<1>4. writer.written + n \in Nat
  BY <1>1
<1>5. /\ Written(writer, bytes, n).w.buf = all
      /\ Written(writer, bytes, n).w.written = writer.written + n
      /\ Written(writer, bytes, n).w \in Writer
  BY <1>2, <1>3, <1>4 DEF Writer, ByteString
<1> QED
  BY <1>2, <1>5 DEF all

\* The delimiter and a string of bytes
LEMMA Delimited ==
  ASSUME NEW bytes \in ByteString
  PROVE  <<DELIMITER>> \o bytes \in ByteString /\ Len(<<DELIMITER>> \o bytes) = 1 + Len(bytes)
<1>1. <<DELIMITER>> \in Seq(0..255) /\ Len(<<DELIMITER>>) = 1
  BY DEF DELIMITER
<1> QED
  BY <1>1, ConcatProperties DEF ByteString

\* Addition of natural numbers
LEMMA Added == \A a, b, c \in Nat : a + (b + c) = a + b + c
OBVIOUS

\* Segment::write: what is written, what is counted and when it is refused
LEMMA WriteResult ==
  ASSUME NEW writer \in Writer, NEW segment \in Segment
  PROVE  LET r == Write(writer, segment)
             len == Len(segment[2])
         IN  /\ r.error \in {"", "InvalidField", "InvalidIndex", "Panic", "TooLong"}
             /\ r.w \in Writer
             /\ r.error = "TooLong" => writer.written + 1 + len > MaxLength
             /\ r.error = "" => /\ writer.written + 1 + len <= MaxLength
                               /\ Len(r.w.buf) = Len(writer.buf) + 1 + len
                               /\ r.w.written = writer.written + len
                                                + (IF segment[1] = "index" THEN 0 ELSE 1)
<1> DEFINE bytes == segment[2]
           len == Len(bytes)
           r == Write(writer, segment)
           more == <<DELIMITER>> \o bytes
           full == ~(writer.written + (1 + len) <= MaxLength)
           counted == len + (IF segment[1] = "index" THEN 0 ELSE 1)
<1>1. /\ segment[1] \in {"field", "index"} /\ bytes \in ByteString /\ len \in Nat
      /\ counted \in Nat
  <2>1. /\ segment[1] \in {"field", "index"} /\ bytes \in ByteString /\ len \in Nat
    BY SegmentType
  <2> HIDE DEF len
  <2> QED
    BY <2>1
<1>2. writer.buf \in ByteString /\ writer.written \in Nat /\ Len(writer.buf) \in Nat
  BY LenProperties DEF Writer, ByteString
<1>3. more \in ByteString /\ Len(more) = 1 + len
  BY <1>1, Delimited
<1>4. \/ r = Refused(writer, "InvalidField") \/ r = Refused(writer, "InvalidIndex")
      \/ r = Refused(writer, "Panic")
      \/ r = Refused(writer, "TooLong") /\ full
      \/ r = Written(writer, more, counted) /\ ~full
  <2>1. CASE segment[1] = "field"
    <3>1. r = push_field(writer, bytes) /\ counted = 1 + len
      BY <1>1, <2>1 DEF Write
    <3> HIDE DEF r, bytes, len, counted
    <3> QED
      BY <3>1 DEF push_field, ensure_capacity, len
  <2>2. CASE segment[1] = "index"
    <3>1. /\ \/ r = Refused(writer, "InvalidIndex") \/ r = Refused(writer, "Panic")
             \/ r = push_index(writer, bytes)
          /\ counted = len
      BY <1>1, <2>2 DEF Write
    <3> HIDE DEF r, bytes, len, counted
    <3> QED
      BY <3>1 DEF push_index, ensure_capacity, len
  <2> QED
    BY <1>1, <2>1, <2>2
<1> HIDE DEF r, more
<1>5. CASE \/ r = Refused(writer, "InvalidField") \/ r = Refused(writer, "InvalidIndex")
           \/ r = Refused(writer, "Panic")
  <2>1. r.error \in {"InvalidField", "InvalidIndex", "Panic"} /\ r.w = writer
    BY <1>5, RefusedFields
  <2> QED
    BY <2>1 DEF r
<1>6. CASE r = Refused(writer, "TooLong") /\ full
  <2>1. r.error = "TooLong" /\ r.w = writer
    BY <1>6, RefusedFields
  <2>2. writer.written + 1 + len > MaxLength
    BY <1>1, <1>2, <1>6, MaxLengthAssumption
  <2> QED
    BY <2>1, <2>2 DEF r
<1>7. CASE r = Written(writer, more, counted) /\ ~full
  <2>1. r.error = ""
    BY <1>7, WrittenFields
  <2>2. r.w \in Writer /\ Len(r.w.buf) = Len(writer.buf) + Len(more) /\ r.w.written = writer.written + counted
    BY <1>1, <1>3, <1>7, WrittenResult
  <2>3. Len(r.w.buf) = Len(writer.buf) + 1 + len
    <3>1. Len(writer.buf) + (1 + len) = Len(writer.buf) + 1 + len
      <4> DEFINE old == Len(writer.buf)
      <4>1. old \in Nat
        BY <1>2
      <4> HIDE DEF old, len
      <4>2. old + (1 + len) = old + 1 + len
        BY <1>1, <4>1
      <4> QED
        BY <4>2 DEF old
    <3> QED
      BY <1>3, <2>2, <3>1, Zenon
  <2>4. writer.written + 1 + len <= MaxLength
    BY <1>1, <1>2, <1>7
  <2>5. r.w.written = writer.written + len + (IF segment[1] = "index" THEN 0 ELSE 1)
    <3> DEFINE bit == IF segment[1] = "index" THEN 0 ELSE 1
    <3>1. bit \in Nat
      OBVIOUS
    <3>2. writer.written + (len + bit) = writer.written + len + bit
      <4> HIDE DEF bit, len
      <4> QED
        BY <1>1, <1>2, <3>1, Added
    <3> QED
      BY <2>2, <3>2, Zenon
  <2> QED
    BY <2>1, <2>2, <2>3, <2>4, <2>5 DEF r
<1> QED
  BY <1>4, <1>5, <1>6, <1>7

\* A path one segment longer has one index more, or as many
LEMMA IndexCountAppend ==
  ASSUME NEW S, NEW path \in Seq(S), NEW s
  PROVE  /\ IndexCount(path) \in Nat
         /\ IndexCount(Append(path, s)) = IndexCount(path) + (IF s[1] = "index" THEN 1 ELSE 0)
<1> DEFINE n == Len(path)
           longer == Append(path, s)
           A == {i \in DOMAIN path : path[i][1] = "index"}
           B == {i \in DOMAIN longer : longer[i][1] = "index"}
<1>1. n \in Nat /\ DOMAIN path = 1..n
  BY LenProperties
<1>2. /\ DOMAIN longer = 1..(n + 1) /\ longer[n + 1] = s
      /\ \A i \in 1..n : longer[i] = path[i]
  BY <1>1
<1>3. IsFiniteSet(A) /\ Cardinality(A) \in Nat
  <2>1. IsFiniteSet(1..n)
    BY <1>1, FS_Interval
  <2>2. A \in SUBSET (1..n)
    BY <1>1
  <2> QED
    BY <2>1, <2>2, FS_Subset, FS_CardinalityType
<1>4. n + 1 \notin A
  BY <1>1
<1>7. IndexCount(path) = Cardinality(A) /\ IndexCount(longer) = Cardinality(B)
  BY DEF IndexCount
<1>5. CASE s[1] = "index"
  <2>1. B = A \cup {n + 1}
    <3>1. 1..(n + 1) = (1..n) \cup {n + 1}
      BY <1>1
    <3> HIDE DEF longer, n
    <3> QED
      BY <1>1, <1>2, <1>5, <3>1
  <2>2. Cardinality(B) = Cardinality(A) + 1
    <3> HIDE DEF A, B
    <3> QED
      BY <1>3, <1>4, <2>1, FS_AddElement
  <2> QED
    BY <1>3, <1>5, <1>7, <2>2
<1>6. CASE s[1] # "index"
  <2>1. B = A
    <3>1. 1..(n + 1) = (1..n) \cup {n + 1}
      BY <1>1
    <3> HIDE DEF longer, n
    <3> QED
      BY <1>1, <1>2, <1>6, <3>1
  <2> HIDE DEF A, B
  <2> QED
    BY <1>3, <1>6, <1>7, <2>1
<1> QED
  BY <1>5, <1>6

\* An empty path has none
LEMMA IndexCountEmpty == IndexCount(<<>>) = 0
<1>1. {i \in DOMAIN <<>> : <<>>[i][1] = "index"} = {}
  OBVIOUS
<1> QED
  BY <1>1, FS_EmptySet DEF IndexCount

-----------------------------------------------------------------------------
(* The steps *)

\* What the frames and the writer are
LEMMA FrameFacts ==
  ASSUME Typed
  PROVE  /\ Len(frames) \in Nat /\ DOMAIN frames = 1..Len(frames)
         /\ \A i \in DOMAIN frames : /\ frames[i] \in Frame /\ frames[i].trunc \in Nat
                                     /\ frames[i].path \in Seq(Segment)
                                     /\ IndexCount(frames[i].path) \in Nat
         /\ w.buf \in ByteString /\ Len(w.buf) \in Nat /\ w.written \in Nat
<1>1. frames \in Seq(Frame) /\ w \in Writer
  BY DEF Typed
<1>2. Len(frames) \in Nat /\ DOMAIN frames = 1..Len(frames)
  BY <1>1, LenProperties
<1>3. ASSUME NEW i \in DOMAIN frames
      PROVE  /\ frames[i] \in Frame /\ frames[i].trunc \in Nat
             /\ frames[i].path \in Seq(Segment) /\ IndexCount(frames[i].path) \in Nat
  <2>1. frames[i] \in Frame
    BY <1>1, <1>2, ElementOfSeq
  <2>2. frames[i].trunc \in Nat /\ frames[i].path \in Seq(Segment)
    BY <2>1 DEF Frame
  <2> QED
    BY <2>1, <2>2, IndexCountAppend
<1>4. w.buf \in ByteString /\ w.written \in Nat
  BY <1>1 DEF Writer
<1>5. Len(w.buf) \in Nat
  BY <1>4, LenProperties DEF ByteString
<1> QED
  BY <1>2, <1>3, <1>4, <1>5

\* The place of a writer: its buffer is covered by what was counted
LEMMA PlaceFacts ==
  ASSUME Inv, client # "none"
  PROVE  /\ Place \in Seq(Segment) /\ IndexCount(Place) \in Nat
         /\ Len(w.buf) <= w.written + IndexCount(Place)
         /\ client = "mutation" => \A i \in DOMAIN frames : frames[i].trunc <= Len(w.buf)
<1>1. Typed /\ client \in {"mutation", "path"}
  BY DEF Inv, Typed
<1>2. CASE frames = <<>>
  <2>1. Place = <<>> /\ Place \in Seq(Segment) /\ IndexCount(Place) = 0
    BY <1>2, IndexCountEmpty DEF Place
  <2>2. client = "mutation" /\ Len(w.buf) = 0 /\ DOMAIN frames = {}
    <3>1. Len(frames) = 0
      BY <1>2
    <3> QED
      BY <1>1, <1>2, <3>1 DEF Inv, Stacked, OwnPath
  <2> QED
    BY <1>1, <2>1, <2>2, FrameFacts
<1>3. CASE frames # <<>>
  <2> DEFINE n == Len(frames)
  <2>1. n \in DOMAIN frames /\ n \in Nat /\ n >= 1
    <3>1. frames \in Seq(Frame)
      BY <1>1 DEF Typed
    <3>2. n # 0
      BY <1>3, <3>1, EmptySeq
    <3> QED
      BY <1>1, <3>2, FrameFacts
  <2>2. Place = frames[n].path
    BY <1>3 DEF Place, Last
  <2>3. frames[n].trunc <= w.written + IndexCount(frames[n].path)
    BY <2>1 DEF Inv, Counted
  <2>4. \A i \in DOMAIN frames : frames[i].trunc <= frames[n].trunc
    <3>1. \A i \in DOMAIN frames : i <= n
      BY <1>1, FrameFacts
    <3> QED
      BY <2>1, <3>1 DEF Inv, Stacked
  <2>5. frames[n].path \in Seq(Segment) /\ IndexCount(frames[n].path) \in Nat
    BY <1>1, <2>1, FrameFacts
  <2>6. CASE client = "mutation"
    <3>1. Len(w.buf) = frames[n].trunc
      BY <1>3, <2>6 DEF Inv, Stacked
    <3> QED
      BY <2>2, <2>3, <2>4, <2>5, <3>1
  <2>7. CASE client = "path"
    <3>1. n = 1 /\ Len(w.buf) <= w.written + IndexCount(frames[1].path)
      BY <2>7 DEF Inv, OwnPath
    <3> QED
      BY <2>2, <2>5, <2>7, <3>1
  <2> QED
    BY <1>1, <2>6, <2>7
<1> QED
  BY <1>2, <1>3

\* A new writer without running calls
LEMMA Fresh ==
  /\ new \in Writer /\ new.written = 0 /\ new.buf = <<>> /\ Len(new.buf) = 0
  /\ <<>> \in Seq(Frame) /\ DOMAIN <<>> = {} /\ Len(<<>>) = 0
<1>1. <<>> \in Seq(Frame) /\ <<>> \in Seq(0..255) /\ Len(<<>>) = 0
  BY EmptySeq
<1>2. DOMAIN <<>> = {}
  OBVIOUS
<1>3. new.buf = <<>> /\ new.written = 0
  BY DEF new
<1>4. new \in Writer
  BY <1>1 DEF new, Writer, ByteString
<1> QED
  BY <1>1, <1>2, <1>3, <1>4, Zenon

\* The limit is a natural number
LEMMA LimitIsNat == 0 <= MaxLength
BY MaxLengthAssumption

\* A client ends
LEMMA EndStep ==
  ASSUME client' = "none", w' = new, frames' = <<>>, keys' \in Seq(Key), visited' \in Nat,
         error' \in {"", "InvalidField", "InvalidIndex", "Panic", "TooLong", "Callback"}
  PROVE  Inv'
<1>1. frames' \in Seq(Frame) /\ DOMAIN frames' = {} /\ Len(frames') = 0
  BY Fresh, Zenon
<1>2. w' \in Writer /\ w'.written = 0
  BY Fresh, Zenon
<1>3. Typed'
  BY <1>1, <1>2 DEF Typed
<1>4. Counted'
  <2>2. w'.written <= MaxLength
    BY <1>2, LimitIsNat, Zenon
  <2> QED
    BY <1>1, <2>2, Zenon DEF Counted
<1>5. Stacked' /\ OwnPath'
  BY <1>1 DEF Stacked, OwnPath
<1> QED
  BY <1>3, <1>4, <1>5 DEF Inv

\* A loop begins inside the running ones
LEMMA PushStep ==
  ASSUME Inv, client = "mutation", NEW top \in Frame, frames' = Append(frames, top),
         w' \in Writer, w.written <= w'.written, w'.written <= MaxLength,
         top.trunc = Len(w'.buf), Len(w.buf) <= top.trunc,
         top.trunc <= w'.written + IndexCount(top.path),
         UNCHANGED <<client, keys, error>>, visited' \in Nat, w'.written <= visited'
  PROVE  Inv'
<1> DEFINE n == Len(frames)
<1>1. Typed
  BY DEF Inv
<1>2. /\ n \in Nat /\ DOMAIN frames = 1..n
      /\ \A i \in 1..n : frames[i].trunc \in Nat /\ IndexCount(frames[i].path) \in Nat
      /\ w.written \in Nat
  BY <1>1, FrameFacts
<1>3. top.trunc \in Nat /\ IndexCount(top.path) \in Nat /\ w'.written \in Nat /\ Len(w.buf) \in Nat
  <2>1. top.trunc \in Nat /\ top.path \in Seq(Segment) /\ w'.written \in Nat
    BY DEF Frame, Writer
  <2> QED
    BY <1>1, <2>1, IndexCountAppend, FrameFacts
<1>4. /\ frames' \in Seq(Frame) /\ Len(frames') = n + 1 /\ DOMAIN frames' = 1..(n + 1)
      /\ frames'[n + 1] = top /\ \A i \in 1..n : frames'[i] = frames[i]
  <2>1. frames \in Seq(Frame)
    BY <1>1 DEF Typed
  <2> QED
    BY <1>2, <2>1, AppendProperties, LenProperties
<1>5. Typed'
  BY <1>1, <1>4 DEF Typed
<1>6. \A i \in 1..(n + 1) : i = n + 1 \/ i \in 1..n
  BY <1>2
<1>7. \A i \in 1..n : frames[i].trunc <= top.trunc
  <2>1. \A i \in 1..n : frames[i].trunc <= Len(w.buf)
    BY <1>2, PlaceFacts
  <2> QED
    BY <1>2, <1>3, <2>1
<1> HIDE DEF n
<1>8. Counted'
  <2>1. \A i \in 1..n : frames[i].trunc <= w.written + IndexCount(frames[i].path)
    BY <1>2 DEF Inv, Counted
  <2>2. ASSUME NEW i \in 1..n
        PROVE  frames'[i].trunc <= w'.written + IndexCount(frames'[i].path)
    <3>1. frames[i].trunc <= w.written + IndexCount(frames[i].path)
      BY <2>1
    <3> DEFINE t == frames[i].trunc
               x == IndexCount(frames[i].path)
    <3>2. t \in Nat /\ x \in Nat /\ t <= w.written + x
      BY <1>2, <3>1
    <3> HIDE DEF t, x
    <3>3. t <= w'.written + x
      BY <1>2, <1>3, <3>2, SMTT(30)
    <3> QED
      BY <1>4, <3>3, Zenon DEF t, x
  <2> QED
    BY <1>4, <1>6, <2>2 DEF Counted
<1>9. Stacked'
  <2>1. \A i, j \in 1..n : i <= j => frames[i].trunc <= frames[j].trunc
    BY <1>2 DEF Inv, Stacked
  <2>2. ASSUME NEW i \in 1..(n + 1), NEW j \in 1..(n + 1), i <= j
        PROVE  frames'[i].trunc <= frames'[j].trunc
    <3>1. CASE j = n + 1
      BY <1>2, <1>3, <1>4, <1>6, <1>7, <3>1
    <3>2. CASE j # n + 1
      <4>1. i \in 1..n /\ j \in 1..n
        BY <1>2, <2>2, <3>2
      <4> QED
        BY <1>4, <2>1, <2>2, <4>1
    <3> QED
      BY <3>1, <3>2
  <2>3. frames' # <<>>
    BY <1>2, <1>4
  <2> QED
    BY <1>4, <2>2, <2>3 DEF Stacked
<1>10. OwnPath'
  BY DEF OwnPath
<1> QED
  BY <1>5, <1>8, <1>9, <1>10 DEF Inv

\* A string without its end
LEMMA PrefixFacts ==
  ASSUME NEW S, NEW b \in Seq(S), NEW k \in 0..Len(b)
  PROVE  /\ SubSeq(b, 1, k) \in Seq(S) /\ Len(SubSeq(b, 1, k)) = k
         /\ \A i \in 1..k : SubSeq(b, 1, k)[i] = b[i]
<1>1. Len(b) \in Nat /\ k \in Nat /\ k \in Int /\ k <= Len(b)
  BY LenProperties
<1>2. \A i \in 1..k : b[i] \in S
  BY <1>1, ElementOfSeq
<1>3. /\ SubSeq(b, 1, k) \in Seq(S)
      /\ Len(SubSeq(b, 1, k)) = IF 1 <= k THEN k - 1 + 1 ELSE 0
      /\ \A i \in 1..(k - 1 + 1) : SubSeq(b, 1, k)[i] = b[1 + i - 1]
  BY <1>1, <1>2, SubSeqProperties
<1>4. (IF 1 <= k THEN k - 1 + 1 ELSE 0) = k /\ k - 1 + 1 = k /\ \A i \in 1..k : 1 + i - 1 = i
  BY <1>1
<1> QED
  BY <1>3, <1>4

\* The loop of a call truncates the buffer
LEMMA TruncatedFacts ==
  ASSUME NEW writer \in Writer, NEW running, Last(running).trunc \in 0..Len(writer.buf)
  PROVE  /\ Truncated(writer, running) \in Writer
         /\ Len(Truncated(writer, running).buf) = Last(running).trunc
         /\ Truncated(writer, running).written = writer.written
<1> DEFINE k == Last(running).trunc
           short == SubSeq(writer.buf, 1, k)
<1>1. writer.buf \in Seq(0..255) /\ writer.written \in Nat /\ k \in Nat /\ k <= Len(writer.buf)
  BY LenProperties DEF Writer, ByteString
<1>2. short \in Seq(0..255) /\ Len(short) = k
  BY <1>1, PrefixFacts, ZenonT(40)
<1> HIDE DEF short
<1>3. Truncated(writer, running) = [writer EXCEPT !.buf = short]
  BY DEF Truncated, short
<1>4. /\ [writer EXCEPT !.buf = short] \in Writer
      /\ [writer EXCEPT !.buf = short].buf = short
      /\ [writer EXCEPT !.buf = short].written = writer.written
  BY <1>2 DEF Writer, ByteString
<1> QED
  BY <1>2, <1>3, <1>4

\* Of the running calls k remain, and the last of them truncates
LEMMA PopStep ==
  ASSUME Inv, client = "mutation", NEW k \in 1..Len(frames), NEW writer \in Writer,
         w.written <= writer.written, writer.written <= MaxLength, Len(w.buf) <= Len(writer.buf),
         frames' \in Seq(Frame), Len(frames') = k, \A i \in 1..k : frames'[i] = frames[i],
         w' = Truncated(writer, frames'), UNCHANGED <<client, error>>, keys' \in Seq(Key),
         visited' \in Nat, writer.written <= visited'
  PROVE  Inv'
<1> DEFINE n == Len(frames)
<1>1. Typed
  BY DEF Inv
<1>2. /\ n \in Nat /\ k \in Nat /\ k <= n /\ DOMAIN frames = 1..n
      /\ \A i \in 1..n : frames[i].trunc \in Nat /\ IndexCount(frames[i].path) \in Nat
      /\ w.written \in Nat /\ Len(w.buf) \in Nat
  BY <1>1, FrameFacts
<1>3. DOMAIN frames' = 1..k /\ frames' # <<>> /\ k \in 1..k
  <2>1. Len(<<>>) = 0
    BY Fresh
  <2> QED
    BY <1>2, <2>1, LenProperties
<1>4. \A i \in 1..k : i \in 1..n
  BY <1>2
<1>5. frames[k].trunc \in 0..Len(writer.buf) /\ writer.written \in Nat
  <2>1. frames[k].trunc <= Len(w.buf)
    BY <1>2, <1>3, <1>4, PlaceFacts
  <2>2. Len(writer.buf) \in Nat /\ writer.written \in Nat
    BY LenProperties DEF Writer, ByteString
  <2> QED
    BY <1>2, <1>3, <1>4, <2>1, <2>2
<1>6. Last(frames').trunc = frames[k].trunc
  BY <1>3 DEF Last
<1>7. w' \in Writer /\ Len(w'.buf) = frames[k].trunc /\ w'.written = writer.written
  BY <1>5, <1>6, TruncatedFacts
<1> HIDE DEF n
<1>8. Typed'
  BY <1>1, <1>7 DEF Typed
<1>9. Counted'
  <2>1. ASSUME NEW i \in 1..k
        PROVE  frames'[i].trunc <= w'.written + IndexCount(frames'[i].path)
    <3> DEFINE t == frames[i].trunc
               x == IndexCount(frames[i].path)
    <3>1. t <= w.written + x
      BY <1>2, <1>4 DEF Inv, Counted
    <3>2. t \in Nat /\ x \in Nat
      BY <1>2, <1>4
    <3> HIDE DEF t, x
    <3>3. t <= writer.written + x
      BY <1>2, <1>5, <3>1, <3>2
    <3> QED
      BY <1>7, <3>3, Zenon DEF t, x
  <2> QED
    BY <1>3, <1>7, <2>1, Zenon DEF Counted
<1>10. Stacked'
  <2>1. \A i, j \in 1..k : i <= j => frames'[i].trunc <= frames'[j].trunc
    BY <1>2, <1>4 DEF Inv, Stacked
  <2>2. Len(w'.buf) = frames'[Len(frames')].trunc
    BY <1>3, <1>7
  <2>3. w'.written <= visited'
    BY <1>7
  <2> QED
    BY <1>3, <2>1, <2>2, <2>3 DEF Stacked
<1>11. OwnPath'
  BY DEF OwnPath
<1> QED
  BY <1>8, <1>9, <1>10, <1>11 DEF Inv

\* The keys stay keys
LEMMA KeysAppend ==
  ASSUME Typed, NEW key \in Key, keys' = Append(keys, key)
  PROVE  keys' \in Seq(Key)
<1>1. keys \in Seq(Key)
  BY DEF Typed
<1> QED
  BY <1>1, AppendProperties

\* Mutation::for_each and the client of a path start with a new writer
LEMMA StartStep ==
  ASSUME Inv, for_each \/ Begin
  PROVE  Inv'
<1>1. Typed
  BY DEF Inv
<1>2. 0 \in Nat /\ 0 <= 0
  OBVIOUS
<1>3. CASE for_each
  <2>1. client = "none" /\ client' = "mutation" /\ w' = new /\ error' = "" /\ visited' = 0
        /\ frames' = frames /\ keys' = keys
    BY <1>3 DEF for_each
  <2>2. frames' = <<>>
    BY <2>1 DEF Inv, Stacked
  <2>3. Typed'
    BY <1>1, <1>2, <2>1, Fresh, Zenon DEF Typed
  <2>4. DOMAIN frames' = {} /\ w'.written = 0 /\ Len(w'.buf) = 0
    BY <2>1, <2>2, Fresh, Zenon
  <2>5. Counted'
    BY <2>4, LimitIsNat, Zenon DEF Counted
  <2>6. Stacked'
    BY <1>2, <2>1, <2>2, <2>4, Zenon DEF Stacked
  <2>7. OwnPath'
    BY <2>1 DEF OwnPath
  <2> QED
    BY <2>3, <2>5, <2>6, <2>7 DEF Inv
<1>4. CASE Begin
  <2> DEFINE top == [trunc |-> 0, path |-> <<>>]
  <2>1. client = "none" /\ client' = "path" /\ w' = new /\ error' = "" /\ visited' = 0
        /\ frames' = <<top>> /\ keys' = keys
    BY <1>4 DEF Begin
  <2>2. top \in Frame /\ top.trunc = 0 /\ top.path = <<>>
    <3>1. <<>> \in Seq(Segment)
      BY EmptySeq
    <3> QED
      BY <3>1 DEF Frame
  <2> HIDE DEF top
  <2>3. /\ <<top>> \in Seq(Frame) /\ Len(<<top>>) = 1 /\ <<top>>[1] = top /\ DOMAIN <<top>> = {1}
        /\ <<top>> # <<>>
    BY <2>2
  <2>4. Typed'
    BY <1>1, <1>2, <2>1, <2>3, Fresh, Zenon DEF Typed
  <2>5. w'.written = 0 /\ Len(w'.buf) = 0 /\ IndexCount(top.path) = 0
    BY <2>1, <2>2, Fresh, IndexCountEmpty, Zenon
  <2>6. 0 <= 0 + 0
    OBVIOUS
  <2>7. Counted'
    BY <2>1, <2>2, <2>3, <2>5, <2>6, LimitIsNat, Zenon DEF Counted
  <2>8. Stacked'
    BY <2>1, <2>2, <2>3, <1>2, Zenon DEF Stacked
  <2>9. OwnPath'
    BY <2>1, <2>2, <2>3, <2>5, <2>6, Zenon DEF OwnPath
  <2> QED
    BY <2>4, <2>7, <2>8, <2>9 DEF Inv
<1> QED
  BY <1>3, <1>4

-----------------------------------------------------------------------------
(* Terminators *)

Bounded(key) == Len(key.buf) <= MaxLength + 6 + IndexCount(key.path)

\* The fields of a key
LEMMA KeyFields ==
  ASSUME NEW p, NEW b
  PROVE  [path |-> p, buf |-> b].path = p /\ [path |-> p, buf |-> b].buf = b
OBVIOUS

\* A key is what the writer holds and a terminator of at most six bytes beyond
\* what was checked
LEMMA Terminated ==
  ASSUME NEW writer \in Writer, NEW place \in Seq(Segment), NEW term \in Terminator,
         NEW bytes \in ByteString, Len(writer.buf) <= writer.written + IndexCount(place),
         writer.written + Len(bytes) <= MaxLength + 6,
         NEW key, key = [path |-> Append(place, term), buf |-> writer.buf \o bytes]
  PROVE  key \in Key /\ Bounded(key)
<1>1. writer.buf \in Seq(0..255) /\ writer.written \in Nat /\ bytes \in Seq(0..255)
  BY DEF Writer, ByteString
<1>2. Len(writer.buf) \in Nat /\ Len(bytes) \in Nat
  BY <1>1, LenProperties
<1>3. /\ writer.buf \o bytes \in ByteString
      /\ Len(writer.buf \o bytes) = Len(writer.buf) + Len(bytes)
  BY <1>1, ConcatProperties DEF ByteString
<1>4. term[1] # "index"
  BY DEF Terminator
<1>5. IndexCount(place) \in Nat /\ IndexCount(Append(place, term)) = IndexCount(place)
  <2>1. IndexCount(place) \in Nat
    BY IndexCountAppend
  <2>2. IndexCount(Append(place, term)) = IndexCount(place) + 0
    BY <1>4, IndexCountAppend
  <2> QED
    BY <2>1, <2>2
<1>6. Append(place, term) \in Seq(Segment \cup Terminator)
  <2>1. place \in Seq(Segment \cup Terminator)
    <3>1. Len(place) \in Nat /\ \A i \in 1..Len(place) : place[i] \in Segment
      BY LenProperties, ElementOfSeq
    <3> HIDE DEF Segment, Terminator
    <3> QED
      BY <3>1, LenProperties
  <2> QED
    BY <2>1, AppendProperties
<1> DEFINE path == Append(place, term)
           buf == writer.buf \o bytes
<1>7. key.path = path /\ key.buf = buf /\ key \in Key
  <2> HIDE DEF path, buf
  <2>1. path \in Seq(Segment \cup Terminator) /\ buf \in ByteString
    BY <1>3, <1>6 DEF path, buf
  <2>2. key = [path |-> path, buf |-> buf]
    BY DEF path, buf
  <2>3. [path |-> path, buf |-> buf] \in Key
    BY <2>1, Zenon DEF Key
  <2> QED
    BY <2>2, <2>3, KeyFields, Zenon
<1>8. Len(buf) <= MaxLength + 6 + IndexCount(path)
  <2> DEFINE b == Len(writer.buf)
             t == Len(bytes)
             x == IndexCount(place)
  <2>1. b \in Nat /\ t \in Nat /\ x \in Nat /\ b <= writer.written + x /\ writer.written + t <= MaxLength + 6
    BY <1>2, <1>5
  <2>2. Len(buf) = b + t /\ IndexCount(path) = x
    BY <1>3, <1>5
  <2> HIDE DEF b, t, x, path, buf
  <2>3. b + t <= MaxLength + 6 + x
    BY <1>1, <2>1, MaxLengthAssumption
  <2> QED
    BY <2>2, <2>3, Zenon
<1> QED
  BY <1>7, <1>8, Zenon DEF Bounded

\* The bytes of the terminators
LEMMA PidBytesType ==
  ASSUME NEW pid \in Pid
  PROVE  PidBytes(pid) \in ByteString /\ Len(PidBytes(pid)) = 4
<1> DEFINE digits == Significant[pid]
           n == Len(digits)
           zeros == [i \in 1..(4 - n) |-> 0]
<1>1. pid \in Nat /\ n <= 4
  BY TerminatorAssumption DEF Fits
<1>2. digits \in Seq(0..255) /\ n \in Nat
  BY <1>1, SignificantType, LenProperties DEF ByteString
<1> HIDE DEF digits, n
<1>3. 4 - n \in Nat
  BY <1>1, <1>2
<1>4. zeros \in Seq(0..255) /\ Len(zeros) = 4 - n
  BY <1>3
<1> HIDE DEF zeros
<1>5. zeros \o digits \in Seq(0..255) /\ Len(zeros \o digits) = Len(zeros) + Len(digits)
  BY <1>2, <1>4, ConcatProperties
<1>6. (4 - n) + n = 4
  BY <1>2
<1>7. PidBytes(pid) = zeros \o digits
  BY DEF PidBytes, zeros, digits, n
<1>8. Len(zeros \o digits) = 4
  BY <1>4, <1>5, <1>6, Zenon DEF n
<1> QED
  BY <1>5, <1>7, <1>8 DEF ByteString

\* Two bytes and a string
LEMMA Tagged ==
  ASSUME NEW tag \in 0..255, NEW bytes \in ByteString
  PROVE  /\ <<DELIMITER, tag>> \o bytes \in ByteString
         /\ Len(<<DELIMITER, tag>> \o bytes) = 2 + Len(bytes)
         /\ <<DELIMITER, tag>> \in ByteString /\ Len(<<DELIMITER, tag>>) = 2
<1>1. <<DELIMITER, tag>> \in Seq(0..255) /\ Len(<<DELIMITER, tag>>) = 2
  BY DEF DELIMITER
<1> QED
  BY <1>1, ConcatProperties DEF ByteString

\* The tags, and the size of a number, are bytes
LEMMA Tags ==
  /\ TERMINATOR_LWW \in 0..255 /\ TERMINATOR_CHUNKED \in 0..255 /\ TERMINATOR_COUNTER \in 0..255
  /\ 8 \in 0..255
BY DEF TERMINATOR_LWW, TERMINATOR_CHUNKED, TERMINATOR_COUNTER

\* What the three terminators add to what was counted
LEMMA Overshoot ==
  ASSUME NEW n \in Nat
  PROVE  /\ n <= MaxLength => n + 2 <= MaxLength + 6
         /\ n <= MaxLength => n + (2 + 4) <= MaxLength + 6
         /\ \A s \in Nat : n + (2 + s) <= MaxLength => n + (2 + (1 + s)) <= MaxLength + 6
BY MaxLengthAssumption

\* The bytes a terminator adds exceed the limit by at most six
Adds(writer, result, bytes) ==
  result.w.buf = writer.buf \o bytes /\ writer.written + Len(bytes) <= MaxLength + 6

\* PathWriter::lww
LEMMA LwwResult ==
  ASSUME NEW writer \in Writer, writer.written <= MaxLength
  PROVE  \E bytes \in ByteString : Adds(writer, lww(writer), bytes)
<1> DEFINE bytes == <<DELIMITER, TERMINATOR_LWW>>
<1>1. bytes \in ByteString /\ Len(bytes) = 2
  <2>1. <<>> \in ByteString
    BY EmptySeq DEF ByteString
  <2> QED
    BY <2>1, Tags, Tagged
<1>2. lww(writer) = Written(writer, bytes, 0) /\ 0 \in Nat
  BY DEF lww
<1> HIDE DEF bytes
<1>3. lww(writer).w.buf = writer.buf \o bytes
  <2>1. Written(writer, bytes, 0).w.buf = writer.buf \o bytes
    BY <1>1, <1>2, WrittenResult
  <2> QED
    BY <1>2, <2>1, Zenon
<1>4. writer.written \in Nat
  BY DEF Writer
<1>5. writer.written + Len(bytes) <= MaxLength + 6
  BY <1>1, <1>4, Overshoot
<1> QED
  BY <1>1, <1>3, <1>5 DEF Adds

\* PathWriter::lww_chunked
LEMMA ChunkedResult ==
  ASSUME NEW writer \in Writer, NEW c \in Chunk, lww_chunked(writer, c).error = ""
  PROVE  \E bytes \in ByteString : Adds(writer, lww_chunked(writer, c), bytes)
<1> DEFINE bytes == <<DELIMITER, TERMINATOR_CHUNKED>> \o write(c)
           s == Len(Significant[c])
           r == lww_chunked(writer, c)
<1>1. c \in Nat /\ Fits(c, 8) /\ s \in Nat
  BY TerminatorAssumption, SignificantType, LenProperties DEF Fits, ByteString
<1>2. write(c) \in ByteString /\ Len(write(c)) = 1 + s
  BY <1>1, Tags, WriteType
<1>3. bytes \in ByteString /\ Len(bytes) = 2 + (1 + s)
  <2>1. bytes \in ByteString /\ Len(bytes) = 2 + Len(write(c))
    BY <1>2, Tags, Tagged
  <2> QED
    BY <1>2, <2>1, Zenon
<1>4. \/ r = Refused(writer, "TooLong")
      \/ r = Written(writer, bytes, 0) /\ writer.written + (2 + s) <= MaxLength
  <2> HIDE DEF bytes, s
  <2> QED
    BY DEF lww_chunked, ensure_capacity, bytes, s
<1> HIDE DEF bytes, s, r
<1>5. r = Written(writer, bytes, 0) /\ writer.written + (2 + s) <= MaxLength
  <2>1. ASSUME r = Refused(writer, "TooLong") PROVE FALSE
    <3>1. r.error = "TooLong"
      BY <2>1, RefusedFields
    <3> QED
      BY <3>1 DEF r
  <2> QED
    BY <1>4, <2>1
<1>6. r.w.buf = writer.buf \o bytes
  BY <1>3, <1>5, WrittenResult
<1>7. writer.written \in Nat
  BY DEF Writer
<1>8. writer.written + (2 + (1 + s)) <= MaxLength + 6
  BY <1>1, <1>5, <1>7, Overshoot
<1>9. writer.written + Len(bytes) <= MaxLength + 6
  BY <1>3, <1>8, Zenon
<1> QED
  BY <1>3, <1>6, <1>9, Zenon DEF Adds, r

\* PathWriter::counter
LEMMA CounterResult ==
  ASSUME NEW writer \in Writer, writer.written <= MaxLength, NEW pid \in Pid
  PROVE  \E bytes \in ByteString : Adds(writer, counter(writer, pid), bytes)
<1> DEFINE bytes == <<DELIMITER, TERMINATOR_COUNTER>> \o PidBytes(pid)
<1>1. bytes \in ByteString /\ Len(bytes) = 2 + 4
  <2>1. bytes \in ByteString /\ Len(bytes) = 2 + Len(PidBytes(pid))
    BY Tags, PidBytesType, Tagged
  <2> QED
    BY <2>1, PidBytesType, Zenon
<1> HIDE DEF bytes
<1>2. counter(writer, pid) = Written(writer, bytes, 0) /\ 0 \in Nat
  BY DEF counter, bytes
<1>3. counter(writer, pid).w.buf = writer.buf \o bytes
  <2>1. Written(writer, bytes, 0).w.buf = writer.buf \o bytes
    BY <1>1, <1>2, WrittenResult
  <2> QED
    BY <1>2, <2>1, Zenon
<1>4. writer.written \in Nat
  BY DEF Writer
<1>5. writer.written + Len(bytes) <= MaxLength + 6
  BY <1>1, <1>4, Overshoot
<1> QED
  BY <1>1, <1>3, <1>5, Zenon DEF Adds

-----------------------------------------------------------------------------
(* The actions *)

\* The arithmetic of a segment of len bytes: the delimiter is counted or is that
\* of an index
Longer(len, old, x, c, a, l, y) ==
  /\ len \in Nat /\ old \in Nat /\ x \in Nat /\ c \in Nat /\ a \in Nat /\ l \in Nat
  /\ old <= c + x /\ c + 1 + len <= MaxLength /\ l = old + 1 + len
  /\ (y = x + 1 /\ a = c + len + 0) \/ (y = x + 0 /\ a = c + len + 1)

\* keeps the buffer covered
LEMMA Sums ==
  ASSUME NEW len, NEW old, NEW x, NEW c, NEW a, NEW l, NEW y, Longer(len, old, x, c, a, l, y)
  PROVE  l <= a + y /\ old <= l /\ c <= a /\ a <= MaxLength /\ a <= c + 1 + len
BY MaxLengthAssumption DEF Longer

\* One more segment: what was counted still covers the buffer
LEMMA Covered ==
  ASSUME NEW writer \in Writer, NEW place \in Seq(Segment), NEW segment \in Segment,
         Len(writer.buf) <= writer.written + IndexCount(place),
         Write(writer, segment).error = "", NEW after, after = Write(writer, segment).w
  PROVE  /\ after \in Writer /\ Append(place, segment) \in Seq(Segment)
         /\ Len(after.buf) \in Nat /\ after.written \in Nat
         /\ Len(after.buf) <= after.written + IndexCount(Append(place, segment))
         /\ Len(writer.buf) <= Len(after.buf)
         /\ writer.written <= after.written /\ after.written <= MaxLength
         /\ after.written <= writer.written + 1 + Len(segment[2])
<1> DEFINE len == Len(segment[2])
           old == Len(writer.buf)
           x == IndexCount(place)
           y == IndexCount(Append(place, segment))
           c == writer.written
           a == after.written
           l == Len(after.buf)
<1>1. len \in Nat
  BY SegmentType
<1>2. c \in Nat /\ old \in Nat /\ old <= c + x
  BY LenProperties DEF Writer, ByteString
<1>3. x \in Nat /\ y = x + (IF segment[1] = "index" THEN 1 ELSE 0)
  BY IndexCountAppend
<1>4. /\ after \in Writer /\ c + 1 + len <= MaxLength /\ l = old + 1 + len
      /\ a = c + len + (IF segment[1] = "index" THEN 0 ELSE 1)
  BY WriteResult
<1>5. Append(place, segment) \in Seq(Segment)
  BY AppendProperties
<1>6. a \in Nat /\ l \in Nat
  BY <1>4, LenProperties DEF Writer, ByteString
<1> HIDE DEF len, old, x, y, c, a, l
<1>9. /\ len \in Nat /\ old \in Nat /\ x \in Nat /\ c \in Nat /\ a \in Nat /\ l \in Nat
      /\ old <= c + x /\ c + 1 + len <= MaxLength /\ l = old + 1 + len
  BY <1>1, <1>2, <1>3, <1>4, <1>6, Zenon
<1>7. CASE segment[1] = "index"
  <2>1. y = x + 1 /\ a = c + len + 0
    BY <1>3, <1>4, <1>7
  <2>2. l <= a + y /\ old <= l /\ c <= a /\ a <= MaxLength /\ a <= c + 1 + len
    <3>1. Longer(len, old, x, c, a, l, y)
      BY <1>9, <2>1, Zenon DEF Longer
    <3> QED
      BY <3>1, Sums, Zenon
  <2> QED
    BY <1>4, <1>5, <1>6, <2>2 DEF len, old, x, y, c, a, l
<1>8. CASE segment[1] # "index"
  <2>1. y = x + 0 /\ a = c + len + 1
    BY <1>3, <1>4, <1>8
  <2>2. l <= a + y /\ old <= l /\ c <= a /\ a <= MaxLength /\ a <= c + 1 + len
    <3>1. Longer(len, old, x, c, a, l, y)
      BY <1>9, <2>1, Zenon DEF Longer
    <3> QED
      BY <3>1, Sums, Zenon
  <2> QED
    BY <1>4, <1>5, <1>6, <2>2 DEF len, old, x, y, c, a, l
<1> QED
  BY <1>7, <1>8

\* The same for the place of the writer
LEMMA CoveredHere ==
  ASSUME Inv, client # "none", NEW segment \in Segment, Write(w, segment).error = "",
         NEW after, after = Write(w, segment).w
  PROVE  /\ after \in Writer /\ Append(Place, segment) \in Seq(Segment)
         /\ Len(after.buf) \in Nat /\ after.written \in Nat
         /\ Len(after.buf) <= after.written + IndexCount(Append(Place, segment))
         /\ Len(w.buf) <= Len(after.buf)
         /\ w.written <= after.written /\ after.written <= MaxLength
         /\ after.written <= w.written + 1 + Len(segment[2])
<1>1. w \in Writer /\ Place \in Seq(Segment) /\ Len(w.buf) <= w.written + IndexCount(Place)
  BY PlaceFacts DEF Inv, Typed
<1> QED
  BY <1>1, Covered

\* A frame
LEMMA FrameFields ==
  ASSUME NEW trunc \in Nat, NEW path \in Seq(Segment)
  PROVE  /\ [trunc |-> trunc, path |-> path] \in Frame
         /\ [trunc |-> trunc, path |-> path].trunc = trunc
         /\ [trunc |-> trunc, path |-> path].path = path
BY DEF Frame

\* What a visit adds
LEMMA Visited ==
  ASSUME Typed, NEW segment \in Segment, Visit(segment), w.written <= visited
  PROVE  /\ visited' \in Nat /\ w.written <= visited'
         /\ w.written + 1 + Len(segment[2]) <= visited'
         /\ \A n \in Nat : n <= w.written + 1 + Len(segment[2]) => n <= visited'
<1> DEFINE len == Len(segment[2])
<1>1. len \in Nat /\ visited \in Nat /\ w.written \in Nat
  BY SegmentType, FrameFacts DEF Typed
<1>2. visited' = visited + 1 + len
  BY DEF Visit
<1> HIDE DEF len
<1>3. visited' \in Nat /\ w.written <= visited' /\ w.written + 1 + len <= visited'
  BY <1>1, <1>2
<1>4. \A n \in Nat : n <= w.written + 1 + len => n <= visited'
  BY <1>1, <1>3
<1> QED
  BY <1>3, <1>4 DEF len

\* for_each_internal of a Compose
LEMMA ComposeStep ==
  ASSUME Inv, Compose
  PROVE  Inv'
<1> DEFINE top == [trunc |-> Len(w.buf), path |-> Place]
<1>1. client = "mutation" /\ frames' = Append(frames, top) /\ UNCHANGED <<client, w, keys, error, visited>>
  BY DEF Compose, Running
<1>2. Typed /\ Len(w.buf) \in Nat /\ w.written \in Nat
  BY FrameFacts DEF Inv
<1>3. Place \in Seq(Segment) /\ Len(w.buf) <= w.written + IndexCount(Place)
  BY <1>1, PlaceFacts
<1>4. top \in Frame /\ top.trunc = Len(w.buf) /\ top.path = Place
  BY <1>2, <1>3, FrameFields
<1> HIDE DEF top
<1>5. w' \in Writer /\ w'.written <= MaxLength /\ visited' \in Nat /\ w'.written <= visited'
  BY <1>1, <1>2 DEF Inv, Typed, Counted, Stacked
<1>6. w.written <= w'.written /\ Len(w.buf) <= top.trunc /\ top.trunc = Len(w'.buf)
  BY <1>1, <1>2, <1>4
<1>7. top.trunc <= w'.written + IndexCount(top.path)
  BY <1>1, <1>3, <1>4, Zenon
<1> QED
  BY <1>1, <1>4, <1>5, <1>6, <1>7, PushStep

\* for_each_internal of a Nested
LEMMA NestedStep ==
  ASSUME Inv, NEW segment \in Segment, Nested(segment)
  PROVE  Inv'
<1> DEFINE after == Write(w, segment).w
           top == [trunc |-> Len(after.buf), path |-> Append(Place, segment)]
<1>1. /\ client = "mutation" /\ client # "none" /\ Write(w, segment).error = "" /\ w' = after
      /\ frames' = Append(frames, top) /\ Visit(segment) /\ UNCHANGED <<client, keys, error>>
  BY DEF Nested, Running
<1> HIDE DEF after
<1>2. /\ after \in Writer /\ Append(Place, segment) \in Seq(Segment)
      /\ Len(after.buf) \in Nat /\ after.written \in Nat
      /\ Len(after.buf) <= after.written + IndexCount(Append(Place, segment))
      /\ Len(w.buf) <= Len(after.buf)
      /\ w.written <= after.written /\ after.written <= MaxLength
      /\ after.written <= w.written + 1 + Len(segment[2])
  <2>1. after = Write(w, segment).w
    BY DEF after
  <2> QED
    BY <1>1, <2>1, CoveredHere
<1>3. top \in Frame /\ top.trunc = Len(after.buf) /\ top.path = Append(Place, segment)
  BY <1>2, FrameFields
<1> HIDE DEF top
<1>4. visited' \in Nat /\ after.written <= visited'
  <2>1. Typed /\ w.written <= visited
    BY <1>1 DEF Inv, Stacked
  <2> QED
    BY <1>1, <1>2, <2>1, Visited
<1>5. /\ w' \in Writer /\ w.written <= w'.written /\ w'.written <= MaxLength
      /\ top.trunc = Len(w'.buf) /\ Len(w.buf) <= top.trunc /\ w'.written <= visited'
      /\ top.trunc <= w'.written + IndexCount(top.path)
  BY <1>1, <1>2, <1>3, <1>4, Zenon
<1> QED
  BY <1>1, <1>3, <1>4, <1>5, PushStep

\* A segment is refused, or the callback fails
LEMMA FailsStep ==
  ASSUME Inv, NEW segment \in Segment, Fails(segment)
  PROVE  /\ Inv'
         /\ error' = "TooLong" => visited' > MaxLength
<1> DEFINE r == Write(w, segment)
<1>1. /\ client = "mutation" \/ r.error = "Panic"
      /\ client' = "none" /\ w' = new /\ frames' = <<>> /\ Visit(segment)
      /\ keys' = keys /\ error' = IF r.error = "" THEN "Callback" ELSE r.error
  BY DEF Fails, Running
<1>2. Typed /\ w \in Writer /\ keys' \in Seq(Key)
  BY <1>1 DEF Inv, Typed
<1>3. /\ r.error \in {"", "InvalidField", "InvalidIndex", "Panic", "TooLong"}
      /\ r.error = "TooLong" => w.written + 1 + Len(segment[2]) > MaxLength
  BY <1>2, WriteResult
<1>4. /\ visited' \in Nat
      /\ w.written <= visited => w.written + 1 + Len(segment[2]) <= visited'
  <2> DEFINE len == Len(segment[2])
  <2>1. len \in Nat /\ visited \in Nat
    BY <1>2, SegmentType DEF Typed
  <2>2. visited' = visited + 1 + len
    BY <1>1 DEF Visit
  <2> HIDE DEF len
  <2>3. visited' \in Nat
    BY <2>1, <2>2
  <2> QED
    BY <1>1, <1>2, <2>3, Visited
<1> HIDE DEF r
<1>5. /\ error' \in {"", "InvalidField", "InvalidIndex", "Panic", "TooLong", "Callback"}
      /\ error' = "TooLong" => r.error = "TooLong"
  BY <1>1, <1>3
<1>6. Inv'
  BY <1>1, <1>2, <1>4, <1>5, EndStep
<1>7. ASSUME error' = "TooLong" PROVE visited' > MaxLength
  <2> DEFINE len == Len(segment[2])
  <2>1. len \in Nat /\ w.written \in Nat
    BY <1>2, SegmentType, FrameFacts
  <2>2. client = "mutation" /\ r.error = "TooLong"
    BY <1>1, <1>5, <1>7
  <2>3. w.written <= visited
    BY <2>2 DEF Inv, Stacked
  <2>4. w.written + 1 + len > MaxLength /\ w.written + 1 + len <= visited'
    BY <1>3, <1>4, <2>2, <2>3
  <2> HIDE DEF len
  <2> QED
    BY <1>4, <2>1, <2>4, MaxLengthAssumption
<1> QED
  BY <1>6, <1>7

\* The loop of a Compose or a Nested ends
LEMMA ReturnStep ==
  ASSUME Inv, Return
  PROVE  Inv'
<1>1. /\ client = "mutation" /\ frames # <<>> /\ keys' = keys
      /\ Len(frames) = 1 => End("")
      /\ Len(frames) # 1 => /\ frames' = Front(frames) /\ w' = Truncated(w, Front(frames))
                            /\ UNCHANGED <<client, error, visited>>
  BY DEF Return
<1>2. /\ Typed /\ frames \in Seq(Frame) /\ w \in Writer /\ keys' \in Seq(Key) /\ visited \in Nat
      /\ w.written <= MaxLength /\ w.written <= visited
  BY <1>1 DEF Inv, Typed, Counted, Stacked
<1>3. CASE Len(frames) = 1
  <2>1. client' = "none" /\ w' = new /\ frames' = <<>> /\ error' = "" /\ visited' = 0
    BY <1>1, <1>3 DEF End
  <2>2. visited' \in Nat
    BY <2>1
  <2> QED
    BY <1>2, <2>1, <2>2, EndStep
<1>4. CASE Len(frames) # 1
  <2> DEFINE k == Len(frames) - 1
  <2>1. k \in 1..Len(frames) /\ k \in 0..Len(frames)
    <3> DEFINE n == Len(frames)
    <3>1. n \in Nat /\ n # 0 /\ n # 1
      BY <1>1, <1>2, <1>4, LenProperties, EmptySeq
    <3> HIDE DEF n
    <3>2. n - 1 \in 1..n /\ n - 1 \in 0..n
      BY <3>1
    <3> QED
      BY <3>2 DEF n
  <2>2. frames' = SubSeq(frames, 1, k)
    BY <1>1, <1>4 DEF Front
  <2> HIDE DEF k
  <2>3. frames' \in Seq(Frame) /\ Len(frames') = k /\ \A i \in 1..k : frames'[i] = frames[i]
    BY <1>2, <2>1, <2>2, PrefixFacts
  <2>4. /\ w' = Truncated(w, frames') /\ UNCHANGED <<client, error>> /\ visited' \in Nat
        /\ w.written <= visited'
    BY <1>1, <1>2, <1>4
  <2>5. w.written <= w.written /\ Len(w.buf) <= Len(w.buf)
    BY <1>2, FrameFacts
  <2> QED
    BY <1>1, <1>2, <2>1, <2>3, <2>4, <2>5, PopStep
<1> QED
  BY <1>3, <1>4

\* Two more elements
LEMMA Appended ==
  ASSUME NEW S, NEW s \in Seq(S), NEW a, NEW b
  PROVE  s \o <<a, b>> = Append(Append(s, a), b)
OBVIOUS

\* What a key is, of a place the writer covers and a terminator
LEMMA Finished ==
  ASSUME NEW writer \in Writer, NEW place \in Seq(Segment), NEW term \in Terminator,
         Len(writer.buf) <= writer.written + IndexCount(place), NEW result,
         \E bytes \in ByteString : Adds(writer, result, bytes),
         NEW key, key = [path |-> Append(place, term), buf |-> result.w.buf]
  PROVE  key \in Key /\ Bounded(key)
<1> PICK bytes \in ByteString : Adds(writer, result, bytes)
  OBVIOUS
<1>1. result.w.buf = writer.buf \o bytes /\ writer.written + Len(bytes) <= MaxLength + 6
  BY DEF Adds
<1>2. key = [path |-> Append(place, term), buf |-> writer.buf \o bytes]
  BY <1>1
<1> QED
  BY <1>1, <1>2, Terminated

\* A key that is made keeps within its bound
KeysGrow == keys' = keys \/ \E key \in Key : Bounded(key) /\ keys' = Append(keys, key)

\* for_each_internal of an Apply
LEMMA ApplyStep ==
  ASSUME Inv, NEW segment \in Segment, Apply(segment)
  PROVE  Inv' /\ KeysGrow
<1> DEFINE after == Write(w, segment).w
           term == <<"lww", <<>>>>
           place == Append(Place, segment)
           key == [path |-> Append(place, term), buf |-> lww(after).w.buf]
<1>1. /\ client = "mutation" /\ client # "none" /\ Write(w, segment).error = ""
      /\ keys' = Append(keys, [path |-> Place \o <<segment, term>>, buf |-> lww(after).w.buf])
      /\ frames = <<>> => End("")
      /\ frames # <<>> => /\ w' = Truncated(after, frames) /\ Visit(segment)
                          /\ UNCHANGED <<client, frames, error>>
  BY DEF Apply, Running
<1>2. /\ Typed /\ frames \in Seq(Frame) /\ w.written <= visited
  BY <1>1 DEF Inv, Typed, Stacked
<1>3. after = Write(w, segment).w /\ term \in Terminator
  BY DEF Terminator
<1>4. Place \in Seq(Segment)
  BY <1>1, PlaceFacts
<1> HIDE DEF after, term
<1>5. keys' = Append(keys, key)
  <2>1. Place \o <<segment, term>> = Append(place, term)
    BY <1>4, Appended
  <2> QED
    BY <1>1, <2>1, Zenon
<1>6. /\ after \in Writer /\ place \in Seq(Segment)
      /\ Len(after.buf) \in Nat /\ after.written \in Nat
      /\ Len(after.buf) <= after.written + IndexCount(place)
      /\ Len(w.buf) <= Len(after.buf)
      /\ w.written <= after.written /\ after.written <= MaxLength
      /\ after.written <= w.written + 1 + Len(segment[2])
  BY <1>1, <1>3, CoveredHere
<1>7. key \in Key /\ Bounded(key)
  <2>1. \E bytes \in ByteString : Adds(after, lww(after), bytes)
    BY <1>6, LwwResult
  <2> HIDE DEF place
  <2> QED
    BY <1>3, <1>6, <2>1, Finished
<1> HIDE DEF key, place
<1>8. keys' \in Seq(Key) /\ KeysGrow
  BY <1>2, <1>5, <1>7, KeysAppend DEF KeysGrow
<1>9. CASE frames = <<>>
  <2>1. client' = "none" /\ w' = new /\ frames' = <<>> /\ error' = "" /\ visited' = 0
    BY <1>1, <1>9 DEF End
  <2>2. visited' \in Nat
    BY <2>1
  <2> QED
    BY <1>8, <2>1, <2>2, EndStep
<1>10. CASE frames # <<>>
  <2> DEFINE k == Len(frames)
  <2>1. k \in 1..Len(frames)
    <3>1. Len(frames) \in Nat /\ Len(frames) # 0
      BY <1>2, <1>10, LenProperties, EmptySeq
    <3> QED
      BY <3>1
  <2>2. frames' \in Seq(Frame) /\ Len(frames') = k /\ \A i \in 1..k : frames'[i] = frames[i]
    BY <1>1, <1>2, <1>10
  <2>3. w' = Truncated(after, frames') /\ UNCHANGED <<client, error>>
    BY <1>1, <1>10
  <2>4. visited' \in Nat /\ after.written <= visited'
    BY <1>1, <1>2, <1>6, <1>10, Visited
  <2> HIDE DEF k
  <2> QED
    BY <1>1, <1>6, <1>8, <2>1, <2>2, <2>3, <2>4, PopStep
<1> QED
  BY <1>8, <1>9, <1>10

\* A segment of a path of its own
LEMMA OwnPushStep ==
  ASSUME Inv, NEW segment \in Segment, Push(segment)
  PROVE  Inv'
<1> DEFINE after == Write(w, segment).w
           place == Append(Place, segment)
           top == [trunc |-> 0, path |-> place]
<1>1. /\ client = "path" /\ client # "none" /\ Write(w, segment).error = "" /\ w' = after
      /\ frames' = <<top>> /\ UNCHANGED <<client, keys, error, visited>>
  BY DEF Push
<1>2. after = Write(w, segment).w
  OBVIOUS
<1> HIDE DEF after
<1>3. /\ after \in Writer /\ place \in Seq(Segment)
      /\ Len(after.buf) <= after.written + IndexCount(place)
      /\ after.written <= MaxLength /\ after.written \in Nat
  BY <1>1, <1>2, CoveredHere
<1> HIDE DEF place
<1>4. top \in Frame /\ top.trunc = 0 /\ top.path = place
  BY <1>3, FrameFields
<1> HIDE DEF top
<1>5. /\ <<top>> \in Seq(Frame) /\ Len(<<top>>) = 1 /\ <<top>>[1] = top /\ DOMAIN <<top>> = {1}
      /\ <<top>> # <<>>
  BY <1>4
<1>6. Typed'
  BY <1>1, <1>3, <1>5, Zenon DEF Inv, Typed
<1>7. 0 <= after.written + IndexCount(place) /\ 0 <= 0
  <2> DEFINE x == IndexCount(place)
  <2>1. x \in Nat
    BY <1>3, IndexCountAppend
  <2> HIDE DEF x
  <2>2. 0 <= after.written + x
    BY <1>3, <2>1
  <2> QED
    BY <2>2 DEF x
<1>8. Counted'
  BY <1>1, <1>3, <1>4, <1>5, <1>7, Zenon DEF Counted
<1>9. Stacked'
  BY <1>1, <1>4, <1>5, <1>7, Zenon DEF Stacked
<1>10. OwnPath'
  BY <1>1, <1>3, <1>4, <1>5, Zenon DEF OwnPath
<1> QED
  BY <1>6, <1>8, <1>9, <1>10 DEF Inv

\* A terminator of a path of its own
LEMMA FinishStep ==
  ASSUME Inv, NEW result, NEW term \in Terminator, Finish(result, term),
         \E bytes \in ByteString : Adds(w, result, bytes)
  PROVE  Inv' /\ KeysGrow /\ error' = ""
<1> DEFINE key == [path |-> Append(Place, term), buf |-> result.w.buf]
<1>1. /\ client = "path" /\ client # "none" /\ keys' = Append(keys, key)
      /\ client' = "none" /\ w' = new /\ frames' = <<>> /\ error' = "" /\ visited' = 0
  BY DEF Finish, End
<1>2. Typed /\ w \in Writer
  BY DEF Inv, Typed
<1>3. Place \in Seq(Segment) /\ Len(w.buf) <= w.written + IndexCount(Place)
  BY <1>1, PlaceFacts
<1>4. key \in Key /\ Bounded(key)
  BY <1>2, <1>3, Finished
<1> HIDE DEF key
<1>5. keys' \in Seq(Key) /\ KeysGrow
  BY <1>1, <1>2, <1>4, KeysAppend DEF KeysGrow
<1>6. visited' \in Nat
  BY <1>1
<1> QED
  BY <1>1, <1>5, <1>6, EndStep

-----------------------------------------------------------------------------
(* The theorems *)

\* An error is reset, or kept while the client visits more
ErrorKept == error' = "" \/ (error' = error /\ visited <= visited')

\* What every step does to the invariant, the keys and the error
LEMMA InvStep ==
  ASSUME Inv, [Next]_vars
  PROVE  /\ Inv' /\ KeysGrow
         /\ ErrorKept \/ (error' = "TooLong" => visited' > MaxLength)
<1>1. Typed /\ w \in Writer /\ w.written <= MaxLength /\ visited \in Nat
  BY DEF Inv, Typed, Counted
<1>2. visited <= visited
  BY <1>1
<1>3. CASE UNCHANGED vars
  <2>1. UNCHANGED <<client, w, frames, keys, error, visited>>
    BY <1>3 DEF vars
  <2>2. Inv'
    BY <2>1 DEF Inv, Typed, Counted, Stacked, OwnPath
  <2> QED
    BY <1>2, <2>1, <2>2 DEF KeysGrow, ErrorKept
<1>4. CASE for_each \/ Begin
  <2>1. keys' = keys /\ error' = ""
    BY <1>4 DEF for_each, Begin
  <2> QED
    BY <1>4, <2>1, StartStep DEF KeysGrow, ErrorKept
<1>5. CASE Compose
  <2>1. UNCHANGED <<keys, error, visited>>
    BY <1>5 DEF Compose
  <2> QED
    BY <1>2, <1>5, <2>1, ComposeStep DEF KeysGrow, ErrorKept
<1>6. CASE Return
  <2>1. keys' = keys /\ (error' = "" \/ UNCHANGED <<error, visited>>)
    BY <1>6 DEF Return, End
  <2> QED
    BY <1>2, <1>6, <2>1, ReturnStep DEF KeysGrow, ErrorKept
<1>7. ASSUME NEW segment \in Segment, Visit(segment) PROVE visited <= visited'
  <2> DEFINE len == Len(segment[2])
  <2>1. len \in Nat /\ visited' = visited + 1 + len
    BY <1>7, SegmentType DEF Visit
  <2> HIDE DEF len
  <2> QED
    BY <1>1, <2>1
<1>8. CASE \E segment \in Segment : Nested(segment)
  <2> PICK segment \in Segment : Nested(segment)
    BY <1>8
  <2>1. UNCHANGED <<keys, error>> /\ visited <= visited'
    BY <1>7 DEF Nested
  <2> QED
    BY <2>1, NestedStep DEF KeysGrow, ErrorKept
<1>9. CASE \E segment \in Segment : Apply(segment)
  <2> PICK segment \in Segment : Apply(segment)
    BY <1>9
  <2>1. error' = "" \/ (error' = error /\ visited <= visited')
    BY <1>7 DEF Apply, End
  <2> QED
    BY <2>1, ApplyStep DEF ErrorKept
<1>10. CASE \E segment \in Segment : Fails(segment)
  <2> PICK segment \in Segment : Fails(segment)
    BY <1>10
  <2>1. keys' = keys
    BY DEF Fails
  <2> QED
    BY <2>1, FailsStep DEF KeysGrow
<1>11. CASE \E segment \in Segment : Push(segment)
  <2> PICK segment \in Segment : Push(segment)
    BY <1>11
  <2>1. UNCHANGED <<keys, error, visited>>
    BY DEF Push
  <2> QED
    BY <1>2, <2>1, OwnPushStep DEF KeysGrow, ErrorKept
<1>12. CASE Finish(lww(w), <<"lww", <<>>>>)
  <2>1. <<"lww", <<>>>> \in Terminator
    BY DEF Terminator
  <2>2. \E bytes \in ByteString : Adds(w, lww(w), bytes)
    BY <1>1, LwwResult
  <2> QED
    BY <1>12, <2>1, <2>2, FinishStep DEF ErrorKept
<1>13. CASE \E end_index \in Chunk :
              Finish(lww_chunked(w, end_index), <<"chunked", <<end_index>>>>)
  <2> PICK c \in Chunk : Finish(lww_chunked(w, c), <<"chunked", <<c>>>>)
    BY <1>13
  <2>1. <<"chunked", <<c>>>> \in Terminator
    BY DEF Terminator
  <2>2. lww_chunked(w, c).error = ""
    BY DEF Finish
  <2>3. \E bytes \in ByteString : Adds(w, lww_chunked(w, c), bytes)
    BY <1>1, <2>2, ChunkedResult
  <2> QED
    BY <2>1, <2>3, FinishStep DEF ErrorKept
<1>14. CASE \E pid \in Pid : Finish(counter(w, pid), <<"counter", <<pid>>>>)
  <2> PICK pid \in Pid : Finish(counter(w, pid), <<"counter", <<pid>>>>)
    BY <1>14
  <2>1. <<"counter", <<pid>>>> \in Terminator
    BY DEF Terminator
  <2>2. \E bytes \in ByteString : Adds(w, counter(w, pid), bytes)
    BY <1>1, CounterResult
  <2> QED
    BY <2>1, <2>2, FinishStep DEF ErrorKept
<1> QED
  BY <1>3, <1>4, <1>5, <1>6, <1>8, <1>9, <1>10, <1>11, <1>12, <1>13, <1>14 DEF Next

\* The invariant holds before anything is written
LEMMA InvInit == Init => Inv
<1> SUFFICES ASSUME Init PROVE Inv
  OBVIOUS
<1>1. /\ client = "none" /\ w = new /\ frames = <<>> /\ keys = <<>> /\ error = "" /\ visited = 0
  BY DEF Init
<1>2. keys \in Seq(Key)
  BY <1>1, EmptySeq
<1>3. Typed
  <2>1. visited \in Nat
    BY <1>1
  <2> QED
    BY <1>1, <1>2, <2>1, Fresh, Zenon DEF Typed
<1>4. Counted
  BY <1>1, Fresh, LimitIsNat, Zenon DEF Counted
<1>5. Stacked
  BY <1>1, Fresh, Zenon DEF Stacked
<1>6. OwnPath
  BY <1>1 DEF OwnPath
<1> QED
  BY <1>3, <1>4, <1>5, <1>6 DEF Inv

\* The inductive invariant holds in every state
LEMMA InvAlways == Spec => []Inv
<1>1. Inv /\ [Next]_vars => Inv'
  BY InvStep
<1> QED
  BY <1>1, InvInit, PTL DEF Spec

\* Types: the buffer of the writer is a string of bytes, what is counted is a
\* natural number, and no loop of Mutation::for_each truncates to a length the
\* buffer does not have
THEOREM MutationTypeCorrect == Spec => []TypeOK
<1>1. Inv => TypeOK
  <2> SUFFICES ASSUME Inv PROVE TypeOK
    OBVIOUS
  <2>1. Typed
    BY DEF Inv
  <2>2. ASSUME NEW i \in DOMAIN frames PROVE frames[i].trunc \in 0..Len(w.buf)
    <3>1. frames[i].trunc \in Nat /\ Len(w.buf) \in Nat /\ DOMAIN frames = 1..Len(frames)
      BY <2>1, FrameFacts
    <3>2. CASE client = "none"
      <4>1. DOMAIN frames = {}
        BY <3>2, Fresh, Zenon DEF Inv, Stacked
      <4> QED
        BY <4>1
    <3>3. CASE client = "mutation"
      BY <3>1, <3>3, PlaceFacts
    <3>4. CASE client = "path"
      <4>1. Len(frames) = 1 /\ frames[1].trunc = 0
        BY <3>4 DEF Inv, OwnPath
      <4> QED
        BY <3>1, <4>1
    <3> QED
      BY <2>1, <3>2, <3>3, <3>4 DEF Typed
  <2>3. ASSUME NEW i \in DOMAIN keys PROVE keys[i].buf \in ByteString
    <3>1. keys \in Seq(Key)
      BY <2>1 DEF Typed
    <3>2. keys[i] \in Key
      BY <3>1, ElementOfSeq, LenProperties
    <3> QED
      BY <3>2 DEF Key
  <2> QED
    BY <2>1, <2>2, <2>3 DEF TypeOK, Typed, Writer
<1> QED
  BY <1>1, InvAlways, PTL

\* PathWriter::ensure_capacity: whatever a client writes and however often the
\* loops of a mutation truncate the buffer, a key exceeds MaxLength by at most
\* six bytes of its terminator and one delimiter for each of its indices
THEOREM MutationOvershootIsBounded == Spec => []OvershootIsBounded
<1> DEFINE AllBounded == \A i \in DOMAIN keys : Bounded(keys[i])
<1>1. Init => AllBounded
  BY Fresh, Zenon DEF Init
<1>2. Inv /\ AllBounded /\ [Next]_vars => AllBounded'
  <2> SUFFICES ASSUME Inv, AllBounded, [Next]_vars PROVE AllBounded'
    OBVIOUS
  <2>1. KeysGrow
    BY InvStep
  <2>2. CASE keys' = keys
    BY <2>2 DEF Bounded, IndexCount
  <2>3. CASE \E key \in Key : Bounded(key) /\ keys' = Append(keys, key)
    <3> PICK key \in Key : Bounded(key) /\ keys' = Append(keys, key)
      BY <2>3
    <3>1. keys \in Seq(Key)
      BY DEF Inv, Typed
    <3>2. \A i \in DOMAIN keys' : keys'[i] = key \/ (i \in DOMAIN keys /\ keys'[i] = keys[i])
      BY <3>1, AppendProperties, LenProperties
    <3>3. ASSUME NEW i \in DOMAIN keys' PROVE Bounded(keys'[i])
      BY <3>2
    <3> QED
      BY <3>3
  <2> QED
    BY <2>1, <2>2, <2>3 DEF KeysGrow
<1>3. AllBounded => OvershootIsBounded
  BY DEF OvershootIsBounded, Keys, Bounded, IndexCount
<1> QED
  BY <1>1, <1>2, <1>3, InvAlways, PTL DEF Spec

\* PathError::TooLong: a mutation is refused for its length only after its
\* segments together, those of the keys it has already inserted included, are
\* longer than MaxLength
THEOREM MutationTooLongIsCumulative == Spec => []TooLongIsCumulative
<1>1. Init => TooLongIsCumulative
  BY DEF Init, TooLongIsCumulative
<1>2. Inv /\ TooLongIsCumulative /\ [Next]_vars => Inv' /\ TooLongIsCumulative'
  <2> SUFFICES ASSUME Inv, TooLongIsCumulative, [Next]_vars PROVE Inv' /\ TooLongIsCumulative'
    OBVIOUS
  <2>1. Inv' /\ (ErrorKept \/ (error' = "TooLong" => visited' > MaxLength))
    BY InvStep
  <2>2. visited \in Nat /\ visited' \in Nat
    BY <2>1 DEF Inv, Typed
  <2>3. CASE ErrorKept
    <3>1. ASSUME visited > MaxLength, visited <= visited' PROVE visited' > MaxLength
      BY <2>2, <3>1, MaxLengthAssumption
    <3>2. error' = "TooLong" => error = "TooLong" /\ visited <= visited'
      BY <2>3 DEF ErrorKept
    <3> QED
      BY <2>1, <3>1, <3>2 DEF TooLongIsCumulative
  <2>4. CASE error' = "TooLong" => visited' > MaxLength
    BY <2>1, <2>4 DEF TooLongIsCumulative
  <2> QED
    BY <2>1, <2>3, <2>4
<1> QED
  BY <1>1, <1>2, InvInit, PTL DEF Spec

-----------------------------------------------------------------------------
(* The bytes of paths and keys *)

\* Segments that Segment::write accepts
Accepted ==
  {s \in Piece : (s[1] = "field" => IsField(s[2])) /\ (s[1] = "index" => is_valid[s[2]])}

\* Bytes that PathReader reads as one terminator
Ending(term, bytes) ==
  /\ term[1] \in {"lww", "chunked", "counter"}
  /\ bytes \in Delimiting /\ Read[bytes] = <<term>>

\* A key is the bytes of the segments it stands for and of its terminator
Made(key, place, term, ending) ==
  /\ place \in Seq(Accepted) /\ Ending(term, ending)
  /\ key.path = Append(place, term) /\ key.buf = Encoded(place) \o ending

WellMade(key) == \E place, term, ending : Made(key, place, term, ending)

\* What a loop truncates to are the bytes of its place
CodedFrame(frame, buf) ==
  frame.path \in Seq(Accepted) /\ SubSeq(buf, 1, frame.trunc) = Encoded(frame.path)

CodedFrames ==
  /\ client = "mutation" => \A i \in DOMAIN frames : CodedFrame(frames[i], w.buf)
  /\ client = "path" => frames[1].path \in Seq(Accepted) /\ w.buf = Encoded(frames[1].path)

CodedKeys == \A i \in DOMAIN keys : WellMade(keys[i])

Coded == CodedFrames /\ CodedKeys

\* Accepted segments are segments of paths
LEMMA AcceptedPiece ==
  /\ Accepted \subseteq Piece
  /\ \A p \in Seq(Accepted) : p \in Seq(Piece)
<1>1. Accepted \subseteq Piece
  BY DEF Accepted
<1>2. ASSUME NEW p \in Seq(Accepted) PROVE p \in Seq(Piece)
  <2>1. \A i \in 1..Len(p) : p[i] \in Piece
    BY <1>1, ElementOfSeq
  <2> QED
    BY <2>1, Retyped
<1> QED
  BY <1>1, <1>2

\* The bytes of accepted segments
LEMMA AcceptedBytes ==
  ASSUME NEW p \in Seq(Accepted)
  PROVE  Encoded(p) \in ByteString /\ Encoded(<<>>) = <<>> /\ <<>> \in Seq(Accepted)
<1>1. p \in Seq(Piece) /\ <<>> \in Seq(Accepted)
  BY AcceptedPiece
<1> DEFINE none == <<>>
<1>2. none \in ByteString
  BY DEF ByteString
<1> HIDE DEF none
<1>3. <<"field", none>> \in Piece
  BY <1>2 DEF Piece
<1> QED
  BY <1>1, <1>3, EncodedAppend

\* A segment of a mutation or of a path
LEMMA SegmentPiece ==
  ASSUME NEW segment \in Segment
  PROVE  segment \in Piece
<1>1. PICK kind \in {"field", "index"}, bytes \in ByteString : segment = <<kind, bytes>>
  <2>1. CASE segment \in {<<"field", f>> : f \in Field}
    BY <2>1, FieldAssumption
  <2>2. CASE segment \in {<<"index", Bytes(i)>> : i \in Index}
    <3>1. PICK i \in Index : segment = <<"index", Bytes(i)>>
      BY <2>2
    <3> QED
      BY <3>1, BytesType
  <2>3. CASE segment \in {<<"index", m>> : m \in Malformed}
    BY <2>3, FieldAssumption
  <2> QED
    BY <2>1, <2>2, <2>3 DEF Segment
<1> QED
  BY <1>1 DEF Piece

\* The next number
LEMMA Successor == \A n \in Nat : 1 + n \in Nat
OBVIOUS

\* Segment::write: an accepted segment adds the delimiter and its bytes
LEMMA WriteAdds ==
  ASSUME NEW writer \in Writer, NEW segment \in Segment, Write(writer, segment).error = ""
  PROVE  /\ segment \in Accepted
         /\ Write(writer, segment).w.buf = writer.buf \o Delim(segment[2])
<1> DEFINE bytes == segment[2]
           r == Write(writer, segment)
           more == <<DELIMITER>> \o bytes
<1>1. segment[1] \in {"field", "index"} /\ bytes \in ByteString
  BY SegmentType
<1>2. segment \in Piece
  BY SegmentPiece
<1>3. more = Delim(bytes)
  BY DEF Delim
<1> HIDE DEF more
<1>4. ASSUME NEW how, how # "", r = Refused(writer, how) PROVE FALSE
  <2>1. r.error = ""
    OBVIOUS
  <2> HIDE DEF r
  <2>2. r.error = how
    BY <1>4, RefusedFields, Zenon
  <2> QED
    BY <1>4, <2>1, <2>2
<1>5. \/ \E how \in {"InvalidField", "InvalidIndex", "Panic", "TooLong"} : r = Refused(writer, how)
      \/ /\ \E n \in Nat : r = Written(writer, more, n)
         /\ (segment[1] = "field" => IsField(bytes)) /\ (segment[1] = "index" => is_valid[bytes])
  <2> DEFINE len == Len(bytes)
  <2>0. len \in Nat /\ 1 + len \in Nat
    <3>1. len \in Nat
      BY SegmentType
    <3> QED
      BY <3>1, Successor, Zenon
  <2>1. CASE segment[1] = "field"
    <3>1. r = push_field(writer, bytes)
      BY <2>1 DEF Write
    <3>2. segment[1] # "index"
      BY <2>1
    <3> HIDE DEF r, bytes, len
    <3>3. \/ r = Refused(writer, "InvalidField") \/ r = Refused(writer, "TooLong")
          \/ IsField(bytes) /\ r = Written(writer, more, 1 + len)
      BY <3>1 DEF push_field, more, len
    <3> QED
      BY <2>0, <2>1, <3>2, <3>3, Zenon
  <2>2. CASE segment[1] = "index"
    <3>1. \/ r = Refused(writer, "InvalidIndex") \/ r = Refused(writer, "Panic")
          \/ is_valid[bytes] /\ r = push_index(writer, bytes)
      BY <2>2 DEF Write
    <3>2. segment[1] # "field"
      BY <2>2
    <3> HIDE DEF r, bytes, len
    <3>3. \/ r = Refused(writer, "InvalidIndex") \/ r = Refused(writer, "Panic")
          \/ r = Refused(writer, "TooLong")
          \/ is_valid[bytes] /\ r = Written(writer, more, len)
      BY <3>1 DEF push_index, more, len
    <3> QED
      BY <2>0, <2>2, <3>2, <3>3, Zenon
  <2> QED
    BY <1>1, <2>1, <2>2
<1> HIDE DEF r
<1>6. PICK n \in Nat : r = Written(writer, more, n)
  BY <1>4, <1>5
<1>7. r.w.buf = writer.buf \o more
  <2>1. more \in ByteString
    BY <1>1, <1>3, DelimBytes
  <2>2. Written(writer, more, n).w.buf = writer.buf \o more
    BY <2>1, WrittenResult
  <2> QED
    BY <1>6, <2>2, Zenon
<1>8. (segment[1] = "field" => IsField(bytes)) /\ (segment[1] = "index" => is_valid[bytes])
  BY <1>4, <1>5
<1>9. segment \in Accepted
  BY <1>2, <1>8 DEF Accepted
<1> QED
  BY <1>3, <1>7, <1>9 DEF r

\* The place of a client and its bytes
LEMMA PlaceCoded ==
  ASSUME Inv, CodedFrames, client # "none"
  PROVE  Place \in Seq(Accepted) /\ w.buf = Encoded(Place) /\ w.buf \in ByteString /\ w \in Writer
<1>1. Typed /\ client \in {"mutation", "path"} /\ frames \in Seq(Frame) /\ w \in Writer
  BY DEF Inv, Typed
<1>2. w.buf \in ByteString /\ w.buf \in Seq(0..255)
  BY <1>1 DEF Writer, ByteString
<1>3. CASE client = "path"
  <2>0. Len(frames) = 1
    BY <1>3 DEF Inv, OwnPath
  <2>1. Len(frames) = 1 /\ frames # <<>>
    BY <1>1, <2>0, EmptySeq
  <2>2. Place = frames[1].path
    BY <2>1 DEF Place, Last
  <2> QED
    BY <1>1, <1>2, <1>3, <2>2 DEF CodedFrames
<1>4. CASE client = "mutation" /\ frames = <<>>
  <2>1. Place = <<>>
    BY <1>4 DEF Place
  <2>2. Len(w.buf) = 0
    BY <1>4 DEF Inv, Stacked
  <2>3. w.buf = <<>>
    BY <1>2, <2>2, EmptySeq
  <2>4. <<>> \in Seq(Accepted)
    OBVIOUS
  <2> QED
    BY <1>1, <1>2, <2>1, <2>3, <2>4, AcceptedBytes
<1>5. CASE client = "mutation" /\ frames # <<>>
  <2> DEFINE n == Len(frames)
  <2>1. n \in DOMAIN frames
    <3>1. n \in Nat /\ n # 0 /\ DOMAIN frames = 1..n
      BY <1>1, <1>5, LenProperties, EmptySeq
    <3> QED
      BY <3>1
  <2>2. Place = frames[n].path
    BY <1>5 DEF Place, Last
  <2>3. Len(w.buf) = frames[n].trunc
    BY <1>5 DEF Inv, Stacked
  <2>4. CodedFrame(frames[n], w.buf)
    BY <1>5, <2>1 DEF CodedFrames
  <2>5. SubSeq(w.buf, 1, Len(w.buf)) = w.buf
    BY <1>2, SubSeqFull
  <2> QED
    BY <1>1, <1>2, <2>2, <2>3, <2>4, <2>5 DEF CodedFrame
<1> QED
  BY <1>1, <1>3, <1>4, <1>5

\* The beginning of a longer string
LEMMA PrefixOfConcat ==
  ASSUME NEW s \in ByteString, NEW t \in ByteString, NEW k \in 0..Len(s)
  PROVE  SubSeq(s \o t, 1, k) = SubSeq(s, 1, k)
<1> DEFINE c == s \o t
<1>1. s \in Seq(0..255) /\ t \in Seq(0..255)
  BY DEF ByteString
<1>2. /\ c \in Seq(0..255) /\ Len(c) = Len(s) + Len(t) /\ Len(s) \in Nat /\ Len(t) \in Nat
      /\ \A i \in 1..Len(s) : c[i] = s[i]
  BY <1>1, ConcatFacts
<1> HIDE DEF c
<1>3. k \in Nat /\ k <= Len(c) /\ k <= Len(s) /\ \A j \in 1..k : c[j] = s[j]
  BY <1>2
<1>4. SubSeq(c, 1, k) = SubSeq(s, 1, k)
  BY <1>1, <1>2, <1>3, SamePrefix
<1> QED
  BY <1>4 DEF c

\* A client writes a segment at its place
LEMMA WriteCoded ==
  ASSUME Inv, CodedFrames, client # "none", NEW segment \in Segment, Write(w, segment).error = ""
  PROVE  LET buf == Write(w, segment).w.buf
         IN  /\ Append(Place, segment) \in Seq(Accepted)
             /\ buf = Encoded(Append(Place, segment)) /\ buf \in ByteString
             /\ \A k \in 0..Len(w.buf) : SubSeq(buf, 1, k) = SubSeq(w.buf, 1, k)
<1> DEFINE buf == Write(w, segment).w.buf
           d == Delim(segment[2])
<1>1. /\ Place \in Seq(Accepted) /\ w.buf = Encoded(Place) /\ w.buf \in ByteString /\ w \in Writer
  BY PlaceCoded
<1>2. segment \in Accepted /\ buf = w.buf \o d
  BY <1>1, WriteAdds
<1>3. Append(Place, segment) \in Seq(Accepted)
  BY <1>1, <1>2, AppendProperties
<1>4. Place \in Seq(Piece) /\ segment \in Piece
  BY <1>1, <1>2, AcceptedPiece
<1>5. Encoded(Append(Place, segment)) = Encoded(Place) \o d
  BY <1>4, EncodedAppend
<1>6. d \in ByteString
  BY <1>4, PieceType
<1> HIDE DEF d, buf
<1>7. \A k \in 0..Len(w.buf) : SubSeq(buf, 1, k) = SubSeq(w.buf, 1, k)
  BY <1>1, <1>2, <1>6, PrefixOfConcat
<1>8. buf \in ByteString
  BY <1>1, <1>2, <1>6, Joined
<1> QED
  BY <1>1, <1>2, <1>3, <1>5, <1>7, <1>8 DEF buf

\* An end of a client leaves the keys as they are, or adds one
LEMMA EndCoded ==
  ASSUME client' = "none", CodedKeys'
  PROVE  Coded'
BY DEF Coded, CodedFrames

\* The keys that were made stay made
LEMMA KeysCoded ==
  ASSUME Typed, CodedKeys, keys' = keys \/ \E key : WellMade(key) /\ keys' = Append(keys, key)
  PROVE  CodedKeys'
<1>1. CASE keys' = keys
  BY <1>1 DEF CodedKeys
<1>2. CASE \E key : WellMade(key) /\ keys' = Append(keys, key)
  <2> PICK key : WellMade(key) /\ keys' = Append(keys, key)
    BY <1>2
  <2>1. keys \in Seq(Key)
    BY DEF Typed
  <2>2. \A i \in DOMAIN Append(keys, key) :
          Append(keys, key)[i] = key \/ (i \in DOMAIN keys /\ Append(keys, key)[i] = keys[i])
    BY <2>1
  <2>3. \A i \in DOMAIN keys' : keys'[i] = key \/ (i \in DOMAIN keys /\ keys'[i] = keys[i])
    BY <2>2, Zenon
  <2>4. ASSUME NEW i \in DOMAIN keys' PROVE WellMade(keys'[i])
    BY <2>3, Zenon DEF CodedKeys
  <2> QED
    BY <2>4, Zenon DEF CodedKeys
<1> QED
  BY <1>1, <1>2

\* A loop begins at a place whose bytes are in the buffer
LEMMA PushCoded ==
  ASSUME Inv, CodedFrames, client = "mutation", NEW top, frames' = Append(frames, top),
         top.path \in Seq(Accepted), w'.buf \in ByteString,
         w'.buf = Encoded(top.path), top.trunc = Len(w'.buf),
         \A k \in 0..Len(w.buf) : SubSeq(w'.buf, 1, k) = SubSeq(w.buf, 1, k),
         client' = client
  PROVE  CodedFrames'
<1> DEFINE n == Len(frames)
           longer == Append(frames, top)
<1>1. Typed
  BY DEF Inv
<1>2. /\ n \in Nat /\ DOMAIN frames = 1..n /\ Len(w.buf) \in Nat
      /\ \A i \in 1..n : frames[i].trunc \in Nat
  BY <1>1, FrameFacts
<1>3. \A i \in 1..n : frames[i].trunc \in 0..Len(w.buf)
  <2>1. \A i \in 1..n : frames[i].trunc <= Len(w.buf)
    BY <1>2, PlaceFacts
  <2> QED
    BY <1>2, <2>1
<1>4. \A i \in DOMAIN longer : longer[i] = top \/ (i \in DOMAIN frames /\ longer[i] = frames[i])
  <2>1. frames \in Seq(Frame)
    BY <1>1 DEF Typed
  <2> QED
    BY <2>1
<1>5. CodedFrame(top, w'.buf)
  <2>1. SubSeq(w'.buf, 1, Len(w'.buf)) = w'.buf
    BY SubSeqFull DEF ByteString
  <2> QED
    BY <2>1, Zenon DEF CodedFrame
<1>6. ASSUME NEW i \in DOMAIN frames PROVE CodedFrame(frames[i], w'.buf)
  <2>1. CodedFrame(frames[i], w.buf)
    BY DEF CodedFrames
  <2>2. frames[i].trunc \in 0..Len(w.buf)
    BY <1>2, <1>3
  <2>3. SubSeq(w'.buf, 1, frames[i].trunc) = SubSeq(w.buf, 1, frames[i].trunc)
    BY <2>2
  <2> QED
    BY <2>1, <2>3, Zenon DEF CodedFrame
<1>7. ASSUME NEW i \in DOMAIN longer PROVE CodedFrame(longer[i], w'.buf)
  BY <1>4, <1>5, <1>6, Zenon
<1>8. frames' = longer
  OBVIOUS
<1> HIDE DEF longer
<1>9. \A i \in DOMAIN frames' : CodedFrame(frames'[i], w'.buf)
  BY <1>7, <1>8, Zenon
<1>10. client' # "path"
  OBVIOUS
<1> QED
  BY <1>9, <1>10, Zenon DEF CodedFrames, CodedFrame

\* Shorter beginnings of a beginning
LEMMA PrefixOfPrefix ==
  ASSUME NEW s \in ByteString, NEW n \in 0..Len(s), NEW k \in 0..n
  PROVE  SubSeq(SubSeq(s, 1, n), 1, k) = SubSeq(s, 1, k)
<1> DEFINE p == SubSeq(s, 1, n)
<1>1. s \in Seq(0..255) /\ Len(s) \in Nat
  BY LenProperties DEF ByteString
<1>2. p \in Seq(0..255) /\ Len(p) = n /\ \A i \in 1..n : p[i] = s[i]
  BY <1>1, PrefixFacts
<1> HIDE DEF p
<1>3. k \in Nat /\ k <= Len(p) /\ k <= Len(s) /\ \A j \in 1..k : p[j] = s[j]
  BY <1>1, <1>2
<1>4. SubSeq(p, 1, k) = SubSeq(s, 1, k)
  BY <1>1, <1>2, <1>3, SamePrefix
<1> QED
  BY <1>4 DEF p

\* The first k calls remain, and the buffer is truncated to what the last of
\* them keeps
LEMMA PopCoded ==
  ASSUME Inv, CodedFrames, client = "mutation", NEW k \in 1..Len(frames),
         frames' \in Seq(Frame), Len(frames') = k, \A i \in 1..k : frames'[i] = frames[i],
         w'.buf = SubSeq(w.buf, 1, frames[k].trunc), client' = client
  PROVE  CodedFrames'
<1> DEFINE n == Len(frames)
<1>1. Typed
  BY DEF Inv
<1>2. /\ n \in Nat /\ k \in Nat /\ k <= n /\ k \in 1..n /\ DOMAIN frames = 1..n
      /\ Len(w.buf) \in Nat /\ w.buf \in ByteString
      /\ \A i \in 1..n : frames[i].trunc \in Nat
  <2>1. /\ n \in Nat /\ DOMAIN frames = 1..n /\ Len(w.buf) \in Nat /\ w.buf \in ByteString
        /\ \A i \in DOMAIN frames : frames[i].trunc \in Nat
    BY <1>1, FrameFacts, Zenon
  <2>2. k \in 1..n
    OBVIOUS
  <2> HIDE DEF n
  <2>3. k \in Nat /\ k <= n
    BY <2>1, <2>2
  <2> QED
    BY <2>1, <2>2, <2>3, Zenon
<1>3. frames[k].trunc \in 0..Len(w.buf)
  <2>1. frames[k].trunc <= Len(w.buf)
    BY <1>2, PlaceFacts
  <2> QED
    BY <1>2, <2>1
<1>4. DOMAIN frames' = 1..k
  BY LenProperties
<1>5. ASSUME NEW i \in 1..k PROVE CodedFrame(frames'[i], w'.buf)
  <2>1. i \in 1..n /\ i <= k
    BY <1>2
  <2>2. frames[i].trunc <= frames[k].trunc
    BY <1>2, <2>1 DEF Inv, Stacked
  <2>3. frames[i].trunc \in 0..frames[k].trunc
    BY <1>2, <2>1, <2>2
  <2>4. SubSeq(SubSeq(w.buf, 1, frames[k].trunc), 1, frames[i].trunc)
          = SubSeq(w.buf, 1, frames[i].trunc)
    BY <1>2, <1>3, <2>3, PrefixOfPrefix
  <2>5. CodedFrame(frames[i], w.buf)
    BY <1>2, <2>1 DEF CodedFrames
  <2>6. frames'[i] = frames[i]
    OBVIOUS
  <2> QED
    BY <2>4, <2>5, <2>6, Zenon DEF CodedFrame
<1>6. \A i \in DOMAIN frames' : CodedFrame(frames'[i], w'.buf)
  BY <1>4, <1>5, Zenon
<1>7. client' # "path"
  OBVIOUS
<1> QED
  BY <1>6, <1>7, Zenon DEF CodedFrames, CodedFrame

\* A terminator is added to the bytes of a writer
Terminates(writer, result, term) ==
  \E e : Ending(term, e) /\ result.w.buf = writer.buf \o e

\* PathWriter::lww
LEMMA LwwTerminates ==
  ASSUME NEW writer \in Writer
  PROVE  Terminates(writer, lww(writer), <<"lww", <<>>>>)
<1> DEFINE bytes == <<DELIMITER, TERMINATOR_LWW>>
           body == <<TERMINATOR_LWW>>
           e == Delim(body)
           term == <<"lww", <<>>>>
<1>1. Read[e] = <<term>> /\ e \in Delimiting
  BY ReadLww
<1>2. bytes = e
  BY DEF Delim, DELIMITER, TERMINATOR_LWW
<1>3. e \in ByteString
  BY <1>1 DEF Delimiting
<1>4. lww(writer) = Written(writer, bytes, 0) /\ 0 \in Nat
  BY DEF lww
<1>5. term[1] = "lww"
  OBVIOUS
<1> HIDE DEF bytes, e, term
<1>6. Written(writer, bytes, 0).w.buf = writer.buf \o bytes
  BY <1>2, <1>3, <1>4, WrittenResult
<1>7. lww(writer).w.buf = writer.buf \o e
  BY <1>2, <1>4, <1>6, Zenon
<1>8. Ending(term, e)
  BY <1>1, <1>5 DEF Ending
<1>9. Terminates(writer, lww(writer), term)
  BY <1>7, <1>8, Zenon DEF Terminates
<1> QED
  BY <1>9 DEF term

\* PathWriter::lww_chunked
LEMMA ChunkedTerminates ==
  ASSUME NEW writer \in Writer, NEW c \in Chunk, lww_chunked(writer, c).error = ""
  PROVE  Terminates(writer, lww_chunked(writer, c), <<"chunked", <<c>>>>)
<1> DEFINE bytes == <<DELIMITER, TERMINATOR_CHUNKED>> \o write(c)
           body == <<TERMINATOR_CHUNKED>> \o write(c)
           e == Delim(body)
           term == <<"chunked", <<c>>>>
           r == lww_chunked(writer, c)
<1>1. c \in Nat /\ Fits(c, 8)
  BY TerminatorAssumption DEF Fits
<1>2. Read[e] = <<term>> /\ e \in Delimiting
  BY <1>1, ReadChunked
<1>3. bytes = e
  <2>1. write(c) \in ByteString
    BY <1>1, Tags, WriteType
  <2>2. TERMINATOR_CHUNKED \in 0..255
    BY Tags, Zenon
  <2> QED
    BY <2>1, <2>2, TagFacts
<1>4. e \in ByteString
  BY <1>2 DEF Delimiting
<1>5. \/ r = Refused(writer, "TooLong") \/ r = Written(writer, bytes, 0)
  <2> HIDE DEF bytes
  <2> QED
    BY DEF lww_chunked, bytes
<1>6. term[1] = "chunked" /\ r.error = "" /\ 0 \in Nat
  OBVIOUS
<1> HIDE DEF bytes, e, term, r
<1>7. r = Written(writer, bytes, 0)
  <2>1. ASSUME r = Refused(writer, "TooLong") PROVE FALSE
    <3>1. r.error = "TooLong"
      BY <2>1, RefusedFields
    <3> QED
      BY <1>6, <3>1
  <2> QED
    BY <1>5, <2>1
<1>8. Written(writer, bytes, 0).w.buf = writer.buf \o bytes
  BY <1>3, <1>4, <1>6, WrittenResult
<1>9. r.w.buf = writer.buf \o e
  BY <1>3, <1>7, <1>8, Zenon
<1>10. Ending(term, e)
  BY <1>2, <1>6 DEF Ending
<1>11. Terminates(writer, r, term)
  BY <1>9, <1>10, Zenon DEF Terminates
<1> QED
  BY <1>11 DEF term, r

\* PathWriter::counter
LEMMA CounterTerminates ==
  ASSUME NEW writer \in Writer, NEW pid \in Pid
  PROVE  Terminates(writer, counter(writer, pid), <<"counter", <<pid>>>>)
<1> DEFINE bytes == <<DELIMITER, TERMINATOR_COUNTER>> \o PidBytes(pid)
           body == <<TERMINATOR_COUNTER>> \o PidBytes(pid)
           e == Delim(body)
           term == <<"counter", <<pid>>>>
<1>1. pid \in Nat /\ Fits(pid, 4)
  BY TerminatorAssumption DEF Fits
<1>2. Read[e] = <<term>> /\ e \in Delimiting
  BY <1>1, ReadCounter
<1>3. bytes = e
  <2>1. PidBytes(pid) \in ByteString
    BY PidBytesType
  <2>2. TERMINATOR_COUNTER \in 0..255
    BY Tags, Zenon
  <2> QED
    BY <2>1, <2>2, TagFacts
<1>4. e \in ByteString
  BY <1>2 DEF Delimiting
<1>5. counter(writer, pid) = Written(writer, bytes, 0) /\ 0 \in Nat
  BY DEF counter
<1>6. term[1] = "counter"
  OBVIOUS
<1> HIDE DEF bytes, e, term
<1>7. Written(writer, bytes, 0).w.buf = writer.buf \o bytes
  BY <1>3, <1>4, <1>5, WrittenResult
<1>8. counter(writer, pid).w.buf = writer.buf \o e
  BY <1>3, <1>5, <1>7, Zenon
<1>9. Ending(term, e)
  BY <1>2, <1>6 DEF Ending
<1>10. Terminates(writer, counter(writer, pid), term)
  BY <1>8, <1>9, Zenon DEF Terminates
<1> QED
  BY <1>10 DEF term

\* A terminated writer makes a key
LEMMA MadeHere ==
  ASSUME NEW place \in Seq(Accepted), NEW writer, writer.buf = Encoded(place), NEW result, NEW term,
         Terminates(writer, result, term), NEW key,
         key.path = Append(place, term), key.buf = result.w.buf
  PROVE  WellMade(key)
<1>1. PICK e : Ending(term, e) /\ result.w.buf = writer.buf \o e
  BY Zenon DEF Terminates
<1>2. key.buf = Encoded(place) \o e
  BY <1>1, Zenon
<1>3. Made(key, place, term, e)
  BY <1>1, <1>2, Zenon DEF Made
<1> QED
  BY <1>3, Zenon DEF WellMade

\* Mutation::for_each and the client of a path start with nothing written
LEMMA StartCoded ==
  ASSUME Inv, Coded, for_each \/ Begin
  PROVE  Coded'
<1>1. keys' = keys /\ w'.buf = <<>> /\ CodedKeys /\ Typed /\ client = "none" /\ frames = <<>>
  <2>1. keys' = keys /\ w' = new /\ client = "none"
    BY DEF for_each, Begin
  <2> QED
    BY <2>1, Fresh, Zenon DEF Coded, Inv, Stacked
<1>2. CodedKeys'
  BY <1>1, KeysCoded
<1>3. CASE for_each
  <2>1. client' = "mutation" /\ frames' = <<>>
    BY <1>1, <1>3 DEF for_each
  <2>2. DOMAIN frames' = {} /\ client' # "path"
    BY <2>1, Fresh, Zenon
  <2>3. CodedFrames'
    BY <2>2, Zenon DEF CodedFrames
  <2> QED
    BY <1>2, <2>3 DEF Coded
<1>4. CASE Begin
  <2>1. client' = "path" /\ client' # "mutation" /\ frames' = <<[trunc |-> 0, path |-> <<>>]>>
    BY <1>4 DEF Begin
  <2> DEFINE fr == <<[trunc |-> 0, path |-> <<>>]>>
  <2>2. fr[1].path = <<>>
    OBVIOUS
  <2> HIDE DEF fr
  <2>3. frames'[1].path = <<>>
    <3>1. frames' = fr
      BY <2>1 DEF fr
    <3> QED
      BY <2>2, <3>1, Zenon
  <2>4. <<>> \in Seq(Accepted)
    OBVIOUS
  <2>5. Encoded(<<>>) = <<>>
    BY <2>4, AcceptedBytes
  <2>6. CodedFrames'
    BY <1>1, <2>1, <2>3, <2>4, <2>5, Zenon DEF CodedFrames
  <2> QED
    BY <1>2, <2>6 DEF Coded
<1> QED
  BY <1>3, <1>4

\* The loop of a Compose begins at the place of the one around it
LEMMA ComposeCoded ==
  ASSUME Inv, Coded, Compose
  PROVE  Coded'
<1> DEFINE top == [trunc |-> Len(w.buf), path |-> Place]
<1>1. client = "mutation" /\ client # "none" /\ frames' = Append(frames, top)
      /\ UNCHANGED <<client, w, keys>>
  BY DEF Compose, Running
<1>2. Place \in Seq(Accepted) /\ w.buf = Encoded(Place) /\ w.buf \in ByteString
  BY <1>1, PlaceCoded DEF Coded
<1>3. top.trunc = Len(w.buf) /\ top.path = Place
  OBVIOUS
<1> HIDE DEF top
<1>4. w'.buf = w.buf
  BY <1>1
<1>5. \A k \in 0..Len(w.buf) : SubSeq(w'.buf, 1, k) = SubSeq(w.buf, 1, k)
  BY <1>4, Zenon
<1>6. CodedFrames /\ client' = client /\ w'.buf \in ByteString /\ w'.buf = Encoded(top.path)
      /\ top.path \in Seq(Accepted) /\ top.trunc = Len(w'.buf)
  BY <1>1, <1>2, <1>3, <1>4, Zenon DEF Coded
<1>7. CodedFrames'
  BY <1>1, <1>5, <1>6, PushCoded
<1>8. CodedKeys'
  BY <1>1, KeysCoded DEF Coded, Inv
<1> QED
  BY <1>7, <1>8 DEF Coded

\* The loop of a Nested begins one segment below
LEMMA NestedCoded ==
  ASSUME Inv, Coded, NEW segment \in Segment, Nested(segment)
  PROVE  Coded'
<1> DEFINE after == Write(w, segment).w
           place == Append(Place, segment)
           top == [trunc |-> Len(after.buf), path |-> place]
<1>1. /\ client = "mutation" /\ client # "none" /\ Write(w, segment).error = ""
      /\ frames' = Append(frames, top) /\ w' = after /\ UNCHANGED <<client, keys>>
  BY DEF Nested, Running
<1>2. /\ place \in Seq(Accepted) /\ after.buf = Encoded(place) /\ after.buf \in ByteString
      /\ \A k \in 0..Len(w.buf) : SubSeq(after.buf, 1, k) = SubSeq(w.buf, 1, k)
  BY <1>1, WriteCoded DEF Coded
<1> HIDE DEF after, place
<1>3. top.trunc = Len(after.buf) /\ top.path = place
  OBVIOUS
<1> HIDE DEF top
<1>4. w'.buf = after.buf
  BY <1>1, Zenon
<1>5. \A k \in 0..Len(w.buf) : SubSeq(w'.buf, 1, k) = SubSeq(w.buf, 1, k)
  BY <1>2, <1>4, Zenon
<1>6. CodedFrames /\ client' = client /\ w'.buf \in ByteString /\ w'.buf = Encoded(top.path)
      /\ top.path \in Seq(Accepted) /\ top.trunc = Len(w'.buf)
  BY <1>1, <1>2, <1>3, <1>4, Zenon DEF Coded
<1>7. CodedFrames'
  BY <1>1, <1>5, <1>6, PushCoded
<1>8. CodedKeys'
  BY <1>1, KeysCoded DEF Coded, Inv
<1> QED
  BY <1>7, <1>8 DEF Coded

\* The buffer of a truncated writer
LEMMA TruncatedBuf ==
  ASSUME NEW writer \in Writer, NEW running
  PROVE  Truncated(writer, running).buf = SubSeq(writer.buf, 1, Last(running).trunc)
<1> DEFINE b == SubSeq(writer.buf, 1, Last(running).trunc)
<1>1. Truncated(writer, running) = [writer EXCEPT !.buf = b]
  BY DEF Truncated
<1> HIDE DEF b
<1>2. [writer EXCEPT !.buf = b].buf = b
  BY DEF Writer
<1> QED
  BY <1>1, <1>2 DEF b

\* A key of a mutation: the loop that called truncates to the bytes it had
LEMMA ApplyCoded ==
  ASSUME Inv, Coded, NEW segment \in Segment, Apply(segment)
  PROVE  Coded'
<1> DEFINE after == Write(w, segment).w
           term == <<"lww", <<>>>>
           place == Append(Place, segment)
           key == [path |-> Place \o <<segment, term>>, buf |-> lww(after).w.buf]
<1>1. /\ client = "mutation" /\ client # "none" /\ Write(w, segment).error = ""
      /\ keys' = Append(keys, key)
      /\ frames = <<>> => End("")
      /\ frames # <<>> => w' = Truncated(after, frames) /\ UNCHANGED <<client, frames>>
  BY DEF Apply, Running
<1>2. /\ place \in Seq(Accepted) /\ after.buf = Encoded(place) /\ after.buf \in ByteString
      /\ \A k \in 0..Len(w.buf) : SubSeq(after.buf, 1, k) = SubSeq(w.buf, 1, k)
  BY <1>1, WriteCoded DEF Coded
<1>3. Place \o <<segment, term>> = Append(place, term)
  <2>1. Place \in Seq(Segment) /\ term \in Terminator
    BY <1>1, PlaceFacts DEF Terminator
  <2> HIDE DEF term
  <2> QED
    BY <2>1, Appended
<1>4. after \in Writer /\ w \in Writer /\ Typed
  <2>1. w \in Writer /\ Typed
    BY DEF Inv, Typed
  <2> QED
    BY <2>1, WriteResult
<1>5. Terminates(after, lww(after), term)
  BY <1>4, LwwTerminates
<1>6. key.path = Place \o <<segment, term>> /\ key.buf = lww(after).w.buf
  OBVIOUS
<1> HIDE DEF key, after, place, term
<1>7. WellMade(key)
  <2>1. key.path = Append(place, term) /\ key.buf = lww(after).w.buf
    BY <1>3, <1>6, Zenon
  <2> QED
    BY <1>2, <1>5, <2>1, MadeHere
<1>8. CodedKeys'
  BY <1>1, <1>4, <1>7, KeysCoded DEF Coded
<1>9. CASE frames = <<>>
  <2>1. client' = "none"
    BY <1>1, <1>9 DEF End
  <2> QED
    BY <1>8, <2>1, EndCoded
<1>10. CASE frames # <<>>
  <2> DEFINE n == Len(frames)
             t == frames[n].trunc
  <2>1. /\ n \in 1..n /\ n \in DOMAIN frames /\ frames \in Seq(Frame) /\ t \in Nat
    <3>1. frames \in Seq(Frame)
      BY <1>4 DEF Typed
    <3>2. n \in Nat /\ n # 0 /\ DOMAIN frames = 1..n
      BY <1>10, <3>1, LenProperties, EmptySeq
    <3>3. n \in 1..n
      BY <3>2
    <3> QED
      BY <1>4, <3>1, <3>2, <3>3, FrameFacts
  <2>2. t = Len(w.buf) /\ Last(frames).trunc = t
    BY <1>1, <1>10 DEF Inv, Stacked, Last
  <2>3. w'.buf = SubSeq(after.buf, 1, t)
    BY <1>1, <1>4, <1>10, <2>2, TruncatedBuf, Zenon
  <2>4. t \in 0..Len(w.buf)
    BY <2>1, <2>2
  <2> HIDE DEF t
  <2>5. w'.buf = SubSeq(w.buf, 1, t)
    BY <1>2, <2>3, <2>4, Zenon
  <2>6. client' = client /\ frames' = frames
    BY <1>1, <1>10
  <2>7. CodedFrames'
    <3>1. \A i \in 1..n : frames'[i] = frames[i]
      BY <2>6
    <3>2. frames' \in Seq(Frame) /\ Len(frames') = n
      BY <2>1, <2>6
    <3> HIDE DEF n
    <3>3. n \in 1..Len(frames) /\ w'.buf = SubSeq(w.buf, 1, frames[n].trunc) /\ CodedFrames
      BY <2>1, <2>5 DEF n, t, Coded
    <3> QED
      BY <1>1, <2>6, <3>1, <3>2, <3>3, PopCoded
  <2> QED
    BY <1>8, <2>7 DEF Coded
<1> QED
  BY <1>9, <1>10

\* The number before
LEMMA Predecessor ==
  \A n \in Nat : n # 0 /\ n # 1 => n - 1 \in 1..n /\ n - 1 \in 0..n /\ n - 1 \in 1..(n - 1)
OBVIOUS

\* A loop ends, and the one around it truncates to its bytes
LEMMA ReturnCoded ==
  ASSUME Inv, Coded, Return
  PROVE  Coded'
<1>1. /\ client = "mutation" /\ frames # <<>> /\ keys' = keys
      /\ Len(frames) = 1 => End("")
      /\ Len(frames) # 1 => /\ frames' = Front(frames) /\ w' = Truncated(w, Front(frames))
                            /\ client' = client
  BY DEF Return
<1>2. Typed /\ w \in Writer /\ frames \in Seq(Frame)
  BY DEF Inv, Typed
<1>3. CodedKeys'
  BY <1>1, <1>2, KeysCoded DEF Coded
<1>4. CASE Len(frames) = 1
  <2>1. client' = "none"
    BY <1>1, <1>4 DEF End
  <2> QED
    BY <1>3, <2>1, EndCoded
<1>5. CASE Len(frames) # 1
  <2> DEFINE n == Len(frames)
             k == n - 1
             outer == Front(frames)
  <2>1. n \in Nat /\ n # 0
    BY <1>1, <1>2, LenProperties, EmptySeq
  <2>2. k \in 1..n /\ k \in 0..n /\ k \in 1..k
    BY <1>5, <2>1, Predecessor, Zenon
  <2>3. outer = SubSeq(frames, 1, k)
    BY DEF Front
  <2>4. outer \in Seq(Frame) /\ Len(outer) = k /\ \A i \in 1..k : outer[i] = frames[i]
    <3> HIDE DEF outer, k
    <3> QED
      BY <1>2, <2>2, <2>3, PrefixFacts
  <2>5. Last(outer).trunc = frames[k].trunc
    <3> HIDE DEF outer, k
    <3> QED
      BY <2>2, <2>4 DEF Last
  <2>6. frames' = outer /\ client' = client /\ w' = Truncated(w, outer)
    BY <1>1, <1>5
  <2> HIDE DEF outer
  <2>7. w'.buf = SubSeq(w.buf, 1, frames[k].trunc)
    BY <1>2, <2>5, <2>6, TruncatedBuf, Zenon
  <2> HIDE DEF k
  <2>8. CodedFrames /\ frames' \in Seq(Frame) /\ Len(frames') = k /\ \A i \in 1..k : frames'[i] = frames[i]
    BY <2>4, <2>6, Zenon DEF Coded
  <2>9. CodedFrames'
    BY <1>1, <2>2, <2>6, <2>7, <2>8, PopCoded
  <2> QED
    BY <1>3, <2>9 DEF Coded
<1> QED
  BY <1>4, <1>5

\* A segment of a path of its own
LEMMA OwnPushCoded ==
  ASSUME Inv, Coded, NEW segment \in Segment, Push(segment)
  PROVE  Coded'
<1> DEFINE after == Write(w, segment).w
           place == Append(Place, segment)
           top == [trunc |-> 0, path |-> place]
           fr == <<top>>
<1>1. /\ client = "path" /\ client # "none" /\ Write(w, segment).error = "" /\ w' = after
      /\ frames' = fr /\ UNCHANGED <<client, keys>>
  BY DEF Push
<1>2. place \in Seq(Accepted) /\ after.buf = Encoded(place)
  BY <1>1, WriteCoded DEF Coded
<1> HIDE DEF after, place
<1>3. fr[1].path = place
  OBVIOUS
<1> HIDE DEF fr
<1>4. frames'[1].path = place /\ w'.buf = after.buf /\ client' = "path" /\ client' # "mutation"
  <2>1. client' = "path"
    BY <1>1
  <2>2. "path" # "mutation"
    OBVIOUS
  <2> QED
    BY <1>1, <1>3, <2>1, <2>2, Zenon
<1>5. CodedFrames'
  BY <1>2, <1>4, Zenon DEF CodedFrames
<1>6. CodedKeys'
  BY <1>1, KeysCoded DEF Coded, Inv
<1> QED
  BY <1>5, <1>6 DEF Coded

\* A terminator of a path of its own
LEMMA FinishCoded ==
  ASSUME Inv, Coded, NEW result, NEW term, Terminates(w, result, term), Finish(result, term)
  PROVE  Coded'
<1> DEFINE key == [path |-> Append(Place, term), buf |-> result.w.buf]
<1>1. client = "path" /\ client # "none" /\ keys' = Append(keys, key) /\ client' = "none"
  BY DEF Finish, End
<1>2. Place \in Seq(Accepted) /\ w.buf = Encoded(Place)
  BY <1>1, PlaceCoded DEF Coded
<1>3. key.path = Append(Place, term) /\ key.buf = result.w.buf
  OBVIOUS
<1> HIDE DEF key
<1>4. WellMade(key)
  BY <1>2, <1>3, MadeHere
<1>5. CodedKeys'
  BY <1>1, <1>4, KeysCoded DEF Coded, Inv
<1> QED
  BY <1>1, <1>5, EndCoded

\* Every step keeps buffers and keys the bytes of what they stand for
LEMMA CodedStep ==
  ASSUME Inv, Coded, [Next]_vars
  PROVE  Coded'
<1>1. w \in Writer /\ Typed /\ CodedKeys
  BY DEF Inv, Typed, Coded
<1>2. CASE UNCHANGED vars
  <2>1. UNCHANGED <<client, w, frames, keys>>
    BY <1>2 DEF vars
  <2> QED
    BY <2>1, Zenon DEF Coded, CodedFrames, CodedKeys
<1>3. CASE for_each \/ Begin
  BY <1>3, StartCoded
<1>4. CASE Compose
  BY <1>4, ComposeCoded
<1>5. CASE Return
  BY <1>5, ReturnCoded
<1>6. ASSUME NEW segment \in Segment,
             Nested(segment) \/ Apply(segment) \/ Fails(segment) \/ Push(segment)
      PROVE  Coded'
  <2>1. CASE Fails(segment)
    <3>1. client' = "none" /\ keys' = keys
      BY <2>1 DEF Fails
    <3>2. CodedKeys'
      BY <1>1, <3>1, KeysCoded
    <3> QED
      BY <3>1, <3>2, EndCoded
  <2> QED
    BY <1>6, <2>1, NestedCoded, ApplyCoded, OwnPushCoded
<1>7. CASE Finish(lww(w), <<"lww", <<>>>>)
  BY <1>1, <1>7, LwwTerminates, FinishCoded
<1>8. ASSUME NEW c \in Chunk, Finish(lww_chunked(w, c), <<"chunked", <<c>>>>) PROVE Coded'
  <2>1. lww_chunked(w, c).error = ""
    BY <1>8 DEF Finish
  <2>2. Terminates(w, lww_chunked(w, c), <<"chunked", <<c>>>>)
    BY <1>1, <2>1, ChunkedTerminates
  <2> QED
    BY <1>8, <2>2, FinishCoded
<1>9. ASSUME NEW pid \in Pid, Finish(counter(w, pid), <<"counter", <<pid>>>>) PROVE Coded'
  <2>1. Terminates(w, counter(w, pid), <<"counter", <<pid>>>>)
    BY <1>1, CounterTerminates
  <2> QED
    BY <1>9, <2>1, FinishCoded
<1> QED
  BY <1>2, <1>3, <1>4, <1>5, <1>6, <1>7, <1>8, <1>9 DEF Next

\* Nothing is written at first
LEMMA CodedInit == Init => Coded
<1> SUFFICES ASSUME Init PROVE Coded
  OBVIOUS
<1>1. client = "none" /\ keys = <<>>
  BY DEF Init
<1>2. DOMAIN keys = {}
  BY <1>1, Fresh, Zenon
<1> QED
  BY <1>1, <1>2 DEF Coded, CodedFrames, CodedKeys

\* So it is in every state
LEMMA CodedAlways == Spec => [](Inv /\ Coded)
<1>1. Inv /\ Coded /\ [Next]_vars => Inv' /\ Coded'
  BY InvStep, CodedStep
<1> QED
  BY <1>1, InvInit, CodedInit, PTL DEF Spec

-----------------------------------------------------------------------------
(* The order of keys *)

\* An element of a path with a terminator
LEMMA BeforeTerminator ==
  ASSUME NEW key, NEW place, NEW term, NEW ending, Made(key, place, term, ending),
         NEW i \in DOMAIN key.path, key.path[i][1] = "index"
  PROVE  /\ place \in Seq(Piece) /\ i \in 1..Len(place) /\ key.path[i] = place[i]
         /\ SubSeq(key.path, 1, i - 1) = SubSeq(place, 1, i - 1)
<1> DEFINE p == key.path
           n == Len(place)
           T == Accepted \cup {term}
<1>1. place \in Seq(Accepted) /\ p = Append(place, term) /\ term[1] # "index"
  BY DEF Made, Ending
<1>2. place \in Seq(Piece) /\ n \in Nat /\ place \in Seq(T)
  <2>1. place \in Seq(Piece) /\ n \in Nat
    BY <1>1, AcceptedPiece, LenProperties
  <2>2. \A j \in 1..n : place[j] \in T
    BY <1>1, ElementOfSeq
  <2> HIDE DEF T
  <2> QED
    BY <1>1, <2>1, <2>2, Retyped
<1>3. /\ p \in Seq(T) /\ Len(p) = n + 1 /\ p[n + 1] = term /\ DOMAIN p = 1..(n + 1)
      /\ \A j \in 1..n : p[j] = place[j]
  <2>1. term \in T
    OBVIOUS
  <2> HIDE DEF T, p
  <2>2. Append(place, term) \in Seq(T) /\ Len(Append(place, term)) = n + 1
        /\ Append(place, term)[n + 1] = term
        /\ \A j \in 1..n : Append(place, term)[j] = place[j]
    BY <1>2, <2>1, AppendProperties
  <2> QED
    BY <1>1, <2>2, LenProperties
<1> HIDE DEF p, T
<1>4. i \in 1..(n + 1) /\ p[i][1] = "index"
  BY <1>3 DEF p
<1>5. i # n + 1
  BY <1>1, <1>3, <1>4
<1> HIDE DEF n
<1>6. i \in 1..n /\ i - 1 \in Nat /\ i - 1 <= n /\ i - 1 <= n + 1 /\ p[i] = place[i]
      /\ \A j \in 1..(i - 1) : p[j] = place[j]
  BY <1>2, <1>3, <1>4, <1>5
<1>7. SubSeq(p, 1, i - 1) = SubSeq(place, 1, i - 1)
  BY <1>2, <1>3, <1>6, SamePrefix DEF n
<1> QED
  BY <1>2, <1>6, <1>7 DEF p, n

\* The bytes of a key around one of its indices
LEMMA KeyAround ==
  ASSUME NEW key, WellMade(key), NEW i \in DOMAIN key.path, key.path[i][1] = "index"
  PROVE  LET before == Encoded(SubSeq(key.path, 1, i - 1))
         IN  /\ before \in ByteString /\ key.buf \in ByteString
             /\ \E u \in Delimiting : key.buf = before \o Delim(key.path[i][2] \o u)
<1>1. PICK place, term, ending : Made(key, place, term, ending)
  BY DEF WellMade
<1>2. /\ place \in Seq(Piece) /\ i \in 1..Len(place) /\ key.path[i] = place[i]
      /\ SubSeq(key.path, 1, i - 1) = SubSeq(place, 1, i - 1)
  BY <1>1, BeforeTerminator
<1>3. key.buf = Encoded(place) \o ending /\ ending \in Delimiting /\ ending \in ByteString
  BY <1>1 DEF Made, Ending, Delimiting
<1> DEFINE pre == SubSeq(place, 1, i - 1)
           post == From(place, i + 1)
           P == Encoded(pre)
           Q == Encoded(post)
           x == place[i][2]
           D == Delim(x)
<1>4. pre \in Seq(Piece) /\ post \in Seq(Piece) /\ Encoded(place) = P \o (D \o Q)
  BY <1>2, EncodedSplit
<1>5. P \in ByteString /\ Q \in ByteString
  BY <1>4, EncodedConcat
<1>6. x \in ByteString /\ D \in ByteString
  <2>1. place[i] \in Piece
    BY <1>2, ElementOfSeq
  <2>2. x \in ByteString
    BY <2>1, PieceType
  <2> QED
    BY <2>2, DelimBytes
<1>7. Q \o ending \in Delimiting
  BY <1>3, <1>4, EncodedDelimiting
<1> HIDE DEF P, Q, x, D
<1> DEFINE DQ == D \o Q
           u == Q \o ending
<1>8. DQ \o ending = D \o u /\ DQ \in ByteString /\ u \in ByteString
  <2>1. Joining(D, Q, ending)
    BY <1>3, <1>5, <1>6, Joins, Zenon
  <2> QED
    BY <2>1, Zenon DEF Joining
<1>9. u \in Delimiting /\ Encoded(place) = P \o DQ
  BY <1>4, <1>7
<1> HIDE DEF DQ, u
<1>10. (P \o DQ) \o ending = P \o (DQ \o ending) /\ P \o DQ \in ByteString
  <2>1. Joining(P, DQ, ending)
    BY <1>3, <1>5, <1>8, Joins, Zenon
  <2> QED
    BY <2>1, Zenon DEF Joining
<1>11. D \o u = Delim(x \o u)
  BY <1>6, <1>8, DelimBytes DEF D
<1>12. key.buf = P \o Delim(x \o u)
  BY <1>3, <1>8, <1>9, <1>10, <1>11, Zenon
<1>13. key.buf \in ByteString
  <2>1. Joining(P \o DQ, ending, ending)
    BY <1>3, <1>10, Joins, Zenon
  <2> QED
    BY <1>3, <1>9, <2>1, Zenon DEF Joining
<1>14. Encoded(SubSeq(key.path, 1, i - 1)) = P /\ key.path[i][2] = x
  BY <1>2 DEF P, x
<1> QED
  BY <1>5, <1>9, <1>12, <1>13, <1>14, Zenon

\* Two indices at the same place
LEMMA IndexedOrder ==
  ASSUME NEW p \in ByteString, NEW a \in Seq(Pair), NEW b \in Seq(Pair), SegmentsLess(a, b),
         NEW u \in Delimiting, NEW v \in Delimiting
  PROVE  Below(p \o Delim(Bytes(a) \o u), p \o Delim(Bytes(b) \o v))
<1> DEFINE s == Bytes(a) \o u
           t == Bytes(b) \o v
           d == <<DELIMITER>>
<1>1. Below(s, t)
  BY IndexOrder
<1>2. s \in ByteString /\ t \in ByteString
  <2>1. Bytes(a) \in ByteString /\ Bytes(b) \in ByteString /\ u \in ByteString /\ v \in ByteString
    BY IndexCoding DEF Delimiting
  <2> QED
    BY <2>1, Joined
<1>3. d \in ByteString
  BY DEF ByteString, DELIMITER
<1> HIDE DEF s, t, d
<1>4. Below(d \o s, d \o t)
  BY <1>1, <1>2, <1>3, BelowPrefix
<1>5. Delim(s) = d \o s /\ Delim(t) = d \o t
  BY DEF Delim, d
<1>6. Delim(s) \in ByteString /\ Delim(t) \in ByteString
  BY <1>2, DelimBytes
<1> DEFINE x == Delim(s)
           y == Delim(t)
<1>7. Below(x, y) /\ x \in ByteString /\ y \in ByteString
  BY <1>4, <1>5, <1>6
<1> HIDE DEF x, y
<1>8. Below(p \o x, p \o y)
  BY <1>7, BelowPrefix
<1> QED
  BY <1>8 DEF x, y, s, t

\* lseq.md, the order of a sequence: of two keys that agree up to an index, the
\* one with the lower index is lower as a string of bytes, whatever segments and
\* terminators follow the indices, and although one index may be the beginning
\* of the other
THEOREM MutationKeysSortLikeIndices == Spec => []KeysSortLikeIndices
<1>1. Coded => KeysSortLikeIndices
  <2> SUFFICES ASSUME Coded, NEW k1 \in Keys, NEW k2 \in Keys, NEW i \in DOMAIN k1.path,
                      NEW a \in Index, NEW b \in Index, i \in DOMAIN k2.path,
                      SubSeq(k1.path, 1, i - 1) = SubSeq(k2.path, 1, i - 1),
                      k1.path[i] = <<"index", Bytes(a)>>, k2.path[i] = <<"index", Bytes(b)>>,
                      IndexLess(a, b)
               PROVE  Lower(k1.buf, k2.buf)
    BY Zenon DEF KeysSortLikeIndices
  <2>1. WellMade(k1) /\ WellMade(k2)
    BY DEF Coded, CodedKeys, Keys
  <2>2. k1.path[i][1] = "index" /\ k1.path[i][2] = Bytes(a)
    OBVIOUS
  <2>3. k2.path[i][1] = "index" /\ k2.path[i][2] = Bytes(b)
    OBVIOUS
  <2> DEFINE p == Encoded(SubSeq(k1.path, 1, i - 1))
  <2>4. p \in ByteString /\ k1.buf \in ByteString
        /\ \E u \in Delimiting : k1.buf = p \o Delim(Bytes(a) \o u)
    BY <2>1, <2>2, KeyAround, ZenonT(40)
  <2>5. k2.buf \in ByteString /\ \E v \in Delimiting : k2.buf = p \o Delim(Bytes(b) \o v)
    <3> DEFINE q == Encoded(SubSeq(k2.path, 1, i - 1))
    <3>1. k2.buf \in ByteString /\ \E v \in Delimiting : k2.buf = q \o Delim(Bytes(b) \o v)
      BY <2>1, <2>3, KeyAround, ZenonT(40)
    <3>2. p = q
      OBVIOUS
    <3> HIDE DEF p, q
    <3> QED
      BY <3>1, <3>2
  <2> HIDE DEF p
  <2>6. PICK u \in Delimiting : k1.buf = p \o Delim(Bytes(a) \o u)
    BY <2>4
  <2>7. PICK v \in Delimiting : k2.buf = p \o Delim(Bytes(b) \o v)
    BY <2>5
  <2>8. SegmentsLess(a, b)
    BY Zenon DEF IndexLess, SegmentsLess, PairLess
  <2>9. a \in Seq(Pair) /\ b \in Seq(Pair)
    BY IndexPairs
  <2>10. Below(p \o Delim(Bytes(a) \o u), p \o Delim(Bytes(b) \o v))
    BY <2>4, <2>8, <2>9, IndexedOrder
  <2>11. Below(k1.buf, k2.buf)
    BY <2>6, <2>7, <2>10, Zenon
  <2> QED
    BY <2>4, <2>5, <2>11, BelowLower
<1> QED
  BY <1>1, CodedAlways, PTL

-----------------------------------------------------------------------------
(* Keys are read back *)

\* Every index has a segment.  FractionalIndex::new (mutation.rs) does not
\* refuse the empty one, whose bytes are those of the field ""
NoEmptyIndex == <<>> \notin Index /\ <<>> \notin Malformed

\* An index with a segment has bytes
LEMMA BytesNonempty ==
  ASSUME NEW index \in Index, index # <<>>
  PROVE  Bytes(index) # <<>>
<1> DEFINE n == Len(index)
           c == PairBytes
           pre == SubSeq(index, 1, n - 1)
           q == index[n]
           P == Coding(c, pre)
           none == Coding(c, From(index, n + 1))
<1>1. index \in Seq(Pair) /\ n \in Nat /\ n # 0
  BY IndexPairs, LenProperties, EmptySeq
<1>2. n \in 1..n
  BY <1>1
<1>3. q \in Pair
  BY <1>1, <1>2, ElementOfSeq
<1>4. c \in [Pair -> ByteString]
  BY <1>3, PairFacts
<1>5. SplitsAt(Pair, c, index, n)
  BY <1>1, <1>2, <1>4, CodingSplit
<1>6. pre \in Seq(Pair) /\ From(index, n + 1) \in Seq(Pair) /\ Coding(c, index) = P \o (c[q] \o none)
  BY <1>5, Zenon DEF SplitsAt
<1>7. P \in ByteString /\ none \in ByteString
  BY <1>4, <1>6, CodingConcat
<1> HIDE DEF P, none
<1> DEFINE x == c[q] \o none
<1>8. x \in ByteString /\ x # <<>>
  BY <1>3, <1>7, PairFirst
<1>9. Bytes(index) = P \o x
  BY <1>1, <1>6, IndexCoding
<1> HIDE DEF x
<1> DEFINE y == P \o x
<1>10. Len(y) = Len(P) + Len(x) /\ Len(P) \in Nat /\ Len(x) \in Nat
  BY <1>7, <1>8, ConcatFacts DEF ByteString
<1>11. Len(x) # 0
  BY <1>8, EmptySeq DEF ByteString
<1> HIDE DEF y
<1>12. Len(y) # 0
  BY <1>10, <1>11
<1>13. y # <<>>
  BY <1>12, EmptySeq
<1> QED
  BY <1>9, <1>13 DEF y

\* So PathReader can tell every accepted segment
LEMMA AcceptedPlain ==
  ASSUME NoEmptyIndex, NEW s \in Accepted, s \in Segment
  PROVE  s \in Plain
<1>1. PICK kind \in {"field", "index"}, b \in ByteString : s = <<kind, b>>
  BY DEF Accepted, Piece
<1>2. s[1] = kind /\ s[2] = b
  BY <1>1
<1>3. CASE kind = "field"
  <2>1. IsField(b)
    BY <1>2, <1>3 DEF Accepted
  <2> QED
    BY <1>1, <1>3, <2>1 DEF Plain
<1>4. CASE kind = "index"
  <2>1. is_valid[b]
    BY <1>2, <1>4 DEF Accepted
  <2>2. b # <<>>
    <3>1. CASE s \in {<<"field", f>> : f \in Field}
      BY <1>1, <1>4, <3>1
    <3>2. CASE s \in {<<"index", Bytes(i)>> : i \in Index}
      <4>1. PICK i \in Index : s = <<"index", Bytes(i)>>
        BY <3>2
      <4>2. Bytes(i) # <<>>
        BY BytesNonempty DEF NoEmptyIndex
      <4> QED
        BY <1>2, <4>1, <4>2
    <3>3. CASE s \in {<<"index", m>> : m \in Malformed}
      BY <1>1, <3>3 DEF NoEmptyIndex
    <3> QED
      BY <3>1, <3>2, <3>3 DEF Segment
  <2> QED
    BY <1>1, <1>4, <2>1, <2>2 DEF Plain
<1> QED
  BY <1>3, <1>4

\* and so the place of a key
LEMMA PlainPath ==
  ASSUME NoEmptyIndex, NEW p \in Seq(Accepted), \A j \in 1..Len(p) : p[j] \in Segment
  PROVE  p \in Seq(Plain)
<1>1. \A j \in 1..Len(p) : p[j] \in Plain
  <2> SUFFICES ASSUME NEW j \in 1..Len(p) PROVE p[j] \in Plain
    OBVIOUS
  <2>1. p[j] \in Accepted /\ p[j] \in Segment
    BY ElementOfSeq
  <2> QED
    BY <2>1, AcceptedPlain
<1> QED
  BY <1>1, Retyped

\* The place of a key is made of segments of the client
LEMMA KeyPlace ==
  ASSUME NoEmptyIndex, NEW key \in Key, NEW place, NEW term, NEW ending,
         Made(key, place, term, ending)
  PROVE  place \in Seq(Plain)
<1> DEFINE T == Accepted \cup {term}
           n == Len(place)
           S == Segment \cup Terminator
<1>1. place \in Seq(Accepted) /\ key.path = Append(place, term)
  BY DEF Made
<1>2. key.path \in Seq(S)
  BY DEF Key
<1>3. n \in Nat /\ Len(key.path) = n + 1 /\ \A j \in 1..n : key.path[j] = place[j]
  <2>1. \A j \in 1..n : place[j] \in T
    BY <1>1, ElementOfSeq
  <2>2. term \in T
    OBVIOUS
  <2> HIDE DEF T
  <2>3. place \in Seq(T)
    BY <1>1, <2>1, Retyped
  <2>4. Len(Append(place, term)) = n + 1 /\ \A j \in 1..n : Append(place, term)[j] = place[j]
    BY <2>2, <2>3, AppendProperties
  <2> QED
    BY <1>1, <2>4, LenProperties
<1>4. ASSUME NEW j \in 1..n PROVE place[j] \in Segment
  <2>1. j \in 1..Len(key.path)
    BY <1>3
  <2>2. place[j] \in S
    <3> HIDE DEF S
    <3>1. key.path[j] \in S
      BY <1>2, <2>1, ElementOfSeq
    <3> QED
      BY <1>3, <3>1
  <2>3. place[j] \in Accepted
    BY <1>1, ElementOfSeq
  <2>4. place[j][1] \in {"field", "index"}
    BY <2>3 DEF Accepted, Piece
  <2>5. place[j] \notin Terminator
    BY <2>4 DEF Terminator
  <2> QED
    BY <2>2, <2>5
<1> QED
  BY <1>1, <1>4, PlainPath

\* One key
LEMMA KeyReadBack ==
  ASSUME NoEmptyIndex, NEW key \in Key, WellMade(key)
  PROVE  Read[key.buf] = key.path
<1>1. PICK place, term, ending : Made(key, place, term, ending)
  BY DEF WellMade
<1>2. place \in Seq(Plain)
  BY <1>1, KeyPlace
<1> DEFINE last == <<term>>
<1>3. /\ key.buf = Encoded(place) \o ending /\ ending \in Delimiting
      /\ Read[ending] = last /\ key.path = Append(place, term)
  BY <1>1 DEF Made, Ending
<1>4. Append(place, term) = place \o last
  BY <1>2
<1> HIDE DEF last
<1>5. Read[Encoded(place) \o ending] = place \o Read[ending]
  BY <1>2, <1>3, ReadEncoded
<1> QED
  BY <1>3, <1>4, <1>5, Zenon

\* A key is a key
LEMMA KeysAre ==
  ASSUME Inv, Coded, NEW key \in Keys
  PROVE  key \in Key /\ WellMade(key)
<1>1. PICK i \in DOMAIN keys : key = keys[i]
  BY DEF Keys
<1>2. keys \in Seq(Key)
  BY DEF Inv, Typed
<1>3. keys[i] \in Key
  BY <1>2, ElementOfSeq, LenProperties
<1> QED
  BY <1>1, <1>3 DEF Coded, CodedKeys

\* PathReader (path/mod.rs, roundtrip_path): as long as no index is empty, every
\* key that Mutation::for_each or a PathWriter makes is read back as the
\* segments and the terminator it was made of, whatever the loops truncated
\* before, and although the bytes of an index may contain the delimiter; so two
\* places never share a key
THEOREM MutationRoundTrips ==
  ASSUME NoEmptyIndex
  PROVE  Spec => []RoundTrips
<1>1. Inv /\ Coded => RoundTrips
  <2> SUFFICES ASSUME Inv, Coded, NEW key \in Keys PROVE Read[key.buf] = key.path
    BY DEF RoundTrips
  <2> QED
    BY KeysAre, KeyReadBack
<1> QED
  BY <1>1, CodedAlways, PTL

-----------------------------------------------------------------------------
(* Scans with a prefix *)

\* A prefix is followed by a rest
LEMMA PrefixRest ==
  ASSUME NEW S, NEW p \in Seq(S), NEW q \in Seq(S)
  PROVE  IsPrefix(p, q) <=> \E r \in Seq(S) : q = p \o r
<1> DEFINE n == Len(p)
           m == Len(q)
<1>1. n \in Nat /\ m \in Nat /\ SubSeq(p, 1, n) = p /\ SubSeq(q, 1, m) = q
  BY LenProperties, SubSeqFull
<1>2. ASSUME IsPrefix(p, q) PROVE \E r \in Seq(S) : q = p \o r
  <2>1. n <= m /\ SubSeq(q, 1, n) = p
    BY <1>1, <1>2 DEF IsPrefix
  <2>2. 1 \in 1..(m + 1) /\ n \in 1 - 1 .. m /\ m \in n..m /\ n + 1 \in 1..(m + 1)
    BY <1>1, <2>1
  <2>3. SubSeq(q, 1, n) \o SubSeq(q, n + 1, m) = SubSeq(q, 1, m)
    BY <2>2, ConcatAdjacentSubSeq
  <2>4. From(q, n + 1) \in Seq(S)
    BY <2>2, FromFacts
  <2>5. q = p \o From(q, n + 1)
    BY <1>1, <2>1, <2>3 DEF From
  <2> QED
    BY <2>4, <2>5
<1>3. ASSUME NEW r \in Seq(S), q = p \o r PROVE IsPrefix(p, q)
  <2>1. /\ m = n + Len(r) /\ Len(r) \in Nat /\ \A j \in 1..n : q[j] = p[j]
    BY <1>3, ConcatFacts
  <2>2. n <= m /\ n <= n
    BY <1>1, <2>1
  <2>3. SubSeq(p, 1, n) = SubSeq(q, 1, n)
    BY <1>1, <2>1, <2>2, SamePrefix
  <2> QED
    BY <2>2, <2>3 DEF IsPrefix
<1> QED
  BY <1>2, <1>3

\* Bytes that go on with a delimiter
LEMMA DelimitedPrefix ==
  ASSUME NEW b \in ByteString, NEW c \in ByteString
  PROVE  IsPrefix(Append(b, DELIMITER), c) <=> \E next \in Delimiting : c = b \o next
<1> DEFINE d == <<DELIMITER>>
           bd == b \o d
<1>1. d \in ByteString /\ DELIMITER \in 0..255 /\ Len(d) = 1 /\ d[1] = 0 /\ d # <<>>
  BY DEF ByteString, DELIMITER
<1>2. Append(b, DELIMITER) = bd /\ bd \in ByteString
  BY <1>1, AppendByte, Joined
<1>3. \A r : Delim(r) = d \o r
  BY DEF Delim
<1> HIDE DEF d
<1>4. IsPrefix(bd, c) <=> \E r \in ByteString : c = bd \o r
  <2> HIDE DEF bd
  <2>1. bd \in Seq(0..255) /\ c \in Seq(0..255)
    BY <1>2 DEF ByteString
  <2>2. IsPrefix(bd, c) <=> \E r \in Seq(0..255) : c = bd \o r
    BY <2>1, PrefixRest, Zenon
  <2> QED
    BY <2>2, Zenon DEF ByteString
<1>5. ASSUME NEW r \in ByteString, c = bd \o r PROVE \E next \in Delimiting : c = b \o next
  <2>1. Joining(b, d, r)
    BY <1>1, Joins, Zenon
  <2>2. c = b \o Delim(r)
    BY <1>3, <1>5, <2>1, Zenon DEF Joining
  <2>3. Delim(r) \in Delimiting
    BY DelimBytes
  <2> QED
    BY <2>2, <2>3, Zenon
<1>6. ASSUME NEW next \in Delimiting, c = b \o next PROVE \E r \in ByteString : c = bd \o r
  <2> DEFINE r == From(next, 2)
             n == Len(next)
  <2>1. next \in ByteString /\ next \in Seq(0..255) /\ next # <<>> /\ next[1] = 0
    BY DEF Delimiting, ByteString
  <2>2. n \in Nat /\ n # 0 /\ 1 \in 1..n /\ n \in 1..n
    BY <2>1, LenProperties, EmptySeq
  <2>3. r \in ByteString
    <3>1. 2 \in Nat /\ 2 >= 1
      OBVIOUS
    <3> QED
      BY <2>1, <3>1, FromAny DEF ByteString
  <2>4. next = d \o r
    <3>1. SubSeq(next, 1, n) = <<next[1]>> \o SubSeq(next, 1 + 1, n)
      BY <2>1, <2>2, SubSeqRecursiveFirst
    <3>2. SubSeq(next, 1, n) = next /\ 1 + 1 = 2
      BY <2>1, SubSeqFull
    <3> QED
      BY <2>1, <3>1, <3>2 DEF From, d, DELIMITER
  <2> HIDE DEF r
  <2>5. Joining(b, d, r)
    BY <1>1, <2>3, Joins, Zenon
  <2>6. c = bd \o r
    BY <1>6, <2>4, <2>5, Zenon DEF Joining
  <2> QED
    BY <2>3, <2>6
<1> QED
  BY <1>2, <1>4, <1>5, <1>6

\* At most one more, and not that
LEMMA NotMore == \A n, k \in Nat : k <= n + 1 /\ k # n + 1 => k <= n
OBVIOUS

\* Below a place are the keys whose places go on from it
Continues(p, place, term) ==
  /\ p # Append(place, term)
  /\ IsStrictPrefix(p, Append(place, term)) <=> \E q \in Seq(Accepted) : place = p \o q

\* A terminator is no segment, so no place is a whole key
LEMMA BelowPlace ==
  ASSUME NEW p \in Seq(Accepted), NEW place \in Seq(Accepted), NEW term,
         term[1] \in {"lww", "chunked", "counter"}
  PROVE  Continues(p, place, term)
<1> DEFINE T == Accepted \cup {term}
           path == Append(place, term)
           n == Len(place)
<1>0. term \notin Accepted /\ term \in T
  BY DEF Accepted, Piece
<1>1. ASSUME NEW s \in Seq(Accepted) PROVE s \in Seq(T)
  <2>1. \A j \in 1..Len(s) : s[j] \in T
    BY ElementOfSeq
  <2> HIDE DEF T
  <2> QED
    BY <2>1, Retyped
<1>2. p \in Seq(T) /\ place \in Seq(T)
  BY <1>1
<1> HIDE DEF T
<1>3. /\ path \in Seq(T) /\ n \in Nat /\ Len(path) = n + 1 /\ path[n + 1] = term
      /\ path = place \o <<term>>
  BY <1>0, <1>2, AppendProperties, AppendIsConcat, LenProperties
<1>4. p # path
  <2>1. ASSUME p = path PROVE FALSE
    <3>1. n + 1 \in 1..Len(p) /\ p[n + 1] = term
      BY <1>3, <2>1
    <3>2. p[n + 1] \in Accepted
      BY <3>1, ElementOfSeq
    <3> QED
      BY <1>0, <3>1, <3>2
  <2> QED
    BY <2>1
<1> DEFINE last == <<term>>
<1>5. last \in Seq(T) /\ Len(last) = 1
  BY <1>0
<1>6. ASSUME NEW q \in Seq(Accepted), place = p \o q PROVE IsPrefix(p, path)
  <2>1. q \in Seq(T)
    BY <1>1
  <2> HIDE DEF last
  <2>2. (p \o q) \o last = p \o (q \o last) /\ q \o last \in Seq(T)
    BY <1>2, <1>5, <2>1, ConcatAssociative, ConcatProperties
  <2>3. path = p \o (q \o last)
    BY <1>3, <1>6, <2>2 DEF last
  <2> HIDE DEF path
  <2> QED
    BY <1>2, <1>3, <2>2, <2>3, PrefixRest
<1>7. ASSUME IsPrefix(p, path) PROVE \E q \in Seq(Accepted) : place = p \o q
  <2> DEFINE k == Len(p)
  <2>1. k \in Nat /\ SubSeq(p, 1, k) = p /\ SubSeq(path, 1, n + 1) = path
    <3>1. SubSeq(path, 1, Len(path)) = path
      BY <1>3, SubSeqFull
    <3> QED
      BY <1>3, <3>1, LenProperties, SubSeqFull
  <2>2. k <= n + 1 /\ SubSeq(path, 1, k) = p
    BY <1>3, <1>7, <2>1 DEF IsPrefix
  <2>3. k # n + 1
    BY <1>4, <2>1, <2>2
  <2>4. k <= n
    BY <1>3, <2>1, <2>2, <2>3, NotMore, Zenon
  <2>5. \A j \in 1..k : path[j] = place[j]
    <3>1. \A j \in 1..n : path[j] = place[j]
      BY <1>0, <1>2, AppendProperties
    <3> QED
      BY <1>3, <2>1, <2>4, <3>1
  <2>6. SubSeq(place, 1, k) = p
    <3> HIDE DEF path
    <3>1. SubSeq(path, 1, k) = SubSeq(place, 1, k)
      BY <1>2, <1>3, <2>1, <2>2, <2>4, <2>5, SamePrefix
    <3> QED
      BY <2>2, <3>1
  <2>7. IsPrefix(p, place)
    BY <2>1, <2>4, <2>6 DEF IsPrefix
  <2> QED
    BY <2>7, PrefixRest
<1> QED
  BY <1>4, <1>6, <1>7 DEF IsStrictPrefix, Continues

\* One key and one place
LEMMA ScanOfPlace ==
  ASSUME NoEmptyIndex, NEW p \in Seq(Accepted), \A j \in 1..Len(p) : p[j] \in Segment,
         NEW key \in Key, WellMade(key)
  PROVE  IsPrefix(Append(Encoded(p), DELIMITER), key.buf) <=> IsStrictPrefix(p, key.path)
<1>1. PICK place, term, ending : Made(key, place, term, ending)
  BY DEF WellMade
<1>2. /\ place \in Seq(Accepted) /\ ending \in Delimiting /\ term[1] \in {"lww", "chunked", "counter"}
      /\ key.path = Append(place, term) /\ key.buf = Encoded(place) \o ending
  BY <1>1 DEF Made, Ending
<1> DEFINE b == Encoded(p)
           c == key.buf
<1>3. b \in ByteString /\ c \in ByteString /\ p \in Seq(Piece)
  BY AcceptedBytes, AcceptedPiece DEF Key
<1>4. IsPrefix(Append(b, DELIMITER), c) <=> \E next \in Delimiting : c = b \o next
  BY <1>3, DelimitedPrefix
<1>5. /\ p # key.path
      /\ IsStrictPrefix(p, key.path) <=> \E q \in Seq(Accepted) : place = p \o q
  <2>1. Continues(p, place, term)
    BY <1>2, BelowPlace
  <2> QED
    BY <1>2, <2>1, Zenon DEF Continues
<1>6. ASSUME NEW next \in Delimiting, c = b \o next PROVE IsStrictPrefix(p, key.path)
  <2> DEFINE T == Accepted \cup Parsed
             r == Read[next]
  <2>1. p \in Seq(Plain)
    BY PlainPath
  <2>2. Read[b \o next] = p \o r
    BY <2>1, ReadEncoded
  <2>3. Read[c] = key.path
    BY KeyReadBack
  <2>4. key.path = p \o r
    BY <1>6, <2>2, <2>3, Zenon
  <2>5. r \in Seq(Parsed)
    <3>1. next \in ByteString
      BY DEF Delimiting
    <3> QED
      BY <3>1, ReadType
  <2> HIDE DEF r
  <2>6. p \in Seq(T) /\ r \in Seq(T)
    <3>1. \A j \in 1..Len(p) : p[j] \in T
      BY ElementOfSeq
    <3>2. \A j \in 1..Len(r) : r[j] \in T
      BY <2>5, ElementOfSeq
    <3> HIDE DEF T
    <3> QED
      BY <2>5, <3>1, <3>2, Retyped
  <2> HIDE DEF T
  <2>7. key.path \in Seq(T)
    BY <2>4, <2>6, ConcatProperties
  <2>8. IsPrefix(p, key.path)
    BY <2>4, <2>6, <2>7, PrefixRest
  <2> QED
    BY <1>5, <2>8 DEF IsStrictPrefix
<1>7. ASSUME NEW q \in Seq(Accepted), place = p \o q PROVE \E next \in Delimiting : c = b \o next
  <2> DEFINE Q == Encoded(q)
  <2>1. q \in Seq(Piece)
    BY AcceptedPiece
  <2>2. Encoded(p \o q) = b \o Q /\ Q \in ByteString
    BY <1>3, <2>1, EncodedConcat
  <2>3. Q \o ending \in Delimiting
    BY <1>2, <2>1, EncodedDelimiting
  <2>4. ending \in ByteString
    BY <1>2 DEF Delimiting
  <2> HIDE DEF Q, b
  <2>5. Joining(b, Q, ending)
    BY <1>3, <2>2, <2>4, Joins, Zenon
  <2>6. Encoded(place) = b \o Q
    BY <1>7, <2>2, Zenon
  <2>7. c = b \o (Q \o ending)
    BY <1>2, <2>5, <2>6, Zenon DEF Joining
  <2> QED
    BY <2>3, <2>7, Zenon
<1> QED
  BY <1>4, <1>5, <1>6, <1>7, Zenon

\* ReadOnlyTransaction::scan (transaction.rs) with the bytes of a path and the
\* delimiter: as long as no index is empty, it finds exactly the keys below that
\* path.  No other key begins with these bytes, not even one with an index whose
\* own bytes contain the delimiter
THEOREM MutationPrefixScansFindDescendants ==
  ASSUME NoEmptyIndex
  PROVE  Spec => []PrefixScansFindDescendants
<1>1. Inv /\ Coded => PrefixScansFindDescendants
  <2> SUFFICES ASSUME Inv, Coded, client # "none", NEW key \in Keys
               PROVE  IsPrefix(Append(w.buf, DELIMITER), key.buf) <=> IsStrictPrefix(Place, key.path)
    BY DEF PrefixScansFindDescendants
  <2>1. Place \in Seq(Accepted) /\ w.buf = Encoded(Place)
    BY PlaceCoded DEF Coded
  <2>2. \A j \in 1..Len(Place) : Place[j] \in Segment
    <3>1. Place \in Seq(Segment)
      BY PlaceFacts
    <3> QED
      BY <3>1, ElementOfSeq
  <2>3. key \in Key /\ WellMade(key)
    BY KeysAre
  <2>4. IsPrefix(Append(Encoded(Place), DELIMITER), key.buf) <=> IsStrictPrefix(Place, key.path)
    BY <2>1, <2>2, <2>3, ScanOfPlace
  <2> QED
    BY <2>1, <2>4, Zenon
<1> QED
  BY <1>1, CodedAlways, PTL

=============================================================================
