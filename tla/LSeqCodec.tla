----------------------------- MODULE LSeqCodec -----------------------------
(***************************************************************************)
(* Bytes of fractional indices: the length-prefixed variable integers of   *)
(* src/varint.rs, the segments made of two of them and the parsers of      *)
(* src/path/lseq.rs.  A byte is 0..255, a byte string a sequence of them.  *)
(* The result of a parser is Some(value, bytes read), Nothing for Rust's   *)
(* None, or Panic where the code would index past the end of its input.    *)
(***************************************************************************)
EXTENDS Naturals, SequencesExt

Some(value, n) == [status |-> "some", value |-> value, n |-> n]
Nothing == [status |-> "none", value |-> 0, n |-> 0]
Panic == [status |-> "panic", value |-> 0, n |-> 0]

ByteString == Seq(0..255)

\* All bytes of s from position i on
From(s, i) == SubSeq(s, i, Len(s))

\* Lexical order of byte strings
Lower(s, t) ==
  \E i \in 1..Len(t) : /\ i <= Len(s) + 1
                       /\ \A j \in 1..(i - 1) : s[j] = t[j]
                       /\ i <= Len(s) => s[i] < t[i]

-----------------------------------------------------------------------------
(* VarInt *)

\* to_be_bytes without its leading zero bytes
Significant[n \in Nat] ==
  IF n = 0 THEN <<>> ELSE Append(Significant[n \div 256], n % 256)

\* VarInt::write: the number of significant bytes, then those bytes
write(n) == <<Len(Significant[n])>> \o Significant[n]

\* A number of a type of the given number of bytes
Fits(n, size) == n \in Nat /\ Len(Significant[n]) <= size

\* from_be_bytes
Value[bytes \in ByteString] ==
  IF bytes = <<>> THEN 0 ELSE 256 * Value[Front(bytes)] + Last(bytes)

\* VarInt::read_from for a type of the given number of bytes
read_from(bytes, size) ==
  IF bytes = <<>> THEN Nothing
  ELSE LET byte_count == bytes[1]
       IN  IF byte_count > size THEN Nothing
           ELSE IF Len(bytes) < 1 + byte_count THEN Panic
           ELSE Some(Value[SubSeq(bytes, 2, 1 + byte_count)], byte_count + 1)

-----------------------------------------------------------------------------
(* Segments, pairs <<pid, seq>> of two u32 *)

\* seq before pid
MutantSeqFirst(segments) ==
  FlattenSeq([i \in DOMAIN segments |-> write(segments[i][2]) \o write(segments[i][1])])

\* Segment::write, one segment after the other
Bytes(segments) ==
  FlattenSeq([i \in DOMAIN segments |-> write(segments[i][1]) \o write(segments[i][2])])

\* Segment::parse; PID::new refuses zero
parse(bytes) ==
  LET pid == read_from(bytes, 4)
      seq == read_from(From(bytes, 1 + pid.n), 4)
  IN  IF pid.status # "some" THEN pid
      ELSE IF pid.value = 0 THEN Nothing
      ELSE IF seq.status # "some" THEN seq
      ELSE Some(<<pid.value, seq.value>>, pid.n + seq.n)

\* FractionalIndex::is_valid: the Segments iterator consumes everything; it
\* holds of no bytes that make it panic
is_valid[bytes \in ByteString] ==
  LET segment == parse(bytes)
  IN  IF segment.status = "some" THEN is_valid[From(bytes, 1 + segment.n)]
      ELSE bytes = <<>>

\* The Segments iterator panics on its way: a number is shorter than it says
panics[bytes \in ByteString] ==
  LET segment == parse(bytes)
  IN  IF segment.status = "some" THEN panics[From(bytes, 1 + segment.n)]
      ELSE segment.status = "panic"

\* The loop of FractionalIndex::from_bytes and how many bytes it reads: it
\* stops at the end and at what is not a pid, such as the delimiter, but a pid
\* must be followed by a number
Consumed[bytes \in ByteString] ==
  LET pid == read_from(bytes, 4)
      seq == read_from(From(bytes, 1 + pid.n), 4)
      tail == Consumed[From(bytes, 1 + pid.n + seq.n)]
  IN  IF pid.status = "none" \/ (pid.status = "some" /\ pid.value = 0) THEN Some(0, 0)
      ELSE IF pid.status = "panic" THEN Panic
      ELSE IF seq.status # "some" THEN seq
      ELSE IF tail.status # "some" THEN tail
      ELSE Some(0, pid.n + seq.n + tail.n)

\* An index that ends at the first delimiter, like a field
MutantStopsAtZero(bytes) ==
  LET i == CHOOSE i \in 0..Len(bytes) : /\ \A j \in 1..i : bytes[j] # 0
                                        /\ i < Len(bytes) => bytes[i + 1] = 0
  IN  IF i = 0 THEN Nothing ELSE Some(SubSeq(bytes, 1, i), i)

from_bytes(bytes) ==
  LET i == Consumed[bytes].n
  IN  IF Consumed[bytes].status # "some" THEN Consumed[bytes]
      ELSE IF i = 0 THEN Nothing
      ELSE Some(SubSeq(bytes, 1, i), i)

=============================================================================
