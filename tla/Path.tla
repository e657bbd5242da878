-------------------------------- MODULE Path --------------------------------
(***************************************************************************)
(* Keys of the database: the paths of src/path, written by PathWriter one  *)
(* segment at a time and read back by PathReader.                          *)
(*                                                                         *)
(* A writer is [buf, written]: the bytes and how many the length limit has *)
(* counted.  A segment is <<kind, data>>.  Module Mutation calls them.     *)
(***************************************************************************)
EXTENDS LSeqCodec, FiniteSets

CONSTANT MaxLength     \* i16::MAX

ASSUME MaxLengthAssumption == MaxLength \in Nat

DELIMITER == 0
TERMINATOR_COUNTER == 29
TERMINATOR_LWW == 30
TERMINATOR_CHUNKED == 31

-----------------------------------------------------------------------------
(* PathWriter.  An operation returns the writer and an error, "" for Ok; one
   that fails leaves the writer alone. *)

new == [buf |-> <<>>, written |-> 0]

\* Field::is_valid
IsField(bytes) == \A i \in DOMAIN bytes : bytes[i] >= 32

\* A check of each segment by itself
MutantForgetsWritten(w, additional) == additional <= MaxLength

\* A check that counts what was written twice
MutantCountsTwice(w, additional) == 2 * w.written + additional <= MaxLength

ensure_capacity(w, additional) == w.written + additional <= MaxLength

\* The writer w after len more bytes
Written(w, bytes, len) ==
  [w |-> [buf |-> w.buf \o bytes, written |-> w.written + len], error |-> ""]

Refused(w, error) == [w |-> w, error |-> error]

\* PathWriter::push_field
push_field(w, field) ==
  IF ~IsField(field) THEN Refused(w, "InvalidField")
  ELSE IF ~ensure_capacity(w, 1 + Len(field)) THEN Refused(w, "TooLong")
  ELSE Written(w, <<DELIMITER>> \o field, 1 + Len(field))

\* PathWriter::push_index: the delimiter is written but not counted
push_index(w, index) ==
  IF ~ensure_capacity(w, 1 + Len(index)) THEN Refused(w, "TooLong")
  ELSE Written(w, <<DELIMITER>> \o index, Len(index))

\* PathWriter::lww_chunked
lww_chunked(w, end_index) ==
  IF ~ensure_capacity(w, 2 + Len(Significant[end_index])) THEN Refused(w, "TooLong")
  ELSE Written(w, <<DELIMITER, TERMINATOR_CHUNKED>> \o write(end_index), 0)

\* PathWriter::lww
lww(w) == Written(w, <<DELIMITER, TERMINATOR_LWW>>, 0)

\* The bytes of a PID: four, big endian
PidBytes(pid) ==
  LET digits == Significant[pid] IN [i \in 1..(4 - Len(digits)) |-> 0] \o digits

\* PathWriter::counter
counter(w, pid) == Written(w, <<DELIMITER, TERMINATOR_COUNTER>> \o PidBytes(pid), 0)

-----------------------------------------------------------------------------
(* PathReader *)

\* PathReader::read_field: up to the next delimiter or the end
FieldLength(bytes) ==
  CHOOSE n \in 0..Len(bytes) : /\ \A i \in 1..n : bytes[i] # DELIMITER
                               /\ n < Len(bytes) => bytes[n + 1] = DELIMITER

\* One call of PathReader::next on a buffer of at least two bytes: the segment
\* and how many bytes were read
read(buf) ==
  LET tag == buf[2]
      rest == From(buf, 3)
      index == from_bytes(From(buf, 2))
      end_index == read_from(rest, 8)
      len == FieldLength(From(buf, 2))
      error == [segment |-> <<"error", <<>>>>, n |-> Len(buf)]
  IN  IF buf[1] # DELIMITER THEN error ELSE
      CASE tag = TERMINATOR_CHUNKED ->
             IF end_index.status # "some" THEN error
             ELSE [segment |-> <<"chunked", <<end_index.value>>>>, n |-> 2 + end_index.n]
        [] tag = TERMINATOR_LWW -> [segment |-> <<"lww", <<>>>>, n |-> Len(buf)]
        [] tag = TERMINATOR_COUNTER ->
             IF Len(rest) # 4 THEN error
             ELSE [segment |-> <<"counter", <<Value[rest]>>>>, n |-> Len(buf)]
        [] tag \in 1..16 ->
             IF index.status # "some" THEN error
             ELSE [segment |-> <<"index", index.value>>, n |-> 1 + index.n]
        [] tag \in 17..28 -> error
        [] OTHER -> [segment |-> <<"field", SubSeq(buf, 2, 1 + len)>>, n |-> 1 + len]

\* All segments PathReader returns; an error, a panic included, ends the loop
Read[buf \in ByteString] ==
  IF Len(buf) < 2 THEN <<>>
  ELSE LET r == read(buf) IN <<r.segment>> \o Read[From(buf, 1 + r.n)]

=============================================================================
