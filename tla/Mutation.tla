------------------------------ MODULE Mutation ------------------------------
(***************************************************************************)
(* Writers of keys: Mutation::for_each (src/mutation.rs), which walks a    *)
(* tree of changes with one PathWriter and hands a key to the callback of  *)
(* ReadWriteTransaction::execute for every leaf, and clients that build    *)
(* one path with a PathWriter of their own.                                *)
(*                                                                         *)
(* The tree is not built first: every walk of a tree is a sequence of the  *)
(* actions Compose, Nested, Apply and Return, and the actions make them    *)
(* all.  Values are left out: that of a deletion is empty.                 *)
(***************************************************************************)
EXTENDS Path

CONSTANTS Field,         \* bytes of fields
          Index,         \* fractional indices: sequences of <<pid, seq>>
          Malformed,     \* bytes given as an index that are none
          Chunk,         \* end_index of lww_chunked
          Pid,           \* peers that own a counter
          MaxKeys,       \* bound: keys that are made
          MaxSegments,   \* bound: segments of a path before its terminator
          MaxFrames      \* bound: calls of for_each_internal inside each other

ASSUME BoundsAssumption == MaxKeys \in Nat /\ MaxSegments \in Nat /\ MaxFrames \in Nat

ASSUME FieldAssumption == Field \subseteq ByteString /\ Malformed \subseteq ByteString
ASSUME IndexAssumption ==
  \A index \in Index : /\ index \in Seq(Nat \X Nat)
                       /\ \A i \in DOMAIN index :
                            index[i][1] # 0 /\ Fits(index[i][1], 4) /\ Fits(index[i][2], 4)
ASSUME TerminatorAssumption ==
  (\A end_index \in Chunk : Fits(end_index, 8)) /\ (\A pid \in Pid : Fits(pid, 4))

VARIABLES
  client,   \* who uses the writer: "none", "mutation" or "path"
  w,        \* the PathWriter
  frames,   \* the calls that are running: where each truncates the buffer to,
            \* and (history) the path of segments it stands for
  keys,     \* the keys made: their bytes, and (history) the path meant
  error,    \* how the latest client ended, "" for Ok
  visited   \* history: bytes of all segments the client has tried to write

vars == <<client, w, frames, keys, error, visited>>

\* Segments of mutations and of paths
Segment ==
  {<<"field", f>> : f \in Field} \cup {<<"index", Bytes(i)>> : i \in Index}
    \cup {<<"index", m>> : m \in Malformed}

Place == IF frames = <<>> THEN <<>> ELSE Last(frames).path

\* mutation.rs, Segment::write; a panic writes nothing, like an error
Write(writer, segment) ==
  IF segment[1] = "field" THEN push_field(writer, segment[2])
  ELSE IF ~is_valid[segment[2]]
       THEN Refused(writer, IF panics[segment[2]] THEN "Panic" ELSE "InvalidIndex")
  ELSE push_index(writer, segment[2])

Init ==
  /\ client = "none" /\ w = new /\ frames = <<>> /\ keys = <<>>
  /\ error = "" /\ visited = 0

\* A client ends, dropping its writer
End(how) ==
  /\ client' = "none" /\ w' = new /\ frames' = <<>> /\ error' = how /\ visited' = 0

Visit(segment) == visited' = visited + 1 + Len(segment[2])

\* The truncation by the loop of the innermost running call
MutantKeepsBuffer(writer, running) == writer

\* A truncation one call too far out
MutantOuterFrame(writer, running) ==
  IF Len(running) < 2 THEN [writer EXCEPT !.buf = <<>>]
  ELSE [writer EXCEPT !.buf = SubSeq(writer.buf, 1, running[Len(running) - 1].trunc)]

\* w.inner_mut().truncate(trunc): the bytes go, what was counted stays
Truncated(writer, running) ==
  [writer EXCEPT !.buf = SubSeq(writer.buf, 1, Last(running).trunc)]

-----------------------------------------------------------------------------
(* Mutation *)

\* Mutation::for_each
for_each ==
  /\ client = "none" /\ Len(keys) < MaxKeys
  /\ client' = "mutation" /\ w' = new /\ error' = "" /\ visited' = 0
  /\ UNCHANGED <<frames, keys>>

Running == client = "mutation" /\ Len(keys) < MaxKeys

\* for_each_internal of a Compose: its loop begins
Compose ==
  /\ Running /\ Len(frames) < MaxFrames
  /\ frames' = Append(frames, [trunc |-> Len(w.buf), path |-> Place])
  /\ UNCHANGED <<client, w, keys, error, visited>>

\* for_each_internal of a Nested: its segment is written, its loop begins
Nested(segment) ==
  LET r == Write(w, segment)
  IN  /\ Running /\ Len(frames) < MaxFrames /\ Len(Place) < MaxSegments
      /\ r.error = ""
      /\ w' = r.w
      /\ frames' = Append(frames, [trunc |-> Len(r.w.buf), path |-> Append(Place, segment)])
      /\ Visit(segment)
      /\ UNCHANGED <<client, keys, error>>

\* for_each_internal of an Apply: the key goes to the callback, the loop that
\* called truncates the buffer; without a loop the mutation is done
Apply(segment) ==
  LET r == Write(w, segment)
      key == [path |-> Place \o <<segment, <<"lww", <<>>>>>>, buf |-> lww(r.w).w.buf]
  IN  /\ Running /\ Len(Place) < MaxSegments
      /\ r.error = ""
      /\ keys' = Append(keys, key)
      /\ IF frames = <<>> THEN End("")
         ELSE /\ w' = Truncated(r.w, frames)
              /\ Visit(segment)
              /\ UNCHANGED <<client, frames, error>>

\* The loop of a Compose or a Nested ends; the one around it truncates
Return ==
  /\ client = "mutation" /\ frames # <<>>
  /\ IF Len(frames) = 1 THEN End("")
     ELSE /\ frames' = Front(frames)
          /\ w' = Truncated(w, Front(frames))
          /\ UNCHANGED <<client, error, visited>>
  /\ UNCHANGED keys

\* A segment is refused, or the callback or the serialisation of the value
\* fails: the error ends the mutation and the keys before it stay inserted.  A
\* panic unwinds the client, that of a path too
Fails(segment) ==
  LET r == Write(w, segment)
  IN  /\ Running \/ (client = "path" /\ r.error = "Panic")
      /\ Len(Place) < MaxSegments
      /\ client' = "none" /\ w' = new /\ frames' = <<>>
      /\ error' = IF r.error = "" THEN "Callback" ELSE r.error
      /\ Visit(segment)
      /\ UNCHANGED keys

-----------------------------------------------------------------------------
(* A path of its own *)

Begin ==
  /\ client = "none" /\ Len(keys) < MaxKeys
  /\ client' = "path" /\ w' = new /\ error' = ""
  /\ frames' = <<[trunc |-> 0, path |-> <<>>]>> /\ visited' = 0
  /\ UNCHANGED keys

\* push_field or push_index; an error leaves the writer usable (a panic: Fails)
Push(segment) ==
  LET r == Write(w, segment)
  IN  /\ client = "path" /\ Len(Place) < MaxSegments
      /\ r.error = ""
      /\ w' = r.w
      /\ frames' = <<[trunc |-> 0, path |-> Append(Place, segment)]>>
      /\ UNCHANGED <<client, keys, error, visited>>

\* A terminator consumes the writer
Finish(result, terminator) ==
  /\ client = "path"
  /\ result.error = ""
  /\ keys' = Append(keys, [path |-> Append(Place, terminator), buf |-> result.w.buf])
  /\ End("")

Next ==
  \/ for_each \/ Compose \/ Return \/ Begin
  \/ \E segment \in Segment :
       Nested(segment) \/ Apply(segment) \/ Fails(segment) \/ Push(segment)
  \/ Finish(lww(w), <<"lww", <<>>>>)
  \/ \E end_index \in Chunk : Finish(lww_chunked(w, end_index), <<"chunked", <<end_index>>>>)
  \/ \E pid \in Pid : Finish(counter(w, pid), <<"counter", <<pid>>>>)

Spec == Init /\ [][Next]_vars

-----------------------------------------------------------------------------
TypeOK ==
  /\ client \in {"none", "mutation", "path"}
  /\ w \in [buf : ByteString, written : Nat]
  /\ \A i \in DOMAIN frames : frames[i].trunc \in 0..Len(w.buf)
  /\ \A i \in DOMAIN keys : keys[i].buf \in ByteString
  /\ error \in {"", "InvalidField", "InvalidIndex", "Panic", "TooLong", "Callback"}
  /\ visited \in Nat

Keys == {keys[i] : i \in DOMAIN keys}

\* path/mod.rs, roundtrip_path: every key is read back as the segments on the
\* way from the root of the mutation to its leaf, however many loops have
\* truncated the buffer before, and although the bytes of an index may contain
\* the delimiter, which only from_bytes can tell from the one between segments; so no two
\* places of the document tree share a key
RoundTrips == \A key \in Keys : Read[key.buf] = key.path

\* A scan with the prefix <path><DELIMITER> (transaction.rs, scan) returns
\* exactly the keys below that path, for every path a writer has reached
PrefixScansFindDescendants ==
  client # "none" =>
    \A key \in Keys :
      IsPrefix(Append(w.buf, DELIMITER), key.buf) <=> IsStrictPrefix(Place, key.path)

\* Order of fractional indices, segment by segment (pid, then seq)
IndexLess(a, b) ==
  \E i \in 1..Len(b) :
    /\ i <= Len(a) + 1
    /\ \A j \in 1..(i - 1) : a[j] = b[j]
    /\ i <= Len(a) => \/ a[i][1] < b[i][1]
                      \/ a[i][1] = b[i][1] /\ a[i][2] < b[i][2]

\* lseq.md: lexical order of the byte strings is the order of the sequence.
\* Keys that differ first in an index sort like the indices, whatever follows
\* them in the key
KeysSortLikeIndices ==
  \A k1, k2 \in Keys : \A i \in DOMAIN k1.path, a, b \in Index :
    /\ i \in DOMAIN k2.path
    /\ SubSeq(k1.path, 1, i - 1) = SubSeq(k2.path, 1, i - 1)
    /\ k1.path[i] = <<"index", Bytes(a)>>
    /\ k2.path[i] = <<"index", Bytes(b)>>
    /\ IndexLess(a, b)
    => Lower(k1.buf, k2.buf)

\* The limit is exceeded by at most the delimiters of the indices, which are
\* not counted, and the six bytes of the longest unchecked terminator
OvershootIsBounded ==
  \A key \in Keys :
    Len(key.buf) <= MaxLength + 6
      + Cardinality({i \in DOMAIN key.path : key.path[i][1] = "index"})

\* PathError::TooLong: a mutation is refused for its length only if all its
\* segments together, those of keys already made included, exceed the limit
\* (for_each truncates the buffer and never lowers PathWriter::written)
TooLongIsCumulative == error = "TooLong" => visited > MaxLength

=============================================================================
