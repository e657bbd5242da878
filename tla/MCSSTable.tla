----------------------------- MODULE MCSSTable -----------------------------
(* Instances of SSTable for TLC: bytes 0..2 with 2 as 0xFF, so that lengths
   below 9 fit; up to three or four entries in a block, prefixes reset every two. *)
EXTENDS SSTable

\* Longer than a length can say, even without the byte shared with <<0>>
LongKey == [i \in 1..10 |-> 0]
\* Shares more with it than a length can say
LongerKey == Append(LongKey, 1)
Keys == {<<0>>, LongKey, LongerKey, <<0, 2>>, <<0, 2, 1>>, <<1>>, <<2>>, <<2, 2>>}
\* The last is one byte longer than a length can say
Values == {<<>>, <<1, 2>>, [i \in 1..9 |-> 0]}
ScanPrefixes == {<<>>, <<0>>, <<0, 2>>, <<1>>, <<1, 1>>, <<2>>, <<2, 2>>, <<0, 2, 1, 1>>}

Hash1(key) == FoldLeft(LAMBDA h, b : (5 * h + b + 1) % 9973, 3, key)
Hash2(key) == FoldLeft(LAMBDA h, b : (7 * h + b + 1) % 9973, 11, key)

=============================================================================
