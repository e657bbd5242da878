----------------------------- MODULE MCMutation -----------------------------
(* Instances of Mutation for TLC. *)
EXTENDS Mutation

\* "", "a" and a field that Field::new refuses
Fields == {<<>>, <<97>>, <<97, 0, 98>>}

\* A seq of one byte, one of two bytes that ends like a delimiter, an index that
\* begins with the first, and one of another pid
Indices == {<<<<1, 255>>>>, <<<<1, 256>>>>, <<<<1, 255>>, <<2, 0>>>>, <<<<2, 1>>>>}

\* A pid without its seq, and one shorter than its own length
Truncations == {<<1, 1>>, <<2, 1>>}

=============================================================================
