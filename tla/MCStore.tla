------------------------------ MODULE MCStore ------------------------------
(* Instances of Store for TLC. *)
EXTENDS StoreProperties

\* Every entry has the same length
UnitLen == [e \in Key \X Value |-> 1]

Symmetric == Permutations(Writer) \cup Permutations(Key) \cup Permutations(Value)

=============================================================================
