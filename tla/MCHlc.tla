------------------------------- MODULE MCHlc -------------------------------
(* Instances of Hlc for TLC. *)
EXTENDS Hlc, TLC

Symmetric == Permutations(Thread)

\* Two readings in different windows, and one before both
SmallClock == {1, 5, 9}
\* Behind, between and ahead of the clock
SmallRemote == {2, 6, 12}

==============================================================================
