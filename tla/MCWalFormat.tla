---------------------------- MODULE MCWalFormat ----------------------------
(* Instances of WalFormat for TLC, with lengths of 0..3 and 2 as commit bit. *)
EXTENDS WalFormat

\* "", one that fits, and two that do not: the length of the first is read as
\* that of a commit record without a key, that of the second as 1
Keys == {<<>>, <<1>>, <<1, 3>>, <<1, 1, 1, 1, 1>>}
\* The last does not fit
Values == {<<>>, <<2>>, <<3, 3, 3, 3, 3>>}

Entries == {<<<<1>>, <<2>>>>, <<<<1>>, <<>>>>, <<<<>>, <<2>>>>, <<<<1, 3>>, <<>>>>,
            <<<<1, 1, 1, 1, 1>>, <<2>>>>, <<<<1>>, <<3, 3, 3, 3, 3>>>>}

UnitLen == [e \in Key \X Value |-> 1]

=============================================================================
