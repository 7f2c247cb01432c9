------------------------------ MODULE MCOutput ------------------------------
(* Amounts around every threshold of the formats.  The fixed formats K, B,  *)
(* k and b would only print more digits of them.                            *)
EXTENDS Output, TLC

CONSTANTS one, two

Symmetry == Permutations(Streams)

Edges == {9994, 9995, 99949, 99950, 999499, 999500, 1023499}
EdgesOfBits == {1249, 1250, 12493, 12494, 124937, 124938}

\* Bytes are whole; nothing here reaches 2 ^ 40 bytes or 10 ^ 12 bits.
MCAmounts ==
    {[milli |-> 1000 * n, exp |-> 0] : n \in {0, 1, 10, 1023}}
    \cup [milli : Edges \cup EdgesOfBits, exp : {1}]
    \cup [milli : {9995, 1023999}, exp : {2}] \cup [milli : {1250, 124937}, exp : {3}]

MCAmountsTera == MCAmounts \cup {[milli |-> 1000, exp |-> 4]}
=============================================================================
