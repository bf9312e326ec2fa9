---------------------------- MODULE MC_HalfDuplex ----------------------------
(* Two phones, A and B.  A's user may press twice, the second time while   *)
(* the first press is still being dealt with, and B's user once.           *)
EXTENDS HalfDuplex

CONSTANTS A, B

MCPhone == {A, B}
MCPresses == [p \in MCPhone |-> IF p = A THEN 2 ELSE 1]
=============================================================================
