---------------------------- MODULE MC_Framing ----------------------------
(* Small sizes keep the boundary cases: 9 bytes of payload leave 7 for a   *)
(* V7 chunk on the direct path, 6 in the mesh and 5 in chat.               *)
EXTENDS Framing

Run(class, n) == [i \in 1 .. n |-> class]

MCShapes == {
    <<" ">>,                                          \* nothing to say
    <<" ", "a", "High", "Low", "Low", " ">>,          \* V6A of 9 bytes
    Run("e", 4) \o <<"High", "Low">> \o Run("a", 2),  \* of 15 bytes
    Run("a", 21) }                                    \* of 22: too long
=============================================================================
