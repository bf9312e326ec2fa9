------------------------- MODULE MC_ReliableSender --------------------------
(* Three messages: the first is fragmented in two, the others fit a frame. *)
EXTENDS ReliableSender

CONSTANTS m1, m2, m3

MCMessage   == {m1, m2, m3}
MCFragments == [m \in MCMessage |-> IF m = m1 THEN 2 ELSE 1]
=============================================================================
