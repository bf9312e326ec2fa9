-------------------------- MODULE MC_ReliableLink ---------------------------
(* Three messages, two of them fragmented, and room for one entry in every *)
(* cache of the receiver, so that groups are evicted and aborted.          *)
EXTENDS ReliableLink

CONSTANTS m1, m2, m3

MCMessage   == {m1, m2, m3}
MCFragments == [m \in MCMessage |-> IF m = m3 THEN 1 ELSE 2]
=============================================================================
