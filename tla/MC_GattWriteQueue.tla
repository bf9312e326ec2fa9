------------------------- MODULE MC_GattWriteQueue -------------------------
(* Instances of GattWriteQueue for TLC. *)
EXTENDS GattWriteQueue

CONSTANTS c1, s1, t1, t2
=============================================================================
