--------------------------- MODULE MC_ConnectionHook ---------------------------
(* Two other phones; b is known to our scanner only after a scan. *)
EXTENDS ConnectionHook, TLC

CONSTANTS a, b, rawA, rawB

MCRawKey == (a :> rawA) @@ (b :> rawB)
===============================================================================
