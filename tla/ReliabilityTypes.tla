-------------------------- MODULE ReliabilityTypes --------------------------
(* The messages of one reliable link, shared by its two ends.              *)
EXTENDS Naturals

CONSTANTS
  Message,      \* the logical messages (their canonical messageId)
  NoMessage,    \* null
  Fragments     \* Fragments[m]: DATA frames of m; 1 means no V7 fragmentation

ASSUME MessageAssumption   == NoMessage \notin Message
ASSUME FragmentsAssumption == Fragments \in [Message -> Nat \ {0}]
=============================================================================
