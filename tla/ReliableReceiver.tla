-------------------------- MODULE ReliableReceiver --------------------------
(***************************************************************************)
(* The receiver half of the V8 layer for the frames of ONE peer: the V6B   *)
(* DATA branch of the hook's onDataReceived handler with the Reassembler,  *)
(* the CompletedGroupCache and the DeliveredMessageCache it consults.      *)
(*                                                                         *)
(* Every handler runs to completion, so Receive(f) is one step.  A groupId *)
(* is identified with the message it belongs to.                           *)
(***************************************************************************)
EXTENDS ReliabilityTypes, Sequences, FiniteSets, SequencesExt

CONSTANTS
  MAX_CONCURRENT_GROUPS, \* reassembly groups kept at once
  DELIVERED_CACHE_MAX,   \* entries of the delivered-message cache
  COMPLETED_CACHE_MAX    \* entries of the completed-group cache

ASSUME ReceiverLimits ==
  {MAX_CONCURRENT_GROUPS, DELIVERED_CACHE_MAX, COMPLETED_CACHE_MAX}
     \subseteq Nat \ {0}

VARIABLES
  reassembly, \* incomplete groups, oldest first: [msg, parts]
  delivered,  \* DeliveredMessageCache entries, oldest first
  completed,  \* CompletedGroupCache entries, oldest first
  spoken,     \* messages handed to TTS, in order
  acksInAir   \* ACK frames sent to the peer and not yet handled there

receiverVars == <<reassembly, delivered, completed, spoken, acksInAir>>

ReceiverInit ==
  /\ reassembly = <<>>
  /\ delivered = <<>>
  /\ completed = <<>>
  /\ spoken = <<>>
  /\ acksInAir = <<>>

-----------------------------------------------------------------------------

SendAck(m) == acksInAir' = Append(acksInAir, m)

(* Both caches drop their oldest entry when full.                          *)
Store(cache, max, m) ==
  Append(IF Len(cache) >= max THEN Tail(cache) ELSE cache, m)

(* Mutant: the delivered-message cache is not consulted.                   *)
MutDeliver(m) ==
  /\ SendAck(m)
  /\ delivered' = Store(delivered, DELIVERED_CACHE_MAX, m)
  /\ spoken' = Append(spoken, m)

(* A decoded message: speak it and remember it, unless it was delivered    *)
(* before; acknowledge it either way.                                      *)
Deliver(m) ==
  /\ SendAck(m)
  /\ IF m \in ToSet(delivered)
     THEN UNCHANGED <<delivered, spoken>>
     ELSE /\ delivered' = Store(delivered, DELIVERED_CACHE_MAX, m)
          /\ spoken' = Append(spoken, m)

HasGroup(gs, m) == \E i \in DOMAIN gs : gs[i].msg = m

(* The entry of m in the Map of groups, which holds one per message.       *)
GroupIndex(gs, m) == CHOOSE i \in DOMAIN gs : gs[i].msg = m

(* Mutant: a completed group stays in the reassembler.                     *)
MutWithout(gs, m) == gs

Without(gs, m) == RemoveAt(gs, GroupIndex(gs, m))

(* The groups after abortOldestGroup has made room for a new one.          *)
WithRoom(gs) == IF Len(gs) >= MAX_CONCURRENT_GROUPS THEN Tail(gs) ELSE gs

(* Reassembler.addFragment: the group of f.msg with the fragment stored,   *)
(* created if there was none.                                              *)
AddFragment(f) ==
  IF HasGroup(reassembly, f.msg)
  THEN [reassembly EXCEPT ![GroupIndex(reassembly, f.msg)].parts = @ \cup {f.part}]
  ELSE Append(WithRoom(reassembly), [msg |-> f.msg, parts |-> {f.part}])

Complete(gs, m) == Cardinality(gs[GroupIndex(gs, m)].parts) = Fragments[m]

ReceiveSingle(f) ==
  /\ Fragments[f.msg] = 1
  /\ Deliver(f.msg)
  /\ UNCHANGED <<reassembly, completed>>

ReceiveOfCompletedGroup(f) ==
  /\ Fragments[f.msg] > 1
  /\ f.msg \in ToSet(completed)
  /\ SendAck(f.msg)
  /\ UNCHANGED <<reassembly, delivered, completed, spoken>>

ReceiveFragment(f) ==
  /\ Fragments[f.msg] > 1
  /\ f.msg \notin ToSet(completed)
  /\ LET gs == AddFragment(f) IN
     IF ~Complete(gs, f.msg)
     THEN /\ reassembly' = gs
          /\ UNCHANGED <<delivered, completed, spoken, acksInAir>>
     ELSE /\ reassembly' = Without(gs, f.msg)
          /\ Deliver(f.msg)
          /\ completed' =
               IF f.msg \in ToSet(delivered) THEN completed
               ELSE Store(completed, COMPLETED_CACHE_MAX, f.msg)

Receive(f) ==
  ReceiveSingle(f) \/ ReceiveOfCompletedGroup(f) \/ ReceiveFragment(f)

(* Reassembler.cleanup, run every 10 s while voice mode is on, removes     *)
(* groups created more than GROUP_EXPIRY_MS ago: the oldest ones.          *)
ExpireGroups ==
  /\ \E n \in 1..Len(reassembly) :
       reassembly' = SubSeq(reassembly, n + 1, Len(reassembly))
  /\ UNCHANGED <<delivered, completed, spoken, acksInAir>>
=============================================================================
