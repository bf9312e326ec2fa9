---------------------------- MODULE ReliableLink ----------------------------
(***************************************************************************)
(* The sender and the receiver of the V8 layer joined by a Bluetooth link  *)
(* that may lose any DATA or ACK frame.  The code never generates a NACK   *)
(* (buildNackPayload and canNack have no caller), so no NACK is received   *)
(* here; ReliableSender checks the NACK handler.                           *)
(*                                                                         *)
(* The receiver handles a frame in the step in which it leaves the radio:  *)
(* its handler only touches receiver state and emits an ACK, and the ACK   *)
(* is delayed arbitrarily in acksInAir.                                    *)
(***************************************************************************)
EXTENDS ReliableSender, ReliableReceiver

VARIABLE log \* history: messages in the order given to send()

linkVars == <<vars, receiverVars, log>>

LinkInit == Init /\ ReceiverInit /\ log = <<>>

Frame(w) == [msg |-> w.msg, part |-> w.part]

LinkSend(m) ==
  /\ Send(m)
  /\ log' = Append(log, m)
  /\ UNCHANGED receiverVars

FrameArrives ==
  /\ HeadTransmitted
  /\ Receive(Frame(Head(writes)))
  /\ UNCHANGED log

FrameIsLost ==
  /\ HeadTransmitted
  /\ UNCHANGED <<receiverVars, log>>

AckArrives ==
  /\ acksInAir # <<>>
  /\ HandleAck(Head(acksInAir))
  /\ acksInAir' = Tail(acksInAir)
  /\ UNCHANGED <<reassembly, delivered, completed, spoken, log>>

(* The ACK is lost, or arrives after the manager was dropped.              *)
AckIsLost ==
  /\ acksInAir # <<>>
  /\ acksInAir' = Tail(acksInAir)
  /\ UNCHANGED <<vars, reassembly, delivered, completed, spoken, log>>

SenderAlone ==
  /\ HandleTimeout \/ Cancel \/ WriteSettled
  /\ UNCHANGED <<receiverVars, log>>

LinkNext ==
  \/ \E m \in Message : LinkSend(m)
  \/ FrameArrives
  \/ FrameIsLost
  \/ AckArrives
  \/ AckIsLost
  \/ SenderAlone
  \/ ExpireGroups /\ UNCHANGED <<vars, log>>

LinkSpec == LinkInit /\ [][LinkNext]_linkVars

-----------------------------------------------------------------------------
(* Properties.                                                             *)

Delivery == INSTANCE OrderedDelivery
              WITH log <- log, spoken <- spoken, confirmed <- acked

(* The link implements OrderedDelivery: through losses, retransmissions of *)
(* whole groups, stale loops, cache evictions and expired groups, no       *)
(* message is spoken twice or out of order, and none is counted as         *)
(* acknowledged that the peer did not speak (master_plan.md:116, "Never    *)
(* claim delivery without ACK").                                           *)
ImplementsOrderedDelivery == Delivery!Spec

(* The refinement needs this bound: the timer may already be armed while   *)
(* the initial loop of the active message still sends, by the last frame   *)
(* of the message before it, so a longer message can use up its retries,   *)
(* be given up and be overtaken by the next one before its own first pass  *)
(* is through.                                                             *)
ShortMessages == \A m \in Message : Fragments[m] <= MAX_RETRIES + 1

(* The completed-group cache is consulted before the reassembler, so the   *)
(* late fragments of a group it remembers never start a second reassembly  *)
(* of that group (comment at useBLEVoiceMode.ts:1488-1489).                *)
NoReassemblyOfCompletedGroup ==
  \A i \in DOMAIN reassembly : reassembly[i].msg \notin ToSet(completed)
=============================================================================
