--------------------------- MODULE ReliableSender ---------------------------
(***************************************************************************)
(* The sender half of the V8 reliability layer for ONE Bluetooth peer:     *)
(* ReliabilityManager together with the two pieces of useBLEVoiceMode that *)
(* drive it, sendInitialData and the onPromote callback.                   *)
(*                                                                         *)
(* The JavaScript thread runs one handler at a time; what interleaves are  *)
(* the continuations of its async loops.  A loop that is sending the       *)
(* frames of a message always has exactly one native write outstanding, so *)
(* the suspended loops ARE the entries of `writes`, the FIFO of frames     *)
(* handed to NativeBLE.send for this peer.  An entry with gen = Initial    *)
(* belongs to a sendInitialData loop, any other gen to the retransmission  *)
(* loop that was started with that generation.                             *)
(***************************************************************************)
EXTENDS ReliabilityTypes, Sequences, FiniteSets

CONSTANT MAX_RETRIES \* retransmissions before a message is given up

ASSUME RetriesAssumption   == MAX_RETRIES \in Nat

VARIABLES
  submitted,            \* messages already given to send()
  active,               \* the active PendingMessage, or NoMessage
  queued,               \* the queued PendingMessage, or NoMessage
  acked,                \* messages whose PendingMessage.acked is true
  retryCount,           \* PendingMessage.retryCount
  groups,               \* messages whose groupId is in groupIdToMessageId
  retryTimer,           \* TRUE iff the ACK timeout is armed
  retransmitting,       \* the `retransmitting` flag
  retransmitGeneration, \* the generation counter
  writes,               \* frames handed to the native layer, not yet settled
  onAir,                \* the head of `writes` has left the radio
  failedSends,          \* messages whose initial send threw
  cancelled             \* the peer disconnected and the manager was dropped

vars == <<submitted, active, queued, acked, retryCount, groups, retryTimer,
          retransmitting, retransmitGeneration, writes, onAir, failedSends,
          cancelled>>

Initial == 0

Write == [msg: Message, part: Nat \ {0}, gen: Nat]

(* Types, and the ranges the code relies on: a loop never reads a payload  *)
(* beyond the last fragment, and the active message always has retry       *)
(* budget left, because reaching the limit removes it.                     *)
TypeOK ==
  /\ submitted \subseteq Message
  /\ active \in Message \cup {NoMessage}
  /\ queued \in Message \cup {NoMessage}
  /\ acked \subseteq Message
  /\ retryCount \in [Message -> 0..MAX_RETRIES + 1]
  /\ active # NoMessage => retryCount[active] <= MAX_RETRIES
  /\ groups \subseteq Message
  /\ retryTimer \in BOOLEAN
  /\ retransmitting \in BOOLEAN
  /\ retransmitGeneration \in Nat
  /\ writes \in Seq(Write)
  /\ \A i \in DOMAIN writes : writes[i].part <= Fragments[writes[i].msg]
  /\ onAir \in BOOLEAN
  /\ failedSends \subseteq Message
  /\ cancelled \in BOOLEAN

Init ==
  /\ submitted = {}
  /\ active = NoMessage
  /\ queued = NoMessage
  /\ acked = {}
  /\ retryCount = [m \in Message |-> 0]
  /\ groups = {}
  /\ retryTimer = FALSE
  /\ retransmitting = FALSE
  /\ retransmitGeneration = 0
  /\ writes = <<>>
  /\ onAir = FALSE
  /\ failedSends = {}
  /\ cancelled = FALSE

-----------------------------------------------------------------------------
(* Helpers.  A groupId is 0, and never registered, for a single frame.      *)

FirstFrame(m, g) == [msg |-> m, part |-> 1, gen |-> g]

NextFrame(w) == [w EXCEPT !.part = @ + 1]

IsLastFrame(w) == w.part = Fragments[w.msg]

(* Mutant: promotion forgets to empty the queue slot.                      *)
MutPromoteQueued(ws, rc) ==
  /\ active' = queued
  /\ UNCHANGED queued
  /\ writes' = IF queued = NoMessage THEN ws ELSE Append(ws, FirstFrame(queued, Initial))
  /\ retryCount' = rc

(* promoteQueued: the active slot has just been vacated.  `ws` are the     *)
(* writes the handler leaves behind, `rc` the retry counts.                *)
PromoteQueued(ws, rc) ==
  /\ active' = queued
  /\ queued' = NoMessage
  /\ IF queued = NoMessage
     THEN writes' = ws /\ retryCount' = rc
     ELSE /\ writes' = Append(ws, FirstFrame(queued, Initial))
          /\ retryCount' = [rc EXCEPT ![queued] = 0]

(* retransmit(): a second call while a loop runs returns at once.          *)
Retransmit ==
  IF retransmitting
  THEN UNCHANGED <<retransmitting, retransmitGeneration, writes>>
  ELSE /\ retransmitting' = TRUE
       /\ retransmitGeneration' = retransmitGeneration + 1
       /\ writes' = Append(writes, FirstFrame(active, retransmitGeneration + 1))

(* Mutant: giving up leaves the generation alone, so the loop lives on.    *)
MutGiveUp(rc) ==
  /\ retransmitting' = FALSE
  /\ groups' = groups \ {active}
  /\ PromoteQueued(writes, rc)
  /\ UNCHANGED retransmitGeneration

(* The MAX_RETRIES branch shared by handleNack and handleTimeout.          *)
GiveUp(rc) ==
  /\ retransmitGeneration' = retransmitGeneration + 1
  /\ retransmitting' = FALSE
  /\ groups' = groups \ {active}
  /\ PromoteQueued(writes, rc)

-----------------------------------------------------------------------------
(* Operations of the manager.                                              *)

(* send() followed by registerGroupId() and, when the message became       *)
(* active, the synchronous start of sendInitialData.  When both slots are  *)
(* taken the queued message is replaced.                                   *)
Send(m) ==
  /\ ~cancelled
  /\ m \notin submitted
  /\ submitted' = submitted \cup {m}
  /\ groups' = IF Fragments[m] > 1 THEN groups \cup {m} ELSE groups
  /\ IF active = NoMessage
     THEN /\ active' = m
          /\ writes' = Append(writes, FirstFrame(m, Initial))
          /\ UNCHANGED queued
     ELSE /\ queued' = m
          /\ UNCHANGED <<active, writes>>
  /\ UNCHANGED <<acked, retryCount, retryTimer, retransmitting,
                 retransmitGeneration, onAir, failedSends, cancelled>>

(* handleAck(messageId).  The peer may acknowledge any message, as often as *)
(* it likes; an id that is neither active nor queued is ignored.  ACKs and  *)
(* NACKs reach a manager through the hook's per-peer map, which no longer   *)
(* holds a cancelled one.                                                   *)
HandleAckActive(m) ==
  /\ active = m
  /\ retryTimer' = FALSE
  /\ acked' = acked \cup {m}
  /\ groups' = groups \ {m}
  /\ IF retransmitting
     THEN UNCHANGED <<active, queued, writes, retryCount>>
     ELSE PromoteQueued(writes, retryCount)
  /\ UNCHANGED <<submitted, retransmitting, retransmitGeneration, onAir,
                 failedSends, cancelled>>

HandleAckQueued(m) ==
  /\ active # m
  /\ queued = m
  /\ acked' = acked \cup {m}
  /\ groups' = groups \ {m}
  /\ queued' = NoMessage
  /\ UNCHANGED <<submitted, active, retryCount, retryTimer, retransmitting,
                 retransmitGeneration, writes, onAir, failedSends, cancelled>>

HandleAckUnknown(m) ==
  /\ m \notin {active, queued}
  /\ UNCHANGED vars

HandleAck(m) ==
  /\ ~cancelled
  /\ m \in submitted
  /\ HandleAckActive(m) \/ HandleAckQueued(m) \/ HandleAckUnknown(m)

(* handleNack(groupId) for a registered group of the active message.       *)
HandleNack(m) ==
  /\ ~cancelled
  /\ m \in groups
  /\ active = m
  /\ retryTimer' = FALSE
  /\ LET rc == [retryCount EXCEPT ![m] = @ + 1]
     IN  IF rc[m] > MAX_RETRIES
         THEN GiveUp(rc)
         ELSE /\ retryCount' = rc
              /\ Retransmit
              /\ UNCHANGED <<active, queued, groups>>
  /\ UNCHANGED <<submitted, acked, onAir, failedSends, cancelled>>

(* Mutant: a timeout does not consume the retry budget.                    *)
MutHandleTimeout ==
  /\ retryTimer
  /\ retryTimer' = FALSE
  /\ active # NoMessage
  /\ Retransmit
  /\ UNCHANGED <<submitted, active, queued, acked, groups, retryCount, onAir,
                 failedSends, cancelled>>

(* The ACK timeout fires: handleTimeout.                                   *)
HandleTimeout ==
  /\ retryTimer
  /\ retryTimer' = FALSE
  /\ IF active = NoMessage
     THEN UNCHANGED <<active, queued, groups, retryCount, retransmitting,
                      retransmitGeneration, writes>>
     ELSE LET rc == [retryCount EXCEPT ![active] = @ + 1]
          IN  IF rc[active] > MAX_RETRIES
              THEN GiveUp(rc)
              ELSE /\ retryCount' = rc
                   /\ Retransmit
                   /\ UNCHANGED <<active, queued, groups>>
  /\ UNCHANGED <<submitted, acked, onAir, failedSends, cancelled>>

(* cancel() on BLE disconnect; the hook then drops the manager, so no      *)
(* message is ever given to it again.  Loops already running keep their    *)
(* reference to it.                                                        *)
Cancel ==
  /\ ~cancelled
  /\ cancelled' = TRUE
  /\ retryTimer' = FALSE
  /\ retransmitGeneration' = retransmitGeneration + 1
  /\ retransmitting' = FALSE
  /\ groups' = groups \ {active, queued}
  /\ active' = NoMessage
  /\ queued' = NoMessage
  /\ UNCHANGED <<submitted, acked, retryCount, writes, onAir, failedSends>>

-----------------------------------------------------------------------------
(* The native layer, and the continuations of the loops.                   *)

(* The frame at the head of the native queue leaves the radio; the         *)
(* completion callback has not run yet.                                    *)
HeadTransmitted ==
  /\ writes # <<>>
  /\ ~onAir
  /\ onAir' = TRUE
  /\ UNCHANGED <<submitted, active, queued, acked, retryCount, groups,
                 retryTimer, retransmitting, retransmitGeneration, writes,
                 failedSends, cancelled>>

(* NativeBLE.send resolves (ok) or rejects.  It can reject after the frame *)
(* went out: the native wait has a timeout.                                *)
Settles(ok) ==
  /\ writes # <<>>
  /\ ok => onAir
  /\ onAir' = FALSE

(* Mutant: onFrameSent is not called after the last frame.                 *)
MutInitialSettled(ok) ==
  LET w == Head(writes) IN
  /\ Settles(ok)
  /\ w.gen = Initial
  /\ writes' = IF ok /\ ~IsLastFrame(w) THEN Append(Tail(writes), NextFrame(w))
                                       ELSE Tail(writes)
  /\ failedSends' = IF ok THEN failedSends ELSE failedSends \cup {w.msg}
  /\ UNCHANGED <<submitted, active, queued, acked, retryCount, groups,
                 retryTimer, retransmitting, retransmitGeneration, cancelled>>

(* sendInitialData after its await: the next frame, or onFrameSent() after *)
(* the last; a rejection leaves the loop at once.  The loop never looks at *)
(* the acked flag or at the generation.                                    *)
InitialSettled(ok) ==
  LET w    == Head(writes)
      last == IsLastFrame(w)
  IN
  /\ Settles(ok)
  /\ w.gen = Initial
  /\ writes' = IF ok /\ ~last THEN Append(Tail(writes), NextFrame(w))
                              ELSE Tail(writes)
  /\ retryTimer' = (retryTimer \/ (ok /\ last /\ active # NoMessage))
  /\ failedSends' = IF ok THEN failedSends ELSE failedSends \cup {w.msg}
  /\ UNCHANGED <<submitted, active, queued, acked, retryCount, groups,
                 retransmitting, retransmitGeneration, cancelled>>

(* Mutant: the loop does not look at the generation.                       *)
MutLoopGoesOn(w, ok) == ok /\ w.msg \notin acked /\ ~IsLastFrame(w)

(* The retransmission loop goes on only while its generation is current    *)
(* and its message is not acknowledged.                                    *)
LoopGoesOn(w, ok) ==
  /\ ok
  /\ w.gen = retransmitGeneration
  /\ w.msg \notin acked
  /\ ~IsLastFrame(w)

RetransmissionContinues(ok) ==
  LET w == Head(writes) IN
  /\ Settles(ok)
  /\ w.gen # Initial
  /\ LoopGoesOn(w, ok)
  /\ writes' = Append(Tail(writes), NextFrame(w))
  /\ UNCHANGED <<submitted, active, queued, acked, retryCount, groups,
                 retryTimer, retransmitting, retransmitGeneration,
                 failedSends, cancelled>>

(* Mutant: the timer is not restarted when the loop is over.               *)
MutRetransmissionEnds(ok) ==
  LET w == Head(writes) IN
  /\ Settles(ok)
  /\ w.gen # Initial
  /\ ~LoopGoesOn(w, ok)
  /\ retransmitting' = (retransmitting /\ w.gen # retransmitGeneration)
  /\ IF w.gen = retransmitGeneration /\ w.msg \in acked
     THEN PromoteQueued(Tail(writes), retryCount)
     ELSE writes' = Tail(writes) /\ UNCHANGED <<active, queued, retryCount>>
  /\ UNCHANGED <<submitted, acked, groups, retryTimer, retransmitGeneration,
                 failedSends, cancelled>>

(* The loop is over (all frames sent, stale, acknowledged, or the send     *)
(* threw, which it catches).  A stale loop touches nothing.                *)
RetransmissionEnds(ok) ==
  LET w == Head(writes) IN
  /\ Settles(ok)
  /\ w.gen # Initial
  /\ ~LoopGoesOn(w, ok)
  /\ IF w.gen # retransmitGeneration
     THEN /\ writes' = Tail(writes)
          /\ UNCHANGED <<active, queued, retryCount, retryTimer, retransmitting>>
     ELSE /\ retransmitting' = FALSE
          /\ IF w.msg \in acked
             THEN PromoteQueued(Tail(writes), retryCount) /\ UNCHANGED retryTimer
             ELSE /\ retryTimer' = (retryTimer \/ active = w.msg)
                  /\ writes' = Tail(writes)
                  /\ UNCHANGED <<active, queued, retryCount>>
  /\ UNCHANGED <<submitted, acked, groups, retransmitGeneration,
                 failedSends, cancelled>>

WriteSettled ==
  \E ok \in BOOLEAN :
    InitialSettled(ok) \/ RetransmissionContinues(ok) \/ RetransmissionEnds(ok)

Next ==
  \/ \E m \in Message : Send(m) \/ HandleAck(m) \/ HandleNack(m)
  \/ HandleTimeout
  \/ Cancel
  \/ HeadTransmitted
  \/ WriteSettled

Spec == Init /\ [][Next]_vars

(* The native layer settles every write (its wait is bounded by a timeout) *)
(* and a JavaScript timer that stays armed fires.                          *)
FairSpec ==
  /\ Spec
  /\ WF_vars(HeadTransmitted)
  /\ WF_vars(WriteSettled)
  /\ WF_vars(HandleTimeout)

-----------------------------------------------------------------------------
(* Properties.                                                             *)

(* A retransmission loop is live while its generation is the current one.  *)
LiveLoop(w) == w.gen # Initial /\ w.gen = retransmitGeneration

(* The code comments rely on this when handleAck defers promotion: the     *)
(* `retransmitting` flag is up exactly while one live loop has a write     *)
(* outstanding, and that loop carries the active message.  Were the flag   *)
(* up without a loop, a deferred ACK would never free the active slot.     *)
LoopMatchesFlag ==
  /\ retransmitting => \E i \in DOMAIN writes : LiveLoop(writes[i])
  /\ \A i \in DOMAIN writes :
       LiveLoop(writes[i]) => retransmitting /\ writes[i].msg = active
  /\ \A i, j \in DOMAIN writes :
       LiveLoop(writes[i]) /\ LiveLoop(writes[j]) => i = j

(* An acknowledged message stays in the active slot only while a           *)
(* retransmission loop still has to notice it; otherwise it would block    *)
(* the peer's queue for ever.                                              *)
AckedActiveIsDeferred == active \in acked => retransmitting

(* A message waits in the queue only behind an active one, and none of its *)
(* frames has been handed to the native layer.                             *)
QueuedWaitsBehindActive ==
  queued # NoMessage =>
    /\ active # NoMessage
    /\ queued # active
    /\ \A i \in DOMAIN writes : writes[i].msg # queued

(* Unless its initial send threw, the active message always has something  *)
(* that will move it on: an armed ACK timer, a retransmission loop, or a   *)
(* frame that is still being written.  NACKs and early timers clear and    *)
(* restart the timer in many orders; none of them may leave the message    *)
(* with nothing pending.                                                   *)
ActiveIsDriven ==
  active # NoMessage /\ active \notin failedSends =>
    \/ retryTimer
    \/ retransmitting
    \/ \E i \in DOMAIN writes : writes[i].msg = active

(* Repeated NACKs and timeouts cannot cause unlimited retries: every       *)
(* message pays for at most MAX_RETRIES loops and one give-up.             *)
RetransmissionsAreBounded ==
  retransmitGeneration <=
    (MAX_RETRIES + 1) * Cardinality(submitted) + 1

(* A frame handed over by this step, if any, is the last of writes'.       *)
HandsOver == writes' # <<>> /\ writes' # writes /\ Len(writes') >= Len(writes)

(* Every retransmitted frame belongs to the message that is active and not *)
(* acknowledged at that moment: a loop made stale by MAX_RETRIES or by a   *)
(* disconnect, or overtaken by an ACK, never writes another frame.         *)
RetransmitsOnlyUnackedActive ==
  [][HandsOver =>
       LET w == writes'[Len(writes')]
       IN  w.gen # Initial => w.msg = active' /\ w.msg \notin acked]_vars

(* A message whose initial send did not throw leaves the active slot:      *)
(* acknowledged, given up after MAX_RETRIES, or cancelled.                 *)
ActiveEventuallySettles ==
  \A m \in Message :
    active = m ~> (active # m \/ m \in failedSends)
=============================================================================
