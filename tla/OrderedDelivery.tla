--------------------------- MODULE OrderedDelivery --------------------------
(***************************************************************************)
(* What the reliability layer promises about one peer, independent of      *)
(* frames, timers and caches: messages are spoken by the receiver at most  *)
(* once and in the order in which the sender submitted them (some may be   *)
(* lost), and the sender counts a message as acknowledged only if it was   *)
(* spoken.                                                                 *)
(***************************************************************************)
EXTENDS Naturals, Sequences, SequencesExt

CONSTANT Message

VARIABLES
  log,       \* messages in the order of submission
  spoken,    \* messages in the order the receiver handed them to TTS
  confirmed  \* messages the sender knows to be delivered

vars == <<log, spoken, confirmed>>

Init == log = <<>> /\ spoken = <<>> /\ confirmed = {}

Submit(m) ==
  /\ m \notin ToSet(log)
  /\ log' = Append(log, m)
  /\ UNCHANGED <<spoken, confirmed>>

(* The position of a submitted message in the log.                         *)
Position(m) == CHOOSE i \in DOMAIN log : log[i] = m

Speak(m) ==
  /\ m \in ToSet(log)
  /\ \A s \in ToSet(spoken) : Position(s) < Position(m)
  /\ spoken' = Append(spoken, m)
  /\ UNCHANGED <<log, confirmed>>

Confirm(m) ==
  /\ m \in ToSet(spoken)
  /\ confirmed' = confirmed \cup {m}
  /\ UNCHANGED <<log, spoken>>

Next == \E m \in Message : Submit(m) \/ Speak(m) \/ Confirm(m)

Spec == Init /\ [][Next]_vars
=============================================================================
