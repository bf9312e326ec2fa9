------------------------- MODULE ReliableLink_proofs -------------------------
(***************************************************************************)
(* First the sender by itself: the safety invariants of ReliableSender,    *)
(* for every set of messages, every fragmentation and every MAX_RETRIES.   *)
(* Then the link: it implements OrderedDelivery when no message has more   *)
(* than MAX_RETRIES + 1 fragments, for every set of messages, every        *)
(* MAX_RETRIES and every size of the receiver's tables.                    *)
(***************************************************************************)
EXTENDS ReliableLink, FiniteSetTheorems, SequenceTheorems, TLAPS

-----------------------------------------------------------------------------
(* The sender.                                                             *)

(* The loops of the native queue ws, seen from the slots: `a` is active,   *)
(* `q` queued, `sub` was submitted, `g` is the generation and `rt` the     *)
(* retransmitting flag.  A loop whose generation is stale belongs to a     *)
(* message that has left the active slot, the live one to the active       *)
(* message, and it exists exactly while the flag is up.                    *)
LoopsWellFormed(ws, sub) ==
  /\ ws \in Seq(Write)
  /\ \A i \in DOMAIN ws : /\ ws[i].part <= Fragments[ws[i].msg]
                          /\ ws[i].msg \in sub

LoopsMatch(ws, a, g, rt) ==
  /\ \A i \in DOMAIN ws :
       /\ ws[i].gen <= g
       /\ ws[i].gen # Initial /\ ws[i].msg = a => ws[i].gen = g
       /\ ws[i].gen # Initial /\ ws[i].gen = g => rt /\ ws[i].msg = a
  /\ \A i, j \in DOMAIN ws :
       ws[i].gen # Initial /\ ws[i].gen = g /\ ws[j].gen = g => i = j
  /\ rt => \E i \in DOMAIN ws : ws[i].gen # Initial /\ ws[i].gen = g

NoFrameOf(ws, m) == \A i \in DOMAIN ws : ws[i].msg # m

SomeFrameOf(ws, m) == \E i \in DOMAIN ws : ws[i].msg = m

(* What relates the two slots to the acked set and to the timer.           *)
SlotsInv ==
  /\ {active, queued} \ {NoMessage} \subseteq submitted
  /\ \A m \in Message \ submitted : retryCount[m] = 0
  /\ acked \subseteq submitted
  /\ queued \notin acked
  /\ active \in acked => retransmitting
  /\ queued # NoMessage =>
       active # NoMessage /\ queued # active /\ NoFrameOf(writes, queued)
  /\ active # NoMessage /\ active \notin failedSends =>
       retryTimer \/ retransmitting \/ SomeFrameOf(writes, active)

SenderInv ==
  /\ TypeOK
  /\ LoopsWellFormed(writes, submitted)
  /\ LoopsMatch(writes, active, retransmitGeneration, retransmitting)
  /\ SlotsInv

(* It implies the invariants that ReliableSender states.                   *)
LEMMA SenderInvImplies ==
  SenderInv => /\ LoopMatchesFlag
               /\ AckedActiveIsDeferred
               /\ QueuedWaitsBehindActive
               /\ ActiveIsDriven
  BY DEF SenderInv, LoopsMatch, SlotsInv, LoopMatchesFlag, LiveLoop, NoFrameOf,
         SomeFrameOf, AckedActiveIsDeferred, QueuedWaitsBehindActive, ActiveIsDriven

-----------------------------------------------------------------------------
(* Sequences of writes.                                                    *)

(* Appending leaves the old entries where they were.                       *)
LEMMA AppendFacts ==
  ASSUME NEW s \in Seq(Write), NEW e \in Write
  PROVE  /\ Append(s, e) \in Seq(Write)
         /\ Len(s) \in Nat
         /\ DOMAIN s = 1..Len(s)
         /\ DOMAIN Append(s, e) = 1..(Len(s) + 1)
         /\ \A i \in 1..Len(s) : Append(s, e)[i] = s[i]
         /\ Append(s, e)[Len(s) + 1] = e
  OBVIOUS

(* What is read from a queue of writes is a write.                         *)
LEMMA EntryFacts ==
  ASSUME NEW s \in Seq(Write)
  PROVE  \A i \in DOMAIN s : /\ s[i] \in Write
                             /\ s[i].gen \in Nat
                             /\ s[i].msg \in Message
                             /\ s[i].msg # NoMessage
<1>1. DOMAIN s = 1..Len(s)
  OBVIOUS
<1>2. \A i \in 1..Len(s) : s[i] \in Write
  OBVIOUS
<1>3. \A w \in Write : w.gen \in Nat /\ w.msg \in Message /\ w.msg # NoMessage
  BY MessageAssumption DEF Write
<1>4. QED BY <1>1, <1>2, <1>3

(* Settling the head shifts the other entries down by one.                 *)
LEMMA TailFacts ==
  ASSUME NEW s \in Seq(Write), s # <<>>
  PROVE  /\ Tail(s) \in Seq(Write)
         /\ Len(s) \in Nat \ {0}
         /\ Head(s) = s[1]
         /\ Head(s) \in Write
         /\ DOMAIN s = 1..Len(s)
         /\ Len(Tail(s)) = Len(s) - 1
         /\ DOMAIN Tail(s) = 1..(Len(s) - 1)
         /\ \A i \in 1..(Len(s) - 1) : Tail(s)[i] = s[i + 1]
  OBVIOUS

(* The two frames a handler can hand over are well-typed.                  *)
LEMMA FrameFacts ==
  ASSUME NEW m \in Message, NEW g \in Nat
  PROVE  /\ FirstFrame(m, g) \in Write
         /\ FirstFrame(m, g).msg = m
         /\ FirstFrame(m, g).gen = g
         /\ FirstFrame(m, g).part = 1
         /\ 1 <= Fragments[m]
  BY FragmentsAssumption DEF FirstFrame, Write

(* The frame after one that is not the last is still a frame of w's message*)
LEMMA NextFrameFacts ==
  ASSUME NEW w \in Write, w.part <= Fragments[w.msg], ~IsLastFrame(w)
  PROVE  /\ NextFrame(w) \in Write
         /\ NextFrame(w).msg = w.msg
         /\ NextFrame(w).gen = w.gen
         /\ NextFrame(w).part = w.part + 1
         /\ NextFrame(w).part <= Fragments[w.msg]
  BY FragmentsAssumption DEF NextFrame, Write, IsLastFrame

-----------------------------------------------------------------------------
(* What each way of changing the native queue does to the loops.           *)

(* Giving up or cancelling: the generation moves on, so no loop is live.   *)
LEMMA LoopsAbandoned ==
  ASSUME NEW ws \in Seq(Write), NEW a, NEW g \in Nat, NEW rt \in BOOLEAN,
         LoopsMatch(ws, a, g, rt)
  PROVE  LoopsMatch(ws, NoMessage, g + 1, FALSE)
<1>1. \A i \in DOMAIN ws : ws[i].gen \in Nat /\ ws[i].msg # NoMessage
  BY EntryFacts
<1>2. QED BY <1>1 DEF LoopsMatch, Initial

(* Vacating the active slot while no loop is live.                         *)
LEMMA LoopsVacated ==
  ASSUME NEW ws \in Seq(Write), NEW a, NEW g \in Nat,
         LoopsMatch(ws, a, g, FALSE)
  PROVE  LoopsMatch(ws, NoMessage, g, FALSE)
<1>1. \A i \in DOMAIN ws : ws[i].gen \in Nat /\ ws[i].msg # NoMessage
  BY EntryFacts
<1>2. QED BY <1>1 DEF LoopsMatch, Initial

(* A message that has no frame in the queue becomes active and its first   *)
(* frame is handed over.                                                   *)
LEMMA LoopsInstalled ==
  ASSUME NEW ws \in Seq(Write), NEW m \in Message, NEW g \in Nat,
         LoopsMatch(ws, NoMessage, g, FALSE), NoFrameOf(ws, m)
  PROVE  /\ LoopsMatch(Append(ws, FirstFrame(m, Initial)), m, g, FALSE)
         /\ SomeFrameOf(Append(ws, FirstFrame(m, Initial)), m)
<1> DEFINE e == FirstFrame(m, Initial)
<1>1. e \in Write /\ e.msg = m /\ e.gen = Initial
  BY FrameFacts DEF Initial
<1>2. /\ Len(ws) \in Nat
      /\ DOMAIN ws = 1..Len(ws)
      /\ DOMAIN Append(ws, e) = 1..(Len(ws) + 1)
      /\ \A i \in 1..Len(ws) : Append(ws, e)[i] = ws[i]
      /\ Append(ws, e)[Len(ws) + 1] = e
  BY <1>1, AppendFacts
<1> HIDE DEF e
<1>3. LoopsMatch(Append(ws, e), m, g, FALSE)
  BY <1>1, <1>2 DEF LoopsMatch, NoFrameOf, Initial
<1>4. SomeFrameOf(Append(ws, e), m)
  BY <1>1, <1>2 DEF SomeFrameOf
<1>5. QED BY <1>3, <1>4 DEF e

(* retransmit() starts a loop for the active message.                      *)
LEMMA LoopsStarted ==
  ASSUME NEW ws \in Seq(Write), NEW a \in Message, NEW g \in Nat,
         LoopsMatch(ws, a, g, FALSE)
  PROVE  LoopsMatch(Append(ws, FirstFrame(a, g + 1)), a, g + 1, TRUE)
<1> DEFINE e == FirstFrame(a, g + 1)
<1>1. e \in Write /\ e.msg = a /\ e.gen = g + 1
  BY FrameFacts
<1>2. /\ Len(ws) \in Nat
      /\ DOMAIN ws = 1..Len(ws)
      /\ DOMAIN Append(ws, e) = 1..(Len(ws) + 1)
      /\ \A i \in 1..Len(ws) : Append(ws, e)[i] = ws[i]
      /\ Append(ws, e)[Len(ws) + 1] = e
  BY <1>1, AppendFacts
<1>3. \A i \in DOMAIN ws : ws[i].gen \in Nat
  BY EntryFacts
<1> HIDE DEF e
<1>4. LoopsMatch(Append(ws, e), a, g + 1, TRUE)
  BY <1>1, <1>2, <1>3 DEF LoopsMatch, Initial
<1>5. QED BY <1>4 DEF e

(* The head is settled and its loop goes on with the next frame, or the    *)
(* head does not belong to the live loop.                                  *)
LEMMA LoopsContinue ==
  ASSUME NEW ws \in Seq(Write), ws # <<>>, NEW a, NEW g \in Nat,
         NEW rt \in BOOLEAN, LoopsMatch(ws, a, g, rt),
         Head(ws).part <= Fragments[Head(ws).msg], ~IsLastFrame(Head(ws))
  PROVE  /\ LoopsMatch(Append(Tail(ws), NextFrame(Head(ws))), a, g, rt)
         /\ \A m : SomeFrameOf(ws, m) =>
                     SomeFrameOf(Append(Tail(ws), NextFrame(Head(ws))), m)
         /\ \A m : NoFrameOf(ws, m) =>
                     NoFrameOf(Append(Tail(ws), NextFrame(Head(ws))), m)
<1> DEFINE e == NextFrame(Head(ws))
           t == Tail(ws)
           n == Len(ws)
           r == Append(t, e)
<1>1. /\ t \in Seq(Write)
      /\ n \in Nat \ {0}
      /\ Head(ws) = ws[1]
      /\ Head(ws) \in Write
      /\ DOMAIN ws = 1..n
      /\ Len(t) = n - 1
      /\ \A i \in 1..(n - 1) : t[i] = ws[i + 1]
  BY TailFacts
<1>2. e \in Write /\ e.msg = ws[1].msg /\ e.gen = ws[1].gen
  BY <1>1, NextFrameFacts
<1>3. /\ DOMAIN r = 1..n
      /\ \A i \in 1..(n - 1) : r[i] = ws[i + 1]
      /\ r[n] = e
  BY <1>1, <1>2, AppendFacts
<1> HIDE DEF e, t, n, r
<1> DEFINE old(k) == IF k = n THEN 1 ELSE k + 1
           new(k) == IF k = 1 THEN n ELSE k - 1
<1>4. \A k \in 1..n : /\ old(k) \in 1..n
                      /\ r[k].gen = ws[old(k)].gen
                      /\ r[k].msg = ws[old(k)].msg
  BY <1>1, <1>2, <1>3
<1>5. \A k \in 1..n : /\ new(k) \in 1..n
                      /\ r[new(k)].gen = ws[k].gen
                      /\ r[new(k)].msg = ws[k].msg
  <2> SUFFICES ASSUME NEW k \in 1..n
               PROVE  /\ new(k) \in 1..n
                      /\ r[new(k)].gen = ws[k].gen
                      /\ r[new(k)].msg = ws[k].msg
    OBVIOUS
  <2>1. CASE k = 1
    BY <2>1, <1>1, <1>2, <1>3
  <2>2. CASE k # 1
    <3>1. new(k) \in 1..(n - 1) /\ new(k) + 1 = k
      BY <2>2, <1>1
    <3>2. r[new(k)] = ws[k]
      BY <3>1, <1>3
    <3>3. QED BY <3>1, <3>2, <1>1
  <2>3. QED BY <2>1, <2>2
<1>6. \A i, j \in 1..n : old(i) = old(j) => i = j
  BY <1>1
<1> HIDE DEF old, new
<1>7. LoopsMatch(r, a, g, rt)
  <2>1. ASSUME NEW k \in 1..n
        PROVE  /\ r[k].gen <= g
               /\ r[k].gen # Initial /\ r[k].msg = a => r[k].gen = g
               /\ r[k].gen # Initial /\ r[k].gen = g => rt /\ r[k].msg = a
    <3>1. old(k) \in DOMAIN ws
      BY <1>1, <1>4
    <3>2. QED BY <3>1, <1>4 DEF LoopsMatch
  <2>2. ASSUME NEW i \in 1..n, NEW j \in 1..n,
               r[i].gen # Initial, r[i].gen = g, r[j].gen = g
        PROVE  i = j
    <3>1. old(i) \in DOMAIN ws /\ old(j) \in DOMAIN ws
      BY <1>1, <1>4
    <3>2. old(i) = old(j)
      BY <3>1, <2>2, <1>4 DEF LoopsMatch
    <3>3. QED BY <3>2, <1>6
  <2>3. ASSUME rt
        PROVE  \E i \in 1..n : r[i].gen # Initial /\ r[i].gen = g
    <3>1. PICK k \in DOMAIN ws : ws[k].gen # Initial /\ ws[k].gen = g
      BY <2>3 DEF LoopsMatch
    <3>2. new(k) \in 1..n /\ r[new(k)].gen = ws[k].gen
      BY <1>1, <1>5
    <3>3. QED BY <3>1, <3>2
  <2>4. QED BY <2>1, <2>2, <2>3, <1>3 DEF LoopsMatch
<1>8. \A m : SomeFrameOf(ws, m) => SomeFrameOf(r, m)
  BY <1>1, <1>3, <1>5 DEF SomeFrameOf
<1>9. \A m : NoFrameOf(ws, m) => NoFrameOf(r, m)
  <2>1. ASSUME NEW m, NoFrameOf(ws, m), NEW k \in 1..n
        PROVE  r[k].msg # m
    <3>1. old(k) \in DOMAIN ws
      BY <1>1, <1>4
    <3>2. QED BY <3>1, <2>1, <1>4 DEF NoFrameOf
  <2>2. QED BY <2>1, <1>3 DEF NoFrameOf
<1>10. QED BY <1>7, <1>8, <1>9 DEF e, t, n, r

(* The head is settled and its loop is over.  Unless the head was the live *)
(* loop's frame, the live loop is untouched; if it was, none is left.      *)
LEMMA LoopsSettled ==
  ASSUME NEW ws \in Seq(Write), ws # <<>>, NEW a, NEW g \in Nat,
         NEW rt \in BOOLEAN, LoopsMatch(ws, a, g, rt)
  PROVE  /\ Head(ws).gen = Initial \/ Head(ws).gen # g =>
              LoopsMatch(Tail(ws), a, g, rt)
         /\ Head(ws).gen # Initial /\ Head(ws).gen = g =>
              rt /\ Head(ws).msg = a /\ LoopsMatch(Tail(ws), a, g, FALSE)
         /\ \A m : SomeFrameOf(ws, m) /\ Head(ws).msg # m => SomeFrameOf(Tail(ws), m)
         /\ \A m : NoFrameOf(ws, m) => NoFrameOf(Tail(ws), m)
<1> DEFINE t == Tail(ws)
           n == Len(ws)
<1>1. /\ n \in Nat \ {0}
      /\ Head(ws) = ws[1]
      /\ DOMAIN ws = 1..n
      /\ DOMAIN t = 1..(n - 1)
      /\ \A i \in 1..(n - 1) : t[i] = ws[i + 1]
  BY TailFacts
<1> HIDE DEF t, n
<1>2. \A i \in DOMAIN t : i + 1 \in DOMAIN ws /\ t[i] = ws[i + 1] /\ i + 1 # 1 /\ i \in Nat
  BY <1>1
<1>3. \A j \in DOMAIN ws : j # 1 => j - 1 \in DOMAIN t /\ t[j - 1] = ws[j]
  <2> SUFFICES ASSUME NEW j \in 1..n, j # 1
               PROVE  j - 1 \in 1..(n - 1) /\ t[j - 1] = ws[j]
    BY <1>1
  <2>1. j - 1 \in 1..(n - 1) /\ (j - 1) + 1 = j
    BY <1>1
  <2>2. QED BY <2>1, <1>1
<1>4. 1 \in DOMAIN ws
  BY <1>1
<1>5. /\ \A i \in DOMAIN t :
           /\ t[i].gen <= g
           /\ t[i].gen # Initial /\ t[i].msg = a => t[i].gen = g
           /\ t[i].gen # Initial /\ t[i].gen = g => rt /\ t[i].msg = a
  BY <1>2 DEF LoopsMatch
<1>6. ASSUME NEW i \in DOMAIN t, NEW j \in DOMAIN t,
             t[i].gen # Initial, t[i].gen = g, t[j].gen = g
      PROVE  i = j
  <2>1. i + 1 = j + 1
    BY <1>2, <1>6 DEF LoopsMatch
  <2>2. QED BY <2>1, <1>2
<1>7. ASSUME ws[1].gen = Initial \/ ws[1].gen # g
      PROVE  LoopsMatch(t, a, g, rt)
  <2>1. ASSUME rt
        PROVE  \E i \in DOMAIN t : t[i].gen # Initial /\ t[i].gen = g
    <3>1. PICK k \in DOMAIN ws : ws[k].gen # Initial /\ ws[k].gen = g
      BY <2>1 DEF LoopsMatch
    <3>2. k - 1 \in DOMAIN t /\ t[k - 1] = ws[k]
      BY <3>1, <1>7, <1>3
    <3>3. QED BY <3>1, <3>2
  <2>2. QED BY <2>1, <1>5, <1>6 DEF LoopsMatch
<1>8. ASSUME ws[1].gen # Initial, ws[1].gen = g
      PROVE  rt /\ ws[1].msg = a /\ LoopsMatch(t, a, g, FALSE)
  <2>1. rt /\ ws[1].msg = a
    BY <1>8, <1>4 DEF LoopsMatch
  <2>2. ASSUME NEW i \in DOMAIN t
        PROVE  ~(t[i].gen # Initial /\ t[i].gen = g)
    <3>1. i + 1 \in DOMAIN ws /\ t[i] = ws[i + 1] /\ i + 1 # 1
      BY <1>2
    <3>2. QED BY <3>1, <1>8, <1>4 DEF LoopsMatch
  <2>3. QED BY <2>1, <2>2, <1>5, <1>6 DEF LoopsMatch
<1>9. ASSUME NEW m, SomeFrameOf(ws, m), ws[1].msg # m
      PROVE  SomeFrameOf(t, m)
  <2>1. PICK k \in DOMAIN ws : ws[k].msg = m
    BY <1>9 DEF SomeFrameOf
  <2>2. k - 1 \in DOMAIN t /\ t[k - 1] = ws[k]
    BY <2>1, <1>9, <1>3
  <2>3. QED BY <2>1, <2>2 DEF SomeFrameOf
<1>10. ASSUME NEW m, NoFrameOf(ws, m)
       PROVE  NoFrameOf(t, m)
  BY <1>10, <1>2 DEF NoFrameOf
<1>11. QED BY <1>1, <1>7, <1>8, <1>9, <1>10 DEF t

(* Well-formedness: what is handed over is the first or the next frame of  *)
(* a submitted message.                                                    *)
LEMMA WellFormedAppended ==
  ASSUME NEW ws, NEW sub, LoopsWellFormed(ws, sub),
         NEW m \in Message, NEW g \in Nat, NEW new, m \in new, sub \subseteq new
  PROVE  LoopsWellFormed(Append(ws, FirstFrame(m, g)), new)
<1> DEFINE e == FirstFrame(m, g)
<1>1. e \in Write /\ e.msg = m /\ e.part <= Fragments[e.msg]
  BY FrameFacts
<1>2. ws \in Seq(Write)
  BY DEF LoopsWellFormed
<1>3. /\ Append(ws, e) \in Seq(Write)
      /\ Len(ws) \in Nat
      /\ DOMAIN ws = 1..Len(ws)
      /\ DOMAIN Append(ws, e) = 1..(Len(ws) + 1)
      /\ \A i \in 1..Len(ws) : Append(ws, e)[i] = ws[i]
      /\ Append(ws, e)[Len(ws) + 1] = e
  BY <1>1, <1>2, AppendFacts
<1> HIDE DEF e
<1>4. LoopsWellFormed(Append(ws, e), new)
  BY <1>1, <1>3 DEF LoopsWellFormed
<1>5. QED BY <1>4 DEF e

(* Settling the head, with or without its loop's next frame.               *)
LEMMA WellFormedSettled ==
  ASSUME NEW ws, ws # <<>>, NEW sub, LoopsWellFormed(ws, sub)
  PROVE  /\ ws \in Seq(Write)
         /\ Head(ws) \in Write
         /\ Head(ws).msg \in Message
         /\ Head(ws).part <= Fragments[Head(ws).msg]
         /\ LoopsWellFormed(Tail(ws), sub)
         /\ ~IsLastFrame(Head(ws)) =>
              LoopsWellFormed(Append(Tail(ws), NextFrame(Head(ws))), sub)
<1> DEFINE t == Tail(ws)
           h == Head(ws)
           n == Len(ws)
<1>1. ws \in Seq(Write)
  BY DEF LoopsWellFormed
<1>2. /\ t \in Seq(Write)
      /\ n \in Nat \ {0}
      /\ h = ws[1]
      /\ h \in Write
      /\ DOMAIN ws = 1..n
      /\ Len(t) = n - 1
      /\ DOMAIN t = 1..(n - 1)
      /\ \A i \in 1..(n - 1) : t[i] = ws[i + 1]
  BY <1>1, TailFacts
<1> HIDE DEF t, h, n
<1>3. h.msg \in Message /\ h.part <= Fragments[h.msg] /\ h.msg \in sub
  <2>1. h.msg \in Message
    BY <1>2 DEF Write
  <2>2. QED BY <2>1, <1>2 DEF LoopsWellFormed
<1>4. LoopsWellFormed(t, sub)
  <2>1. \A i \in DOMAIN t : i + 1 \in DOMAIN ws /\ t[i] = ws[i + 1]
    BY <1>2
  <2>2. QED BY <2>1, <1>2 DEF LoopsWellFormed
<1>5. ASSUME ~IsLastFrame(h)
      PROVE  LoopsWellFormed(Append(t, NextFrame(h)), sub)
  <2>1. /\ NextFrame(h) \in Write
        /\ NextFrame(h).msg = h.msg
        /\ NextFrame(h).part <= Fragments[h.msg]
    BY <1>5, <1>2, <1>3, NextFrameFacts
  <2>2. /\ Append(t, NextFrame(h)) \in Seq(Write)
        /\ Len(t) \in Nat
        /\ DOMAIN Append(t, NextFrame(h)) = 1..(Len(t) + 1)
        /\ \A i \in 1..Len(t) : Append(t, NextFrame(h))[i] = t[i]
        /\ Append(t, NextFrame(h))[Len(t) + 1] = NextFrame(h)
    BY <1>2, <2>1, AppendFacts
  <2>3. DOMAIN t = 1..Len(t)
    BY <1>2
  <2>4. QED BY <2>1, <2>2, <2>3, <1>3, <1>4 DEF LoopsWellFormed
<1>6. QED BY <1>1, <1>2, <1>3, <1>4, <1>5 DEF t, h

-----------------------------------------------------------------------------
(* Every action preserves SenderInv.                                       *)

LEMMA InitEstablishes == Init => SenderInv
<1> SUFFICES ASSUME Init PROVE SenderInv
  OBVIOUS
<1>1. writes = <<>> /\ writes \in Seq(Write) /\ DOMAIN writes = {}
  BY DEF Init
<1>2. TypeOK
  <2>1. retryCount \in [Message -> 0..MAX_RETRIES + 1]
    BY RetriesAssumption DEF Init
  <2>2. QED BY <1>1, <2>1 DEF Init, TypeOK
<1>3. LoopsWellFormed(writes, submitted)
  BY <1>1 DEF LoopsWellFormed
<1>4. LoopsMatch(writes, active, retransmitGeneration, retransmitting)
  BY <1>1 DEF LoopsMatch, Init
<1>5. SlotsInv
  BY DEF Init, SlotsInv
<1>6. QED BY <1>2, <1>3, <1>4, <1>5 DEF SenderInv

(* promoteQueued() hands over the first frame of the queued message, if    *)
(* there is one, and gives it a fresh retry budget.                        *)
LEMMA Promotion ==
  ASSUME SenderInv, NEW ws, NEW rc, NEW a, NEW g \in Nat,
         LoopsWellFormed(ws, submitted), LoopsMatch(ws, a, g, FALSE),
         queued # NoMessage => NoFrameOf(ws, queued),
         rc \in [Message -> 0..MAX_RETRIES + 1],
         \A m \in Message \ submitted : rc[m] = 0,
         PromoteQueued(ws, rc)
  PROVE  /\ active' = queued
         /\ queued' = NoMessage
         /\ LoopsWellFormed(writes', submitted)
         /\ LoopsMatch(writes', active', g, FALSE)
         /\ active' # NoMessage => SomeFrameOf(writes', active')
         /\ retryCount' \in [Message -> 0..MAX_RETRIES + 1]
         /\ active' # NoMessage => retryCount'[active'] <= MAX_RETRIES
         /\ \A m \in Message \ submitted : retryCount'[m] = 0
<1>1. active' = queued /\ queued' = NoMessage
  BY DEF PromoteQueued
<1>2. queued \in Message \cup {NoMessage}
  BY DEF SenderInv, TypeOK
<1>3. queued # NoMessage => queued \in submitted
  BY DEF SenderInv, SlotsInv
<1>4. ws \in Seq(Write)
  BY DEF LoopsWellFormed
<1>5. LoopsMatch(ws, NoMessage, g, FALSE)
  BY <1>4, LoopsVacated
<1>6. CASE queued = NoMessage
  BY <1>1, <1>5, <1>6 DEF PromoteQueued
<1>7. CASE queued # NoMessage
  <2>1. writes' = Append(ws, FirstFrame(queued, Initial))
    BY <1>7 DEF PromoteQueued
  <2>2. retryCount' = [rc EXCEPT ![queued] = 0]
    BY <1>7 DEF PromoteQueued
  <2>3. LoopsWellFormed(writes', submitted)
    BY <1>2, <1>3, <1>7, <2>1, WellFormedAppended DEF Initial
  <2>4. /\ LoopsMatch(writes', queued, g, FALSE)
        /\ SomeFrameOf(writes', queued)
    BY <1>2, <1>4, <1>5, <1>7, <2>1, LoopsInstalled
  <2>5. /\ retryCount' \in [Message -> 0..MAX_RETRIES + 1]
        /\ retryCount'[queued] <= MAX_RETRIES
        /\ \A m \in Message \ submitted : retryCount'[m] = 0
    BY <1>2, <1>7, <2>2, RetriesAssumption
  <2>6. QED BY <1>1, <2>3, <2>4, <2>5
<1>8. QED BY <1>6, <1>7

(* send(): a new message has no frame queued and is not acknowledged.      *)
LEMMA SendPreserves ==
  ASSUME SenderInv, NEW m \in Message, Send(m)
  PROVE  SenderInv'
<1>1. /\ m \notin submitted
      /\ submitted' = submitted \cup {m}
      /\ retransmitGeneration \in Nat
      /\ m # NoMessage
      /\ LoopsWellFormed(writes, submitted)
      /\ writes \in Seq(Write)
  BY MessageAssumption DEF Send, SenderInv, TypeOK
<1>2. NoFrameOf(writes, m)
  BY <1>1 DEF LoopsWellFormed, NoFrameOf
<1>3. m \notin acked /\ m # active /\ m # queued
  BY <1>1 DEF SenderInv, SlotsInv
<1>4. CASE active = NoMessage
  <2>1. /\ active' = m
        /\ queued' = queued
        /\ queued = NoMessage
        /\ writes' = Append(writes, FirstFrame(m, Initial))
    BY <1>4 DEF Send, SenderInv, SlotsInv
  <2>2. ~retransmitting
    <3>1. SUFFICES ASSUME retransmitting PROVE FALSE
      OBVIOUS
    <3>2. PICK i \in DOMAIN writes : writes[i].msg = active
      BY <3>1 DEF SenderInv, LoopsMatch
    <3>3. QED BY <3>2, <1>1, <1>4, EntryFacts
  <2>3. LoopsWellFormed(writes', submitted')
    BY <1>1, <2>1, WellFormedAppended DEF Initial
  <2>4. LoopsMatch(writes, NoMessage, retransmitGeneration, FALSE)
    BY <1>4, <2>2 DEF SenderInv, TypeOK
  <2>5. /\ LoopsMatch(writes', m, retransmitGeneration, FALSE)
        /\ SomeFrameOf(writes', m)
    BY <1>1, <1>2, <2>1, <2>4, LoopsInstalled
  <2>6. TypeOK'
    BY <1>1, <2>1, <2>3, RetriesAssumption
    DEF Send, SenderInv, TypeOK, LoopsWellFormed, SlotsInv
  <2>7. SlotsInv'
    BY <1>1, <1>3, <2>1, <2>2, <2>5 DEF Send, SenderInv, SlotsInv, TypeOK
  <2>8. LoopsMatch(writes', active', retransmitGeneration', retransmitting')
    BY <2>1, <2>2, <2>5 DEF Send, SenderInv, TypeOK
  <2>9. QED BY <2>3, <2>6, <2>7, <2>8 DEF SenderInv
<1>5. CASE active # NoMessage
  <2>1. queued' = m /\ active' = active /\ writes' = writes
    BY <1>5 DEF Send
  <2>2. LoopsWellFormed(writes', submitted')
    BY <1>1, <2>1 DEF LoopsWellFormed
  <2>3. TypeOK'
    BY <1>1, <2>1 DEF Send, SenderInv, TypeOK
  <2>4. SlotsInv'
    BY <1>1, <1>2, <1>3, <1>5, <2>1 DEF Send, SenderInv, SlotsInv, TypeOK
  <2>5. LoopsMatch(writes', active', retransmitGeneration', retransmitting')
    BY <2>1 DEF Send, SenderInv
  <2>6. QED BY <2>2, <2>3, <2>4, <2>5 DEF SenderInv
<1>6. QED BY <1>4, <1>5

(* handleAck(): promotes at once unless a retransmission loop is running.  *)
LEMMA HandleAckPreserves ==
  ASSUME SenderInv, NEW m \in Message, HandleAck(m)
  PROVE  SenderInv'
<1>1. m \in submitted /\ m # NoMessage
  BY MessageAssumption DEF HandleAck
<1>2. CASE HandleAckActive(m) /\ retransmitting
  <2>1. /\ active = m
        /\ acked' = acked \cup {m}
        /\ retransmitting' = retransmitting
        /\ retransmitGeneration' = retransmitGeneration
        /\ active' = active /\ queued' = queued /\ writes' = writes
        /\ retryCount' = retryCount /\ submitted' = submitted
    BY <1>2 DEF HandleAckActive
  <2>2. TypeOK'
    BY <1>2, <2>1 DEF HandleAckActive, SenderInv, TypeOK
  <2>3. SlotsInv'
    BY <1>1, <1>2, <2>1 DEF HandleAckActive, SenderInv, SlotsInv, NoFrameOf
  <2>4. QED BY <2>1, <2>2, <2>3 DEF SenderInv
<1>3. CASE HandleAckActive(m) /\ ~retransmitting
  <2>1. /\ active = m
        /\ acked' = acked \cup {m}
        /\ retransmitting' = FALSE
        /\ retransmitGeneration' = retransmitGeneration
        /\ submitted' = submitted
        /\ PromoteQueued(writes, retryCount)
    BY <1>3 DEF HandleAckActive, SenderInv, TypeOK
  <2>2. /\ LoopsWellFormed(writes, submitted)
        /\ LoopsMatch(writes, active, retransmitGeneration, FALSE)
        /\ retransmitGeneration \in Nat
        /\ retryCount \in [Message -> 0..MAX_RETRIES + 1]
        /\ \A x \in Message \ submitted : retryCount[x] = 0
        /\ queued # NoMessage => NoFrameOf(writes, queued) /\ queued # active
    BY <1>3 DEF SenderInv, TypeOK, SlotsInv
  <2>3. /\ active' = queued
        /\ queued' = NoMessage
        /\ LoopsWellFormed(writes', submitted)
        /\ LoopsMatch(writes', active', retransmitGeneration, FALSE)
        /\ active' # NoMessage => SomeFrameOf(writes', active')
        /\ retryCount' \in [Message -> 0..MAX_RETRIES + 1]
        /\ active' # NoMessage => retryCount'[active'] <= MAX_RETRIES
        /\ \A x \in Message \ submitted : retryCount'[x] = 0
    BY <2>1, <2>2, Promotion
  <2>4. TypeOK'
    BY <1>3, <2>1, <2>3 DEF HandleAckActive, SenderInv, TypeOK, LoopsWellFormed
  <2>5. SlotsInv'
    BY <1>1, <1>3, <2>1, <2>2, <2>3, MessageAssumption
    DEF HandleAckActive, SenderInv, SlotsInv, TypeOK
  <2>6. QED BY <2>1, <2>3, <2>4, <2>5 DEF SenderInv
<1>4. CASE HandleAckQueued(m)
  <2>1. TypeOK'
    BY <1>4 DEF HandleAckQueued, SenderInv, TypeOK
  <2>2. SlotsInv'
    BY <1>1, <1>4, MessageAssumption DEF HandleAckQueued, SenderInv, SlotsInv, TypeOK
  <2>3. QED BY <1>4, <2>1, <2>2 DEF HandleAckQueued, SenderInv
<1>5. CASE HandleAckUnknown(m)
  BY <1>5 DEF HandleAckUnknown, vars, SenderInv, TypeOK, SlotsInv
<1>6. QED BY <1>2, <1>3, <1>4, <1>5 DEF HandleAck

(* The MAX_RETRIES branch: the live loop, if any, becomes stale and the    *)
(* queued message takes the slot.                                          *)
LEMMA GivingUp ==
  ASSUME SenderInv, NEW rc, active # NoMessage,
         rc \in [Message -> 0..MAX_RETRIES + 1],
         \A m \in Message \ submitted : rc[m] = 0,
         GiveUp(rc),
         UNCHANGED <<submitted, acked, onAir, failedSends, cancelled>>,
         retryTimer' = FALSE
  PROVE  SenderInv'
<1>1. /\ retransmitGeneration' = retransmitGeneration + 1
      /\ retransmitting' = FALSE
      /\ groups' = groups \ {active}
      /\ PromoteQueued(writes, rc)
  BY DEF GiveUp
<1>2. /\ LoopsWellFormed(writes, submitted)
      /\ LoopsMatch(writes, active, retransmitGeneration, retransmitting)
      /\ writes \in Seq(Write)
      /\ retransmitting \in BOOLEAN
      /\ retransmitGeneration \in Nat
      /\ queued # NoMessage => NoFrameOf(writes, queued)
  BY DEF SenderInv, TypeOK, SlotsInv
<1>3. LoopsMatch(writes, NoMessage, retransmitGeneration + 1, FALSE)
  BY <1>2, LoopsAbandoned
<1>4. retransmitGeneration + 1 \in Nat
  BY <1>2
<1>5. /\ active' = queued
      /\ queued' = NoMessage
      /\ LoopsWellFormed(writes', submitted)
      /\ LoopsMatch(writes', active', retransmitGeneration + 1, FALSE)
      /\ active' # NoMessage => SomeFrameOf(writes', active')
      /\ retryCount' \in [Message -> 0..MAX_RETRIES + 1]
      /\ active' # NoMessage => retryCount'[active'] <= MAX_RETRIES
      /\ \A x \in Message \ submitted : retryCount'[x] = 0
  BY <1>1, <1>2, <1>3, <1>4, Promotion
<1>6. TypeOK'
  BY <1>1, <1>4, <1>5 DEF SenderInv, TypeOK, LoopsWellFormed
<1>7. SlotsInv'
  BY <1>1, <1>5, MessageAssumption DEF SenderInv, SlotsInv, TypeOK
<1>8. QED BY <1>1, <1>5, <1>6, <1>7 DEF SenderInv

(* retransmit() for the active message, with retry budget left.            *)
LEMMA Retransmitting ==
  ASSUME SenderInv, NEW rc, active # NoMessage,
         rc \in [Message -> 0..MAX_RETRIES + 1],
         rc[active] <= MAX_RETRIES,
         \A m \in Message \ submitted : rc[m] = 0,
         retryCount' = rc,
         Retransmit,
         UNCHANGED <<active, queued, groups, submitted, acked, onAir,
                     failedSends, cancelled>>,
         retryTimer' = FALSE
  PROVE  SenderInv'
<1>1. /\ LoopsWellFormed(writes, submitted)
      /\ LoopsMatch(writes, active, retransmitGeneration, retransmitting)
      /\ writes \in Seq(Write)
      /\ retransmitting \in BOOLEAN
      /\ retransmitGeneration \in Nat
      /\ active \in Message
      /\ active \in submitted
      /\ queued # NoMessage => queued # active /\ NoFrameOf(writes, queued)
  BY DEF SenderInv, TypeOK, SlotsInv
<1>2. CASE retransmitting
  <2>1. UNCHANGED <<retransmitting, retransmitGeneration, writes>>
    BY <1>2 DEF Retransmit
  <2>2. TypeOK'
    BY <2>1 DEF SenderInv, TypeOK
  <2>3. SlotsInv'
    BY <1>2, <2>1 DEF SenderInv, SlotsInv
  <2>4. QED BY <2>1, <2>2, <2>3 DEF SenderInv
<1>3. CASE ~retransmitting
  <2> DEFINE e == FirstFrame(active, retransmitGeneration + 1)
  <2>1. /\ retransmitting' = TRUE
        /\ retransmitGeneration' = retransmitGeneration + 1
        /\ retransmitGeneration' \in Nat
        /\ writes' = Append(writes, e)
    BY <1>1, <1>3 DEF Retransmit
  <2>2. LoopsWellFormed(writes', submitted)
    BY <1>1, <2>1, WellFormedAppended
  <2>3. LoopsMatch(writes', active, retransmitGeneration + 1, TRUE)
    BY <1>1, <1>3, <2>1, LoopsStarted
  <2>4. queued # NoMessage => NoFrameOf(writes', queued)
    <3>1. e \in Write /\ e.msg = active
      BY <1>1, <2>1, FrameFacts
    <3>2. /\ DOMAIN writes = 1..Len(writes)
          /\ Len(writes) \in Nat
          /\ DOMAIN writes' = 1..(Len(writes) + 1)
          /\ \A i \in 1..Len(writes) : writes'[i] = writes[i]
          /\ writes'[Len(writes) + 1] = e
      BY <1>1, <2>1, <3>1, AppendFacts
    <3> HIDE DEF e
    <3>3. QED BY <1>1, <3>1, <3>2 DEF NoFrameOf
  <2> HIDE DEF e
  <2>5. TypeOK'
    BY <2>1, <2>2 DEF SenderInv, TypeOK, LoopsWellFormed
  <2>6. SlotsInv'
    BY <2>1, <2>4 DEF SenderInv, SlotsInv
  <2>7. QED BY <2>1, <2>2, <2>3, <2>5, <2>6 DEF SenderInv
<1>4. QED BY <1>1, <1>2, <1>3

(* A NACK or a timeout charges one retry to the active message.            *)
LEMMA RetryCharged ==
  ASSUME SenderInv, active # NoMessage, NEW rc,
         rc = [retryCount EXCEPT ![active] = @ + 1]
  PROVE  /\ rc \in [Message -> 0..MAX_RETRIES + 1]
         /\ rc[active] \in Nat
         /\ \A m \in Message \ submitted : rc[m] = 0
<1>1. /\ active \in Message
      /\ active \in submitted
      /\ retryCount \in [Message -> 0..MAX_RETRIES + 1]
      /\ retryCount[active] <= MAX_RETRIES
      /\ \A m \in Message \ submitted : retryCount[m] = 0
  BY DEF SenderInv, TypeOK, SlotsInv
<1>2. QED BY <1>1, RetriesAssumption

(* handleNack(): one more loop, or the end of the retries.                 *)
LEMMA HandleNackPreserves ==
  ASSUME SenderInv, NEW m \in Message, HandleNack(m)
  PROVE  SenderInv'
<1> DEFINE rc == [retryCount EXCEPT ![m] = @ + 1]
<1>1. /\ active = m
      /\ active # NoMessage
      /\ retryTimer' = FALSE
      /\ UNCHANGED <<submitted, acked, onAir, failedSends, cancelled>>
  BY MessageAssumption DEF HandleNack
<1>2. /\ rc \in [Message -> 0..MAX_RETRIES + 1]
      /\ rc[m] \in Nat
      /\ \A x \in Message \ submitted : rc[x] = 0
  BY <1>1, RetryCharged
<1>3. CASE rc[m] > MAX_RETRIES
  <2>1. GiveUp(rc)
    BY <1>3 DEF HandleNack
  <2> HIDE DEF rc
  <2>2. QED BY <1>1, <1>2, <2>1, GivingUp
<1>4. CASE ~(rc[m] > MAX_RETRIES)
  <2>1. /\ retryCount' = rc
        /\ Retransmit
        /\ UNCHANGED <<active, queued, groups>>
    BY <1>4 DEF HandleNack
  <2> HIDE DEF rc
  <2>2. rc[active] <= MAX_RETRIES
    BY <1>1, <1>2, <1>4, RetriesAssumption
  <2>3. QED BY <1>1, <1>2, <2>1, <2>2, Retransmitting
<1>5. QED BY <1>3, <1>4

(* handleTimeout(): as a NACK, or nothing when no message is active.       *)
LEMMA HandleTimeoutPreserves ==
  ASSUME SenderInv, HandleTimeout
  PROVE  SenderInv'
<1> DEFINE rc == [retryCount EXCEPT ![active] = @ + 1]
<1>1. /\ retryTimer' = FALSE
      /\ UNCHANGED <<submitted, acked, onAir, failedSends, cancelled>>
  BY DEF HandleTimeout
<1>2. CASE active = NoMessage
  <2>1. UNCHANGED <<active, queued, groups, retryCount, retransmitting,
                    retransmitGeneration, writes>>
    BY <1>2 DEF HandleTimeout
  <2>2. TypeOK' /\ SlotsInv'
    BY <1>1, <1>2, <2>1 DEF SenderInv, TypeOK, SlotsInv
  <2>3. QED BY <1>1, <2>1, <2>2 DEF SenderInv
<1>3. CASE active # NoMessage
  <2>1. /\ rc \in [Message -> 0..MAX_RETRIES + 1]
        /\ rc[active] \in Nat
        /\ \A x \in Message \ submitted : rc[x] = 0
    BY <1>3, RetryCharged
  <2>2. CASE rc[active] > MAX_RETRIES
    <3>1. GiveUp(rc)
      BY <1>3, <2>2 DEF HandleTimeout
    <3> HIDE DEF rc
    <3>2. QED BY <1>1, <1>3, <2>1, <3>1, GivingUp
  <2>3. CASE ~(rc[active] > MAX_RETRIES)
    <3>1. /\ retryCount' = rc
          /\ Retransmit
          /\ UNCHANGED <<active, queued, groups>>
      BY <1>3, <2>3 DEF HandleTimeout
    <3> HIDE DEF rc
    <3>2. rc[active] <= MAX_RETRIES
      BY <2>1, <2>3, RetriesAssumption
    <3>3. QED BY <1>1, <1>3, <2>1, <3>1, <3>2, Retransmitting
  <2>4. QED BY <2>2, <2>3
<1>4. QED BY <1>2, <1>3

(* cancel(): both slots are emptied and every loop becomes stale.          *)
LEMMA CancelPreserves ==
  ASSUME SenderInv, Cancel
  PROVE  SenderInv'
<1>1. /\ LoopsWellFormed(writes, submitted)
      /\ writes \in Seq(Write)
      /\ retransmitting \in BOOLEAN
      /\ retransmitGeneration \in Nat
      /\ LoopsMatch(writes, active, retransmitGeneration, retransmitting)
  BY DEF SenderInv, TypeOK
<1>2. LoopsMatch(writes, NoMessage, retransmitGeneration + 1, FALSE)
  BY <1>1, LoopsAbandoned
<1>3. TypeOK'
  <2>1. /\ active' = NoMessage /\ queued' = NoMessage
        /\ retransmitGeneration' \in Nat
        /\ groups' \subseteq Message
        /\ cancelled' \in BOOLEAN /\ retransmitting' \in BOOLEAN
        /\ retryTimer' \in BOOLEAN
    <3>1. groups \subseteq Message
      BY DEF SenderInv, TypeOK
    <3>2. groups' \subseteq Message
      BY <3>1 DEF Cancel
    <3>3. retransmitGeneration' = retransmitGeneration + 1
      BY DEF Cancel
    <3>4. cancelled' = TRUE /\ retransmitting' = FALSE /\ retryTimer' = FALSE
      BY Zenon DEF Cancel
    <3>5. active' = NoMessage /\ queued' = NoMessage
      BY DEF Cancel
    <3>6. retransmitGeneration' \in Nat
      BY <1>1, <3>3
    <3>7. QED BY <3>2, <3>4, <3>5, <3>6
  <2>2. UNCHANGED <<submitted, acked, retryCount, writes, onAir, failedSends>>
    BY DEF Cancel
  <2>3. QED BY <2>1, <2>2 DEF SenderInv, TypeOK
<1>4. SlotsInv'
  BY MessageAssumption DEF Cancel, SenderInv, SlotsInv, TypeOK
<1>5. QED BY <1>1, <1>2, <1>3, <1>4 DEF Cancel, SenderInv

(* A frame on the air changes no part of the manager.                      *)
LEMMA HeadTransmittedPreserves ==
  ASSUME SenderInv, HeadTransmitted
  PROVE  SenderInv'
<1>1. TypeOK'
  BY DEF HeadTransmitted, SenderInv, TypeOK
<1>2. SlotsInv'
  BY DEF HeadTransmitted, SenderInv, SlotsInv
<1>3. QED BY <1>1, <1>2 DEF HeadTransmitted, SenderInv

(* What any continuation may use about the write that has just settled.    *)
LEMMA SettlingFacts ==
  ASSUME SenderInv, NEW ok \in BOOLEAN, Settles(ok)
  PROVE  /\ writes # <<>>
         /\ writes \in Seq(Write)
         /\ Head(writes) \in Write
         /\ Head(writes).msg \in Message
         /\ Head(writes).part <= Fragments[Head(writes).msg]
         /\ retransmitGeneration \in Nat
         /\ retransmitting \in BOOLEAN
         /\ LoopsMatch(writes, active, retransmitGeneration, retransmitting)
         /\ LoopsWellFormed(Tail(writes), submitted)
         /\ ~IsLastFrame(Head(writes)) =>
              LoopsWellFormed(Append(Tail(writes), NextFrame(Head(writes))), submitted)
         /\ queued # NoMessage => queued # active /\ NoFrameOf(writes, queued)
<1>1. /\ writes # <<>>
      /\ LoopsWellFormed(writes, submitted)
      /\ LoopsMatch(writes, active, retransmitGeneration, retransmitting)
      /\ retransmitGeneration \in Nat
      /\ retransmitting \in BOOLEAN
      /\ queued # NoMessage => queued # active /\ NoFrameOf(writes, queued)
  BY DEF Settles, SenderInv, TypeOK, SlotsInv
<1>2. QED BY <1>1, WellFormedSettled

(* sendInitialData: goes on, arms the timer, or leaves the send as failed. *)
LEMMA InitialSettledPreserves ==
  ASSUME SenderInv, NEW ok \in BOOLEAN, InitialSettled(ok)
  PROVE  SenderInv'
<1> DEFINE w == Head(writes)
<1>1. /\ Settles(ok)
      /\ w.gen = Initial
      /\ onAir' = FALSE
      /\ retryTimer' = (retryTimer \/ (ok /\ IsLastFrame(w) /\ active # NoMessage))
      /\ failedSends' = IF ok THEN failedSends ELSE failedSends \cup {w.msg}
      /\ UNCHANGED <<submitted, active, queued, acked, retryCount, groups,
                     retransmitting, retransmitGeneration, cancelled>>
  BY DEF InitialSettled, Settles
<1>2. /\ writes # <<>>
      /\ writes \in Seq(Write)
      /\ w \in Write
      /\ w.msg \in Message
      /\ w.part <= Fragments[w.msg]
      /\ retransmitGeneration \in Nat
      /\ retransmitting \in BOOLEAN
      /\ LoopsMatch(writes, active, retransmitGeneration, retransmitting)
      /\ LoopsWellFormed(Tail(writes), submitted)
      /\ ~IsLastFrame(w) =>
           LoopsWellFormed(Append(Tail(writes), NextFrame(w)), submitted)
      /\ queued # NoMessage => queued # active /\ NoFrameOf(writes, queued)
  BY <1>1, SettlingFacts
<1>3. CASE ok /\ ~IsLastFrame(w)
  <2>1. writes' = Append(Tail(writes), NextFrame(w))
    BY <1>3 DEF InitialSettled
  <2> HIDE DEF w
  <2>2. /\ LoopsMatch(writes', active, retransmitGeneration, retransmitting)
        /\ \A m : SomeFrameOf(writes, m) => SomeFrameOf(writes', m)
        /\ \A m : NoFrameOf(writes, m) => NoFrameOf(writes', m)
    BY <1>2, <1>3, <2>1, LoopsContinue DEF w
  <2>3. LoopsWellFormed(writes', submitted)
    BY <1>2, <1>3, <2>1
  <2>4. TypeOK'
    BY <1>1, <1>2, <2>3 DEF SenderInv, TypeOK, LoopsWellFormed
  <2>5. SlotsInv'
    BY <1>1, <1>3, <2>2 DEF SenderInv, SlotsInv, TypeOK
  <2>6. QED BY <1>1, <2>2, <2>3, <2>4, <2>5 DEF SenderInv
<1>4. CASE ~(ok /\ ~IsLastFrame(w))
  <2>1. writes' = Tail(writes)
    BY <1>4 DEF InitialSettled
  <2> HIDE DEF w
  <2>2. /\ LoopsMatch(writes', active, retransmitGeneration, retransmitting)
        /\ \A m : SomeFrameOf(writes, m) /\ w.msg # m => SomeFrameOf(writes', m)
        /\ \A m : NoFrameOf(writes, m) => NoFrameOf(writes', m)
    BY <1>1, <1>2, <2>1, LoopsSettled DEF w
  <2>3. LoopsWellFormed(writes', submitted)
    BY <1>2, <2>1
  <2>4. TypeOK'
    BY <1>1, <1>2, <2>3 DEF SenderInv, TypeOK, LoopsWellFormed
  <2>5. active # NoMessage /\ active \notin failedSends' =>
          retryTimer' \/ retransmitting \/ SomeFrameOf(writes', active)
    <3>1. SUFFICES ASSUME active # NoMessage, active \notin failedSends'
                   PROVE  retryTimer' \/ retransmitting \/ SomeFrameOf(writes', active)
      OBVIOUS
    <3>2. active \notin failedSends
      BY <1>1, <3>1
    <3>3. retryTimer \/ retransmitting \/ SomeFrameOf(writes, active)
      BY <3>1, <3>2 DEF SenderInv, SlotsInv
    <3>4. CASE w.msg = active
      <4>1. ok
        BY <1>1, <3>1, <3>4
      <4>2. QED BY <1>1, <1>4, <3>1, <4>1
    <3>5. CASE w.msg # active
      BY <1>1, <2>2, <3>3, <3>5
    <3>6. QED BY <3>4, <3>5
  <2>6. SlotsInv'
    BY <1>1, <2>2, <2>5 DEF SenderInv, SlotsInv
  <2>7. QED BY <1>1, <2>2, <2>3, <2>4, <2>6 DEF SenderInv
<1>5. QED BY <1>3, <1>4

(* retransmit(): the live loop hands over its next frame.                  *)
LEMMA RetransmissionContinuesPreserves ==
  ASSUME SenderInv, NEW ok \in BOOLEAN, RetransmissionContinues(ok)
  PROVE  SenderInv'
<1> DEFINE w == Head(writes)
<1>1. /\ Settles(ok)
      /\ ~IsLastFrame(w)
      /\ onAir' = FALSE
      /\ writes' = Append(Tail(writes), NextFrame(w))
      /\ UNCHANGED <<submitted, active, queued, acked, retryCount, groups,
                     retryTimer, retransmitting, retransmitGeneration,
                     failedSends, cancelled>>
  BY DEF RetransmissionContinues, Settles, LoopGoesOn
<1>2. /\ writes # <<>>
      /\ writes \in Seq(Write)
      /\ w.part <= Fragments[w.msg]
      /\ retransmitGeneration \in Nat
      /\ retransmitting \in BOOLEAN
      /\ LoopsMatch(writes, active, retransmitGeneration, retransmitting)
      /\ LoopsWellFormed(Append(Tail(writes), NextFrame(w)), submitted)
  BY <1>1, SettlingFacts
<1>3. /\ LoopsMatch(writes', active, retransmitGeneration, retransmitting)
      /\ \A m : SomeFrameOf(writes, m) => SomeFrameOf(writes', m)
      /\ \A m : NoFrameOf(writes, m) => NoFrameOf(writes', m)
  BY <1>1, <1>2, LoopsContinue
<1> HIDE DEF w
<1>4. LoopsWellFormed(writes', submitted)
  BY <1>1, <1>2
<1>5. TypeOK'
  BY <1>1, <1>4 DEF SenderInv, TypeOK, LoopsWellFormed
<1>6. SlotsInv'
  BY <1>1, <1>3 DEF SenderInv, SlotsInv
<1>7. QED BY <1>1, <1>3, <1>4, <1>5, <1>6 DEF SenderInv

(* retransmit(): a loop ends; only the live one may touch the manager.     *)
LEMMA RetransmissionEndsPreserves ==
  ASSUME SenderInv, NEW ok \in BOOLEAN, RetransmissionEnds(ok)
  PROVE  SenderInv'
<1> DEFINE w == Head(writes)
           t == Tail(writes)
<1>1. /\ Settles(ok)
      /\ w.gen # Initial
      /\ onAir' = FALSE
      /\ UNCHANGED <<submitted, acked, groups, retransmitGeneration,
                     failedSends, cancelled>>
  BY DEF RetransmissionEnds, Settles
<1>2. /\ writes # <<>>
      /\ writes \in Seq(Write)
      /\ w.msg \in Message
      /\ retransmitGeneration \in Nat
      /\ retransmitting \in BOOLEAN
      /\ LoopsMatch(writes, active, retransmitGeneration, retransmitting)
      /\ LoopsWellFormed(t, submitted)
      /\ queued # NoMessage => queued # active /\ NoFrameOf(writes, queued)
  BY <1>1, SettlingFacts
<1>3. /\ w.gen # retransmitGeneration =>
           LoopsMatch(t, active, retransmitGeneration, retransmitting)
      /\ w.gen = retransmitGeneration =>
           /\ retransmitting
           /\ w.msg = active
           /\ LoopsMatch(t, active, retransmitGeneration, FALSE)
      /\ \A m : SomeFrameOf(writes, m) /\ w.msg # m => SomeFrameOf(t, m)
      /\ \A m : NoFrameOf(writes, m) => NoFrameOf(t, m)
  BY <1>1, <1>2, LoopsSettled
<1>4. CASE w.gen # retransmitGeneration
  <2>1. /\ writes' = t
        /\ UNCHANGED <<active, queued, retryCount, retryTimer, retransmitting>>
    BY <1>4 DEF RetransmissionEnds
  <2>2. w.msg # active
    <3>1. 1 \in DOMAIN writes /\ w = writes[1]
      BY <1>2, TailFacts
    <3>2. QED BY <1>1, <1>2, <1>4, <3>1 DEF LoopsMatch
  <2> HIDE DEF w, t
  <2>3. TypeOK'
    BY <1>1, <1>2, <2>1 DEF SenderInv, TypeOK, LoopsWellFormed
  <2>4. SlotsInv'
    BY <1>1, <1>3, <2>1, <2>2 DEF SenderInv, SlotsInv
  <2>5. QED BY <1>1, <1>2, <1>3, <1>4, <2>1, <2>3, <2>4 DEF SenderInv
<1>5. CASE w.gen = retransmitGeneration /\ w.msg \in acked
  <2>1. /\ retransmitting' = FALSE
        /\ PromoteQueued(t, retryCount)
        /\ retryTimer' = retryTimer
    BY <1>5 DEF RetransmissionEnds
  <2> HIDE DEF w, t
  <2>2. /\ retryCount \in [Message -> 0..MAX_RETRIES + 1]
        /\ \A x \in Message \ submitted : retryCount[x] = 0
        /\ queued # NoMessage => NoFrameOf(t, queued)
    BY <1>2, <1>3 DEF SenderInv, TypeOK, SlotsInv
  <2>3. /\ active' = queued
        /\ queued' = NoMessage
        /\ LoopsWellFormed(writes', submitted)
        /\ LoopsMatch(writes', active', retransmitGeneration, FALSE)
        /\ active' # NoMessage => SomeFrameOf(writes', active')
        /\ retryCount' \in [Message -> 0..MAX_RETRIES + 1]
        /\ active' # NoMessage => retryCount'[active'] <= MAX_RETRIES
        /\ \A x \in Message \ submitted : retryCount'[x] = 0
    BY <1>2, <1>3, <1>5, <2>1, <2>2, Promotion
  <2>4. TypeOK'
    BY <1>1, <2>1, <2>3 DEF SenderInv, TypeOK, LoopsWellFormed
  <2>5. SlotsInv'
    BY <1>1, <2>1, <2>3, MessageAssumption DEF SenderInv, SlotsInv, TypeOK
  <2>6. QED BY <1>1, <2>1, <2>3, <2>4, <2>5 DEF SenderInv
<1>6. CASE w.gen = retransmitGeneration /\ w.msg \notin acked
  <2>1. /\ retransmitting' = FALSE
        /\ retryTimer' = (retryTimer \/ active = w.msg)
        /\ writes' = t
        /\ UNCHANGED <<active, queued, retryCount>>
    BY <1>6 DEF RetransmissionEnds
  <2>2. /\ active = w.msg
        /\ retryTimer'
    BY <1>3, <1>6, <2>1
  <2> HIDE DEF w, t
  <2>3. TypeOK'
    BY <1>1, <1>2, <2>1, <2>2 DEF SenderInv, TypeOK, LoopsWellFormed
  <2>4. SlotsInv'
    BY <1>1, <1>3, <1>6, <2>1, <2>2 DEF SenderInv, SlotsInv
  <2>5. QED BY <1>1, <1>2, <1>3, <1>6, <2>1, <2>3, <2>4 DEF SenderInv
<1>7. QED BY <1>4, <1>5, <1>6

(* Every step preserves the invariant.                                     *)
LEMMA NextPreserves == SenderInv /\ [Next]_vars => SenderInv'
<1> SUFFICES ASSUME SenderInv, [Next]_vars PROVE SenderInv'
  OBVIOUS
<1>1. ASSUME NEW m \in Message, Send(m) PROVE SenderInv'
  BY <1>1, SendPreserves
<1>2. ASSUME NEW m \in Message, HandleAck(m) PROVE SenderInv'
  BY <1>2, HandleAckPreserves
<1>3. ASSUME NEW m \in Message, HandleNack(m) PROVE SenderInv'
  BY <1>3, HandleNackPreserves
<1>4. CASE HandleTimeout
  BY <1>4, HandleTimeoutPreserves
<1>5. CASE Cancel
  BY <1>5, CancelPreserves
<1>6. CASE HeadTransmitted
  BY <1>6, HeadTransmittedPreserves
<1>7. ASSUME NEW ok \in BOOLEAN, InitialSettled(ok) PROVE SenderInv'
  BY <1>7, InitialSettledPreserves
<1>8. ASSUME NEW ok \in BOOLEAN, RetransmissionContinues(ok) PROVE SenderInv'
  BY <1>8, RetransmissionContinuesPreserves
<1>9. ASSUME NEW ok \in BOOLEAN, RetransmissionEnds(ok) PROVE SenderInv'
  BY <1>9, RetransmissionEndsPreserves
<1>10. CASE UNCHANGED vars
  BY <1>10 DEF vars, SenderInv, TypeOK, SlotsInv
<1>11. QED
  BY <1>1, <1>2, <1>3, <1>4, <1>5, <1>6, <1>7, <1>8, <1>9, <1>10
  DEF Next, WriteSettled

-----------------------------------------------------------------------------
(* The inductive invariant holds in every reachable state: every loop that *)
(* still writes frames for the peer belongs to a message the manager knows *)
(* of, and to the active one exactly if its generation is current.         *)
THEOREM SenderInvariant == Spec => []SenderInv
<1>1. QED BY InitEstablishes, NextPreserves, PTL DEF Spec

(* Type correctness: no loop reads a payload beyond its message's last     *)
(* fragment, and the active message has not used up its retry budget.      *)
THEOREM TypeCorrect == Spec => []TypeOK
<1>1. SenderInv => TypeOK
  BY DEF SenderInv
<1>2. QED BY <1>1, SenderInvariant, PTL

(* The `retransmitting` flag is up exactly while one live loop carries the *)
(* active message, so a promotion deferred by handleAck is always done.    *)
THEOREM FlagIsTruthful == Spec => []LoopMatchesFlag
<1>1. QED BY SenderInvariant, SenderInvImplies, PTL

(* An acknowledged message keeps the active slot only while a loop still   *)
(* has to notice the acknowledgement.                                      *)
THEOREM AckedLeavesSlot == Spec => []AckedActiveIsDeferred
<1>1. QED BY SenderInvariant, SenderInvImplies, PTL

(* A message waits only behind an active one and has no frame handed over. *)
THEOREM QueueIsOrdered == Spec => []QueuedWaitsBehindActive
<1>1. QED BY SenderInvariant, SenderInvImplies, PTL

(* Unless its initial send threw, the active message has a timer, a loop   *)
(* or a frame of its own pending.                                          *)
THEOREM NoSilentStall == Spec => []ActiveIsDriven
<1>1. QED BY SenderInvariant, SenderInvImplies, PTL

-----------------------------------------------------------------------------
(* What a step hands over last, as RetransmitsOnlyUnackedActive sees it.   *)
FreshFrameIsDue ==
  HandsOver => LET w == writes'[Len(writes')]
               IN  w.gen # Initial => w.msg = active' /\ w.msg \notin acked

(* A step that appends one frame hands that frame over.                    *)
LEMMA LastOfAppend ==
  ASSUME NEW s \in Seq(Write), NEW e \in Write
  PROVE  Append(s, e)[Len(Append(s, e))] = e
  OBVIOUS

(* A promotion hands over the first frame of an initial send, or nothing.  *)
LEMMA PromotionHandsOver ==
  ASSUME SenderInv, NEW ws \in Seq(Write), NEW rc, PromoteQueued(ws, rc),
         ws = writes \/ (writes # <<>> /\ ws = Tail(writes))
  PROVE  FreshFrameIsDue
<1>1. writes \in Seq(Write) /\ queued \in Message \cup {NoMessage}
  BY DEF SenderInv, TypeOK
<1>2. CASE queued = NoMessage
  <2>1. writes' = ws
    BY <1>2 DEF PromoteQueued
  <2>2. writes' = writes \/ Len(writes') < Len(writes)
    BY <1>1, <2>1, TailFacts
  <2>3. writes' \in Seq(Write)
    BY <2>1
  <2>4. Len(writes) \in Nat /\ Len(writes') \in Nat
    BY <1>1, <2>3
  <2>5. ~HandsOver
    BY <2>2, <2>4 DEF HandsOver
  <2>6. QED BY <2>5 DEF FreshFrameIsDue
<1>3. CASE queued # NoMessage
  <2>1. writes' = Append(ws, FirstFrame(queued, Initial))
    BY <1>3 DEF PromoteQueued
  <2>2. FirstFrame(queued, Initial) \in Write /\ FirstFrame(queued, Initial).gen = Initial
    BY <1>1, <1>3, FrameFacts DEF Initial
  <2>3. writes'[Len(writes')].gen = Initial
    BY <2>1, <2>2, LastOfAppend
  <2>4. QED BY <2>3 DEF FreshFrameIsDue
<1>4. QED BY <1>2, <1>3

(* A new loop carries the active message, which is not acknowledged.       *)
LEMMA RetransmitHandsOver ==
  ASSUME SenderInv, active # NoMessage, Retransmit, active' = active
  PROVE  FreshFrameIsDue
<1>1. writes \in Seq(Write) /\ active \in Message /\ retransmitGeneration \in Nat
  BY DEF SenderInv, TypeOK
<1>2. CASE retransmitting
  BY <1>2 DEF Retransmit, FreshFrameIsDue, HandsOver
<1>3. CASE ~retransmitting
  <2> DEFINE e == FirstFrame(active, retransmitGeneration + 1)
  <2>1. writes' = Append(writes, e)
    BY <1>3 DEF Retransmit
  <2>2. e \in Write /\ e.msg = active
    BY <1>1, FrameFacts
  <2>3. active \notin acked
    BY <1>3 DEF SenderInv, SlotsInv
  <2> HIDE DEF e
  <2>4. writes'[Len(writes')] = e
    BY <1>1, <2>1, <2>2, LastOfAppend
  <2>5. QED BY <2>2, <2>3, <2>4 DEF FreshFrameIsDue
<1>4. QED BY <1>2, <1>3

(* A continuation hands over only a frame that is still due.               *)
LEMMA SettlingHandsOver ==
  ASSUME SenderInv, NEW ok \in BOOLEAN,
         InitialSettled(ok) \/ RetransmissionContinues(ok) \/ RetransmissionEnds(ok)
  PROVE  FreshFrameIsDue
<1> DEFINE w == Head(writes)
           e == NextFrame(w)
<1>1. Settles(ok)
  BY DEF InitialSettled, RetransmissionContinues, RetransmissionEnds
<1>2. /\ writes # <<>>
      /\ writes \in Seq(Write)
      /\ w \in Write
      /\ w.part <= Fragments[w.msg]
      /\ LoopsMatch(writes, active, retransmitGeneration, retransmitting)
  BY <1>1, SettlingFacts
<1>3. /\ Tail(writes) \in Seq(Write)
      /\ w = writes[1] /\ 1 \in DOMAIN writes
      /\ Len(Tail(writes)) < Len(writes)
      /\ Len(writes) \in Nat /\ Len(Tail(writes)) \in Nat
  BY <1>2, TailFacts
<1>4. ASSUME writes' = Tail(writes) PROVE FreshFrameIsDue
  <2>1. ~(Len(writes') >= Len(writes))
    BY <1>3, <1>4
  <2>2. QED BY <2>1 DEF FreshFrameIsDue, HandsOver
<1>5. ASSUME ~IsLastFrame(w), writes' = Append(Tail(writes), e)
      PROVE  writes'[Len(writes')].gen = w.gen /\ writes'[Len(writes')].msg = w.msg
  <2>1. e \in Write /\ e.gen = w.gen /\ e.msg = w.msg
    BY <1>2, <1>5, NextFrameFacts
  <2> HIDE DEF e
  <2>2. writes'[Len(writes')] = e
    BY <1>3, <1>5, <2>1, LastOfAppend
  <2>3. QED BY <2>1, <2>2
<1>6. CASE InitialSettled(ok)
  <2>1. w.gen = Initial
    BY <1>6 DEF InitialSettled
  <2>2. CASE ok /\ ~IsLastFrame(w)
    <3>1. writes' = Append(Tail(writes), e)
      BY <1>6, <2>2 DEF InitialSettled
    <3>2. QED BY <1>5, <2>1, <2>2, <3>1 DEF FreshFrameIsDue
  <2>3. CASE ~(ok /\ ~IsLastFrame(w))
    BY <1>4, <1>6, <2>3 DEF InitialSettled
  <2>4. QED BY <2>2, <2>3
<1>7. CASE RetransmissionContinues(ok)
  <2>1. /\ w.gen # Initial /\ w.gen = retransmitGeneration
        /\ w.msg \notin acked /\ ~IsLastFrame(w)
        /\ writes' = Append(Tail(writes), e)
        /\ active' = active
    BY <1>7 DEF RetransmissionContinues, LoopGoesOn
  <2>2. w.msg = active
    BY <1>2, <1>3, <2>1 DEF LoopsMatch
  <2>3. QED BY <1>5, <2>1, <2>2 DEF FreshFrameIsDue
<1>8. CASE RetransmissionEnds(ok)
  <2>1. CASE PromoteQueued(Tail(writes), retryCount)
    BY <1>2, <1>3, <2>1, PromotionHandsOver
  <2>2. CASE writes' = Tail(writes)
    BY <1>4, <2>2
  <2>3. QED BY <1>8, <2>1, <2>2 DEF RetransmissionEnds
<1>9. QED BY <1>6, <1>7, <1>8

(* No step hands over a retransmission that is not due.                    *)
LEMMA NextHandsOver == SenderInv /\ [Next]_vars => [FreshFrameIsDue]_vars
<1> SUFFICES ASSUME SenderInv, Next PROVE FreshFrameIsDue
  BY DEF vars
<1>1. writes \in Seq(Write)
  BY DEF SenderInv, TypeOK
<1>2. ASSUME NEW m \in Message, Send(m) PROVE FreshFrameIsDue
  <2>1. CASE active = NoMessage
    <3>1. writes' = Append(writes, FirstFrame(m, Initial))
      BY <1>2, <2>1 DEF Send
    <3>2. FirstFrame(m, Initial) \in Write /\ FirstFrame(m, Initial).gen = Initial
      BY FrameFacts DEF Initial
    <3>3. writes'[Len(writes')].gen = Initial
      BY <1>1, <3>1, <3>2, LastOfAppend
    <3>4. QED BY <3>3 DEF FreshFrameIsDue
  <2>2. CASE active # NoMessage
    BY <1>2, <2>2 DEF Send, FreshFrameIsDue, HandsOver
  <2>3. QED BY <2>1, <2>2
<1>3. ASSUME NEW m \in Message, HandleAck(m) PROVE FreshFrameIsDue
  <2>1. CASE PromoteQueued(writes, retryCount)
    BY <1>1, <2>1, PromotionHandsOver
  <2>2. CASE writes' = writes
    BY <2>2 DEF FreshFrameIsDue, HandsOver
  <2>3. QED
    BY <1>3, <2>1, <2>2
    DEF HandleAck, HandleAckActive, HandleAckQueued, HandleAckUnknown, vars
<1>4. ASSUME NEW rc, GiveUp(rc) PROVE FreshFrameIsDue
  BY <1>1, <1>4, PromotionHandsOver DEF GiveUp
<1>5. ASSUME NEW m \in Message, HandleNack(m) PROVE FreshFrameIsDue
  <2>1. active # NoMessage
    BY <1>5, MessageAssumption DEF HandleNack
  <2>2. (\E rc : GiveUp(rc)) \/ (Retransmit /\ active' = active)
    BY <1>5 DEF HandleNack
  <2>3. QED BY <1>4, <2>1, <2>2, RetransmitHandsOver
<1>6. CASE HandleTimeout
  <2>1. CASE active = NoMessage
    BY <1>6, <2>1 DEF HandleTimeout, FreshFrameIsDue, HandsOver
  <2>2. CASE active # NoMessage
    <3>1. (\E rc : GiveUp(rc)) \/ (Retransmit /\ active' = active)
      BY <1>6, <2>2 DEF HandleTimeout
    <3>2. QED BY <1>4, <2>2, <3>1, RetransmitHandsOver
  <2>3. QED BY <2>1, <2>2
<1>7. CASE Cancel \/ HeadTransmitted
  BY <1>7 DEF Cancel, HeadTransmitted, FreshFrameIsDue, HandsOver
<1>8. CASE WriteSettled
  BY <1>8, SettlingHandsOver DEF WriteSettled
<1>9. QED BY <1>2, <1>3, <1>5, <1>6, <1>7, <1>8 DEF Next

(* A loop made stale by MAX_RETRIES or a disconnect, or overtaken by an    *)
(* ACK, never hands another frame to the native layer.                     *)
THEOREM StaleLoopsAreSilent == Spec => RetransmitsOnlyUnackedActive
<1>1. [FreshFrameIsDue]_vars =>
        [HandsOver =>
           LET w == writes'[Len(writes')]
           IN  w.gen # Initial => w.msg = active' /\ w.msg \notin acked]_vars
  BY DEF FreshFrameIsDue
<1>2. QED
  BY <1>1, SenderInvariant, NextHandsOver, PTL DEF Spec, RetransmitsOnlyUnackedActive
-----------------------------------------------------------------------------
(* The retry budget.  A message that has left both slots for good has cost *)
(* at most MAX_RETRIES + 1 generations, the active one as many as its retry *)
(* count says, and a disconnect one more; a message given to send() has     *)
(* cost nothing before it becomes active.                                   *)

Retired(sub, a, q) == sub \ {a, q}

Charge(a, rc) == IF a = NoMessage THEN 0 ELSE rc[a]

Flag(b) == IF b THEN 1 ELSE 0

Budget(n) == (MAX_RETRIES + 1) * n

BudgetInv ==
  /\ IsFiniteSet(submitted)
  /\ retransmitGeneration <=
       Budget(Cardinality(Retired(submitted, active, queued)))
         + Charge(active, retryCount) + Flag(cancelled)

(* The budget is monotonic, and linear.                                    *)
LEMMA BudgetFacts ==
  /\ \A n \in Nat : Budget(n) \in Nat /\ Budget(n + 1) = Budget(n) + MAX_RETRIES + 1
  /\ \A n, k \in Nat : n <= k => Budget(n) <= Budget(k)
<1>1. MAX_RETRIES + 1 \in Nat
  BY RetriesAssumption
<1>2. \A r \in Nat : /\ \A n \in Nat : r * n \in Nat /\ r * (n + 1) = r * n + r
                     /\ \A n, k \in Nat : n <= k => r * n <= r * k
  OBVIOUS
<1> QED BY <1>1, <1>2, RetriesAssumption DEF Budget

(* The sets of retired messages are finite, and a larger one costs more.   *)
LEMMA RetiredCost ==
  ASSUME NEW s, IsFiniteSet(s), NEW t, IsFiniteSet(t), s \subseteq t
  PROVE  /\ Cardinality(s) \in Nat /\ Cardinality(t) \in Nat
         /\ Budget(Cardinality(s)) \in Nat /\ Budget(Cardinality(t)) \in Nat
         /\ Budget(Cardinality(s)) <= Budget(Cardinality(t))
         /\ \A m \in t : m \notin s =>
              Budget(Cardinality(s)) + MAX_RETRIES + 1 <= Budget(Cardinality(t))
<1>1. Cardinality(s) \in Nat /\ Cardinality(t) \in Nat /\ Cardinality(s) <= Cardinality(t)
  BY FS_CardinalityType, FS_Subset
<1>2. ASSUME NEW m \in t, m \notin s
      PROVE  Budget(Cardinality(s)) + MAX_RETRIES + 1 <= Budget(Cardinality(t))
  <2>1. IsFiniteSet(s \cup {m}) /\ Cardinality(s \cup {m}) = Cardinality(s) + 1
    BY <1>2, FS_AddElement
  <2>2. Cardinality(s \cup {m}) <= Cardinality(t)
    BY <1>2, <2>1, FS_Subset
  <2>3. Budget(Cardinality(s) + 1) <= Budget(Cardinality(t))
    BY <1>1, <2>1, <2>2, BudgetFacts
  <2> QED BY <1>1, <2>3, BudgetFacts
<1> QED BY <1>1, <1>2, BudgetFacts

(* The active message's retries are within the limit.                      *)
LEMMA ChargeFacts ==
  ASSUME TypeOK
  PROVE  /\ Charge(active, retryCount) \in Nat
         /\ Charge(active, retryCount) <= MAX_RETRIES
BY RetriesAssumption DEF TypeOK, Charge

(* What all steps that keep the active message have in common: they charge *)
(* it for the generations they use.                                        *)
LEMMA BudgetCharged ==
  ASSUME SenderInv, SenderInv', BudgetInv, IsFiniteSet(submitted'),
         Retired(submitted, active, queued) \subseteq Retired(submitted', active', queued'),
         retransmitGeneration' - retransmitGeneration
           <= Charge(active', retryCount') - Charge(active, retryCount)
                + Flag(cancelled') - Flag(cancelled)
  PROVE  BudgetInv'
<1> DEFINE s == Retired(submitted, active, queued)
           t == Retired(submitted', active', queued')
<1>1. IsFiniteSet(s) /\ IsFiniteSet(t)
  BY FS_Subset DEF BudgetInv, Retired
<1>2. Budget(Cardinality(s)) \in Nat /\ Budget(Cardinality(t)) \in Nat
      /\ Budget(Cardinality(s)) <= Budget(Cardinality(t))
  BY <1>1, RetiredCost
<1>3. /\ Charge(active, retryCount) \in Nat /\ Charge(active', retryCount') \in Nat
      /\ retransmitGeneration \in Nat /\ retransmitGeneration' \in Nat
      /\ Flag(cancelled) \in Nat /\ Flag(cancelled') \in Nat
  BY RetriesAssumption DEF SenderInv, TypeOK, Charge, Flag
<1>4. retransmitGeneration <=
        Budget(Cardinality(s)) + Charge(active, retryCount) + Flag(cancelled)
  BY DEF BudgetInv
<1> HIDE DEF s, t
<1>5. retransmitGeneration' <=
        Budget(Cardinality(t)) + Charge(active', retryCount') + Flag(cancelled')
  BY <1>2, <1>3, <1>4
<1> QED BY <1>5 DEF BudgetInv, t

(* The active message leaves its slot: it has paid, and becomes retired.   *)
LEMMA BudgetRetired ==
  ASSUME SenderInv, SenderInv', BudgetInv, submitted' = submitted,
         active # NoMessage, {active', queued'} \subseteq {queued, NoMessage},
         retransmitGeneration' \in {retransmitGeneration, retransmitGeneration + 1}, Flag(cancelled) <= Flag(cancelled')
  PROVE  BudgetInv'
<1> DEFINE s == Retired(submitted, active, queued)
           t == Retired(submitted', active', queued')
<1>0. active \in submitted /\ queued # active /\ NoMessage \notin submitted
  BY MessageAssumption DEF SenderInv, SlotsInv, TypeOK
<1>1. IsFiniteSet(s) /\ IsFiniteSet(t) /\ s \subseteq t /\ active \in t /\ active \notin s
  BY <1>0, FS_Subset DEF BudgetInv, Retired
<1>2. Budget(Cardinality(s)) \in Nat /\ Budget(Cardinality(t)) \in Nat
      /\ Budget(Cardinality(s)) + MAX_RETRIES + 1 <= Budget(Cardinality(t))
  BY <1>1, RetiredCost
<1>3. /\ Charge(active, retryCount) \in Nat /\ Charge(active, retryCount) <= MAX_RETRIES
      /\ Charge(active', retryCount') \in Nat
      /\ retransmitGeneration \in Nat /\ retransmitGeneration' \in Nat
      /\ Flag(cancelled) \in Nat /\ Flag(cancelled') \in Nat
  BY RetriesAssumption DEF SenderInv, TypeOK, Charge, Flag
<1>4. retransmitGeneration <=
        Budget(Cardinality(s)) + Charge(active, retryCount) + Flag(cancelled)
  BY DEF BudgetInv
<1> HIDE DEF s, t
<1>5. retransmitGeneration' <=
        Budget(Cardinality(t)) + Charge(active', retryCount') + Flag(cancelled')
  <2>1. retransmitGeneration' = retransmitGeneration \/ retransmitGeneration' = retransmitGeneration + 1
    OBVIOUS
  <2>2. MAX_RETRIES \in Nat
    BY RetriesAssumption
  <2>3. retransmitGeneration + 1 <= Budget(Cardinality(s)) + MAX_RETRIES + 1 + Flag(cancelled)
    BY <1>2, <1>3, <1>4, <2>2
  <2>4. retransmitGeneration + 1 <= Budget(Cardinality(t)) + Flag(cancelled')
    BY <1>2, <1>3, <2>2, <2>3
  <2> QED BY <1>2, <1>3, <2>1, <2>4
<1> QED BY <1>1, <1>5 DEF BudgetInv, t

(* A retry is charged to the active message and starts at most one loop.   *)
LEMMA BudgetNack ==
  ASSUME SenderInv, SenderInv', BudgetInv, NEW m \in Message, active = m,
         retryCount[m] + 1 <= MAX_RETRIES, retryCount' = [retryCount EXCEPT ![m] = @ + 1],
         Retransmit, UNCHANGED <<submitted, active, queued, cancelled>>
  PROVE  BudgetInv'
<1>1. m # NoMessage /\ Charge(active', retryCount') = Charge(active, retryCount) + 1
  <2>1. m # NoMessage /\ active' = m
    BY MessageAssumption
  <2>2. Charge(active, retryCount) = retryCount[m] /\ Charge(active', retryCount') = retryCount'[m]
    BY <2>1 DEF Charge
  <2>3. retryCount'[m] = retryCount[m] + 1
    BY DEF SenderInv, TypeOK
  <2> QED BY <2>1, <2>2, <2>3
<1>2. /\ retransmitGeneration' = retransmitGeneration \/ retransmitGeneration' = retransmitGeneration + 1
      /\ cancelled' = cancelled
  BY DEF Retransmit
<1>3. /\ Charge(active, retryCount) \in Nat
      /\ retransmitGeneration \in Nat /\ retransmitGeneration' \in Nat
      /\ Flag(cancelled) \in Nat /\ Flag(cancelled') \in Nat
  BY RetriesAssumption DEF SenderInv, TypeOK, Charge, Flag
<1>4. retransmitGeneration' - retransmitGeneration
           <= Charge(active', retryCount') - Charge(active, retryCount)
                + Flag(cancelled') - Flag(cancelled)
  <2>1. CASE retransmitGeneration' = retransmitGeneration
    BY <1>1, <1>2, <1>3, <2>1
  <2>2. CASE retransmitGeneration' = retransmitGeneration + 1
    BY <1>1, <1>2, <1>3, <2>2
  <2> QED BY <1>2, <2>1, <2>2
<1> QED BY <1>4, BudgetCharged DEF BudgetInv

(* Every step pays for the generation it uses.                             *)
LEMMA BudgetStep == SenderInv /\ BudgetInv /\ [Next]_vars => BudgetInv'
<1> SUFFICES ASSUME SenderInv, BudgetInv, [Next]_vars PROVE BudgetInv'
  OBVIOUS
<1>0. SenderInv'
  BY NextPreserves
<1>a. /\ retransmitGeneration \in Nat /\ retransmitGeneration' \in Nat
      /\ Flag(cancelled) \in Nat /\ Flag(cancelled') \in Nat
      /\ IsFiniteSet(submitted)
      /\ queued # NoMessage => active # NoMessage
      /\ active # NoMessage => active \in Message
  BY <1>0 DEF SenderInv, TypeOK, Flag, BudgetInv, SlotsInv
<1>b. Charge(active, retryCount) \in Nat
  BY ChargeFacts DEF SenderInv
<1>1. ASSUME NEW m \in Message, Send(m) PROVE BudgetInv'
  <2>0. m \notin submitted /\ m # NoMessage /\ submitted' = submitted \cup {m}
        /\ UNCHANGED <<retryCount, retransmitGeneration, cancelled>>
    BY <1>1, MessageAssumption DEF Send
  <2>1. IsFiniteSet(submitted')
    BY <1>a, <2>0, FS_AddElement
  <2>2. CASE active = NoMessage
    <3>1. active' = m /\ queued' = queued /\ queued = NoMessage
      BY <1>1, <1>a, <2>2 DEF Send
    <3>2. Retired(submitted, active, queued) \subseteq Retired(submitted', active', queued')
      BY <2>0, <3>1 DEF Retired
    <3>3. Charge(active, retryCount) = 0 /\ Charge(active', retryCount') = 0
      BY <2>0, <2>2, <3>1 DEF Charge, SenderInv, SlotsInv
    <3>4. retransmitGeneration' - retransmitGeneration
            <= Charge(active', retryCount') - Charge(active, retryCount)
                 + Flag(cancelled') - Flag(cancelled)
      BY <1>a, <2>0, <3>3
    <3> QED BY <1>0, <2>1, <3>2, <3>4, BudgetCharged
  <2>3. CASE active # NoMessage
    <3>1. active' = active /\ queued' = m
      BY <1>1, <2>3 DEF Send
    <3>2. Retired(submitted, active, queued) \subseteq Retired(submitted', active', queued')
      BY <2>0, <3>1 DEF Retired
    <3>3. retransmitGeneration' - retransmitGeneration
            <= Charge(active', retryCount') - Charge(active, retryCount)
                 + Flag(cancelled') - Flag(cancelled)
      BY <1>a, <1>b, <2>0, <3>1
    <3> QED BY <1>0, <2>1, <3>2, <3>3, BudgetCharged
  <2> QED BY <2>2, <2>3
<1>2. CASE /\ UNCHANGED <<submitted, active, retransmitGeneration, retryCount, cancelled>>
           /\ queued' \in {queued, NoMessage}
  <2>1. Retired(submitted, active, queued) \subseteq Retired(submitted', active', queued')
    BY <1>2, MessageAssumption DEF Retired, SenderInv, TypeOK
  <2>2. retransmitGeneration' - retransmitGeneration
          <= Charge(active', retryCount') - Charge(active, retryCount)
               + Flag(cancelled') - Flag(cancelled)
    BY <1>a, <1>b, <1>2
  <2> QED BY <1>0, <1>a, <1>2, <2>1, <2>2, BudgetCharged
<1>3. ASSUME NEW ws, PromoteQueued(ws, retryCount),
             UNCHANGED <<submitted, retransmitGeneration, cancelled>>
      PROVE  BudgetInv'
  <2>1. CASE active # NoMessage
    BY <1>0, <1>a, <1>3, <2>1, BudgetRetired DEF PromoteQueued
  <2>2. CASE active = NoMessage
    BY <1>a, <1>2, <1>3, <2>2 DEF PromoteQueued
  <2> QED BY <2>1, <2>2
<1>4. ASSUME NEW rc, GiveUp(rc), active # NoMessage, UNCHANGED <<submitted, cancelled>>
      PROVE  BudgetInv'
  BY <1>0, <1>a, <1>4, BudgetRetired DEF GiveUp, PromoteQueued
<1>5. ASSUME NEW m \in Message, HandleAck(m) PROVE BudgetInv'
  <2>1. CASE HandleAckActive(m)
    BY <1>2, <1>3, <2>1 DEF HandleAckActive
  <2>2. CASE HandleAckQueued(m) \/ HandleAckUnknown(m)
    BY <1>2, <2>2 DEF HandleAckQueued, HandleAckUnknown, vars
  <2> QED BY <1>5, <2>1, <2>2 DEF HandleAck
<1>6. ASSUME NEW m \in Message, HandleNack(m) PROVE BudgetInv'
  <2> DEFINE rc == [retryCount EXCEPT ![m] = @ + 1]
  <2>0. /\ active = m /\ m # NoMessage /\ rc[m] = retryCount[m] + 1 /\ retryCount[m] \in Nat
        /\ UNCHANGED <<submitted, cancelled>>
    BY <1>6, MessageAssumption DEF HandleNack, SenderInv, TypeOK
  <2>1. CASE rc[m] > MAX_RETRIES
    <3>1. GiveUp(rc)
      BY <1>6, <2>1 DEF HandleNack
    <3> QED BY <1>4, <2>0, <3>1
  <2>2. CASE ~(rc[m] > MAX_RETRIES)
    <3>1. retryCount' = rc /\ Retransmit /\ UNCHANGED <<active, queued>>
      BY <1>6, <2>2 DEF HandleNack
    <3>2. retryCount[m] + 1 <= MAX_RETRIES
      BY <2>0, <2>2, RetriesAssumption
    <3> QED BY <1>0, <2>0, <3>1, <3>2, BudgetNack
  <2> QED BY <2>1, <2>2
<1>7. CASE HandleTimeout
  <2>0. UNCHANGED <<submitted, cancelled>>
    BY <1>7 DEF HandleTimeout
  <2>1. CASE active = NoMessage
    BY <1>2, <1>7, <2>0, <2>1 DEF HandleTimeout
  <2>2. CASE active # NoMessage
    <3> DEFINE rc == [retryCount EXCEPT ![active] = @ + 1]
    <3>0. active \in Message /\ rc[active] = retryCount[active] + 1 /\ retryCount[active] \in Nat
      BY <1>a, <2>2 DEF SenderInv, TypeOK
    <3>1. CASE rc[active] > MAX_RETRIES
      <4>1. GiveUp(rc)
        BY <1>7, <2>2, <3>1 DEF HandleTimeout
      <4> QED BY <1>4, <2>0, <2>2, <4>1
    <3>2. CASE ~(rc[active] > MAX_RETRIES)
      <4>1. retryCount' = rc /\ Retransmit /\ UNCHANGED <<active, queued>>
        BY <1>7, <2>2, <3>2 DEF HandleTimeout
      <4>2. retryCount[active] + 1 <= MAX_RETRIES
        BY <3>0, <3>2, RetriesAssumption
      <4> QED BY <1>0, <2>0, <3>0, <4>1, <4>2, BudgetNack
    <3> QED BY <3>1, <3>2
  <2> QED BY <2>1, <2>2
<1>8. CASE Cancel
  <2>0. /\ submitted' = submitted /\ active' = NoMessage /\ queued' = NoMessage
        /\ retransmitGeneration' = retransmitGeneration + 1
        /\ Flag(cancelled) = 0 /\ Flag(cancelled') = 1
    BY <1>8 DEF Cancel, Flag
  <2>1. CASE active # NoMessage
    BY <1>0, <1>a, <2>0, <2>1, BudgetRetired
  <2>2. CASE active = NoMessage
    <3>1. Charge(active, retryCount) = 0 /\ Charge(active', retryCount') = 0
      BY <2>0, <2>2 DEF Charge
    <3>2. Retired(submitted, active, queued) \subseteq Retired(submitted', active', queued')
      BY <1>a, <2>0, <2>2 DEF Retired
    <3>3. retransmitGeneration' - retransmitGeneration
            <= Charge(active', retryCount') - Charge(active, retryCount)
                 + Flag(cancelled') - Flag(cancelled)
      BY <1>a, <2>0, <3>1
    <3> QED BY <1>0, <1>a, <2>0, <3>2, <3>3, BudgetCharged
  <2> QED BY <2>1, <2>2
<1>9. CASE WriteSettled
  <2>1. PICK ok \in BOOLEAN : InitialSettled(ok) \/ RetransmissionContinues(ok) \/ RetransmissionEnds(ok)
    BY <1>9 DEF WriteSettled
  <2>2. CASE InitialSettled(ok) \/ RetransmissionContinues(ok)
    BY <1>2, <2>2 DEF InitialSettled, RetransmissionContinues
  <2>3. CASE RetransmissionEnds(ok)
    <3>1. UNCHANGED <<submitted, retransmitGeneration, cancelled>>
      BY <2>3 DEF RetransmissionEnds
    <3>2. \/ PromoteQueued(Tail(writes), retryCount)
          \/ UNCHANGED <<active, queued, retryCount>>
      BY <2>3 DEF RetransmissionEnds
    <3> QED BY <1>2, <1>3, <3>1, <3>2
  <2> QED BY <2>1, <2>2, <2>3
<1>10. CASE HeadTransmitted \/ UNCHANGED vars
  BY <1>2, <1>10 DEF HeadTransmitted, vars
<1> QED BY <1>1, <1>5, <1>6, <1>7, <1>8, <1>9, <1>10 DEF Next

(* However NACKs, timeouts, ACKs and disconnects interleave, every message *)
(* pays for at most MAX_RETRIES retransmission loops and one give-up.      *)
THEOREM RetransmissionsAlwaysBounded == Spec => []RetransmissionsAreBounded
<1>1. Init => BudgetInv
  <2> SUFFICES ASSUME Init PROVE BudgetInv
    OBVIOUS
  <2>1. IsFiniteSet({}) /\ Cardinality({}) = 0 /\ Budget(0) \in Nat
    BY FS_EmptySet, BudgetFacts
  <2>2. Retired(submitted, active, queued) = {}
    BY DEF Init, Retired
  <2>3. Charge(active, retryCount) = 0 /\ Flag(cancelled) = 0 /\ retransmitGeneration = 0
    BY DEF Init, Charge, Flag
  <2>4. submitted = {}
    BY DEF Init
  <2> QED BY <2>1, <2>2, <2>3, <2>4 DEF BudgetInv
<1>2. SenderInv /\ BudgetInv => RetransmissionsAreBounded
  <2> SUFFICES ASSUME SenderInv, BudgetInv PROVE RetransmissionsAreBounded
    OBVIOUS
  <2> DEFINE s == Retired(submitted, active, queued)
  <2>1. IsFiniteSet(s) /\ IsFiniteSet(submitted) /\ s \subseteq submitted
    BY FS_Subset DEF BudgetInv, Retired
  <2>2. /\ Budget(Cardinality(s)) \in Nat /\ Budget(Cardinality(submitted)) \in Nat
        /\ Budget(Cardinality(s)) <= Budget(Cardinality(submitted))
        /\ \A m \in submitted : m \notin s =>
             Budget(Cardinality(s)) + MAX_RETRIES + 1 <= Budget(Cardinality(submitted))
    BY <2>1, RetiredCost
  <2>3. /\ retransmitGeneration <=
             Budget(Cardinality(s)) + Charge(active, retryCount) + Flag(cancelled)
        /\ retransmitGeneration \in Nat /\ Flag(cancelled) \in {0, 1}
        /\ Charge(active, retryCount) \in Nat /\ Charge(active, retryCount) <= MAX_RETRIES
    BY ChargeFacts DEF BudgetInv, SenderInv, TypeOK, Flag
  <2>4. /\ active = NoMessage => Charge(active, retryCount) = 0
        /\ active # NoMessage => active \in submitted /\ active \notin s
    BY DEF SenderInv, SlotsInv, Retired, Charge
  <2> HIDE DEF s
  <2>5. retransmitGeneration <= Budget(Cardinality(submitted)) + 1
    <3>1. CASE active = NoMessage
      BY <2>2, <2>3, <2>4, <3>1
    <3>2. CASE active # NoMessage
      BY <2>2, <2>3, <2>4, <3>2, RetriesAssumption
    <3> QED BY <3>1, <3>2
  <2> QED BY <2>5 DEF RetransmissionsAreBounded, Budget
<1>3. SenderInv /\ BudgetInv /\ [Next]_vars => BudgetInv'
  BY BudgetStep
<1> QED BY <1>1, <1>2, <1>3, SenderInvariant, PTL DEF Spec

-----------------------------------------------------------------------------
(* The link.                                                               *)

(* The invariant, in parts.  A part that speaks of the native queue takes  *)
(* it as the parameter ws, because handlers change it in several ways; p   *)
(* ranks the submitted messages, a is the active one, spk the set of       *)
(* spoken messages, gs the reassembly groups and air is onAir.             *)

Unfinished(w) == w.gen = Initial /\ ~IsLastFrame(w)

(* Frames are queued in the order of their messages, none is newer than    *)
(* the active message, and an initial loop with frames still to send       *)
(* belongs to the newest message that has a frame in the queue.            *)
InOrder(ws, p) ==
  \A i, j \in DOMAIN ws : i < j => p[ws[i].msg] <= p[ws[j].msg]

UpToActive(ws, p, a) ==
  a # NoMessage => \A i \in DOMAIN ws : p[ws[i].msg] <= p[a]

TipIsNewest(ws, p) ==
  \A i, j \in DOMAIN ws : Unfinished(ws[i]) => p[ws[j].msg] <= p[ws[i].msg]

(* A message has one initial loop, and the retransmitted copies in the     *)
(* queue never overtake it.                                                *)
OneInitialLoop(ws) ==
  \A i, j \in DOMAIN ws :
    ws[i].gen = Initial /\ ws[j].gen = Initial /\ ws[i].msg = ws[j].msg => i = j

CopiesTrail(ws) ==
  \A i, j \in DOMAIN ws :
    ws[i].gen = Initial /\ ws[j].gen # Initial /\ ws[i].msg = ws[j].msg =>
      /\ ws[j].part <= ws[i].part
      /\ j < i => ws[j].part < ws[i].part

(* Nothing older than a spoken message is left in the queue, and of a      *)
(* spoken message the initial loop has at most its last frame left, which  *)
(* has already gone out.                                                   *)
SpokenFirst(ws, p, spk) ==
  \A s \in spk, i \in DOMAIN ws : p[s] <= p[ws[i].msg]

SpokenWasWritten(ws, spk, air) ==
  \A i \in DOMAIN ws :
    ws[i].gen = Initial /\ ws[i].msg \in spk => i = 1 /\ air /\ IsLastFrame(ws[i])

(* What the receiver has collected of a message went out before the frame  *)
(* its initial loop is writing, or is that frame.                          *)
PartsWereSent(ws, gs, air) ==
  \A k \in DOMAIN gs, i \in DOMAIN ws :
    ws[i].gen = Initial /\ ws[i].msg = gs[k].msg =>
      \A q \in gs[k].parts : q < ws[i].part \/ (q = ws[i].part /\ i = 1 /\ air)

QueueOrder(ws, p, a) ==
  /\ InOrder(ws, p)
  /\ UpToActive(ws, p, a)
  /\ TipIsNewest(ws, p)
  /\ OneInitialLoop(ws)
  /\ CopiesTrail(ws)

QueueVersusPeer(ws, p, spk, gs, air) ==
  /\ SpokenFirst(ws, p, spk)
  /\ SpokenWasWritten(ws, spk, air)
  /\ PartsWereSent(ws, gs, air)

(* While the initial loop of the active message runs, each retry it has    *)
(* paid for is matched by a frame of that loop: between two retries the    *)
(* copy's frames queue behind it.                                          *)
RetriesTrail(ws, a, rc, timer, rt) ==
  a # NoMessage =>
    \A i \in DOMAIN ws : ws[i].gen = Initial /\ ws[i].msg = a =>
      /\ rc[a] <= ws[i].part
      /\ timer => rc[a] + 1 <= ws[i].part /\ ~rt
      /\ \A j \in DOMAIN ws :
           ws[j].gen # Initial /\ ws[j].msg = a /\ j < i => rc[a] + 1 <= ws[i].part

(* An initial loop can outlive its message's turn by one frame; until that *)
(* frame settles the new active message has not been retried.              *)
OneStraggler(ws, a, rc, timer, rt) ==
  \A i \in DOMAIN ws : ws[i].gen = Initial /\ ws[i].msg # a =>
    /\ ~timer /\ ~rt
    /\ a # NoMessage => rc[a] = 0
    /\ \A j \in DOMAIN ws : ws[j].gen = Initial /\ ws[j].msg # a => i = j

TipIsActive(ws, a) == \A i \in DOMAIN ws : Unfinished(ws[i]) => ws[i].msg = a

LoopsInTurn(ws, a, rc, timer, rt) ==
  /\ TipIsActive(ws, a)
  /\ RetriesTrail(ws, a, rc, timer, rt)
  /\ OneStraggler(ws, a, rc, timer, rt)

-----------------------------------------------------------------------------
(* The parts in a queue of writes are numbered from one.                   *)
LEMMA PartFacts ==
  ASSUME NEW s \in Seq(Write)
  PROVE  \A i \in DOMAIN s : s[i].part \in Nat \ {0}
<1>1. \A i \in DOMAIN s : s[i] \in Write
  OBVIOUS
<1>2. \A w \in Write : w.part \in Nat \ {0}
  BY DEF Write
<1> QED BY <1>1, <1>2

(* The four ways a step changes the native queue.                          *)

(* The initial loop of a message that was never written starts.            *)
LEMMA PushFirst ==
  ASSUME NEW ws \in Seq(Write), NEW p, NEW a, NEW spk, NEW gs, NEW air, NEW m \in Message,
         QueueOrder(ws, p, a), QueueVersusPeer(ws, p, spk, gs, air),
         NoFrameOf(ws, m), m \notin spk, \A k \in DOMAIN gs : gs[k].msg # m,
         \A i \in DOMAIN ws : p[ws[i].msg] <= p[m] /\ ~Unfinished(ws[i]),
         p[m] \in Nat, \A s \in spk : p[s] <= p[m]
  PROVE  /\ QueueOrder(Append(ws, FirstFrame(m, Initial)), p, m)
         /\ QueueVersusPeer(Append(ws, FirstFrame(m, Initial)), p, spk, gs, air)
<1> DEFINE e == FirstFrame(m, Initial)
           n == Len(ws)
           r == Append(ws, e)
<1>1. e \in Write /\ e.msg = m /\ e.gen = Initial /\ e.part = 1
  BY FrameFacts DEF Initial
<1>2. /\ n \in Nat
      /\ DOMAIN ws = 1..n
      /\ DOMAIN r = 1..(n + 1)
      /\ \A i \in 1..n : r[i] = ws[i]
      /\ r[n + 1] = e
  BY <1>1, AppendFacts
<1> HIDE DEF e, n, r
<1>3. \A i \in DOMAIN r : i \in DOMAIN ws \/ i = n + 1
  BY <1>2
<1>4. \A i \in DOMAIN ws : r[i] = ws[i] /\ i \in DOMAIN r /\ i < n + 1
  BY <1>2
<1>5. QueueOrder(r, p, m)
  <2>1. InOrder(r, p)
    BY <1>1, <1>2, <1>3, <1>4 DEF QueueOrder, InOrder
  <2>2. UpToActive(r, p, m)
    BY <1>1, <1>2, <1>3, <1>4 DEF UpToActive
  <2>3. TipIsNewest(r, p)
    BY <1>1, <1>2, <1>3, <1>4 DEF TipIsNewest
  <2>4. OneInitialLoop(r)
    BY <1>1, <1>2, <1>3, <1>4 DEF QueueOrder, OneInitialLoop, NoFrameOf
  <2>5. CopiesTrail(r)
    BY <1>1, <1>2, <1>3, <1>4 DEF QueueOrder, CopiesTrail, NoFrameOf
  <2> QED BY <2>1, <2>2, <2>3, <2>4, <2>5 DEF QueueOrder
<1>6. QueueVersusPeer(r, p, spk, gs, air)
  <2>1. SpokenFirst(r, p, spk)
    BY <1>1, <1>2, <1>3, <1>4 DEF QueueVersusPeer, SpokenFirst
  <2>2. SpokenWasWritten(r, spk, air)
    BY <1>1, <1>2, <1>3, <1>4 DEF QueueVersusPeer, SpokenWasWritten
  <2>3. PartsWereSent(r, gs, air)
    BY <1>1, <1>2, <1>3, <1>4 DEF QueueVersusPeer, PartsWereSent
  <2> QED BY <2>1, <2>2, <2>3 DEF QueueVersusPeer
<1> QED BY <1>5, <1>6 DEF r, e

(* A retransmission loop of the active message starts.                     *)
LEMMA PushCopy ==
  ASSUME NEW ws \in Seq(Write), NEW p, NEW a \in Message, NEW spk, NEW gs, NEW air,
         NEW g \in Nat \ {0},
         QueueOrder(ws, p, a), QueueVersusPeer(ws, p, spk, gs, air),
         TipIsActive(ws, a), p[a] \in Nat, \A s \in spk : p[s] <= p[a]
  PROVE  /\ QueueOrder(Append(ws, FirstFrame(a, g)), p, a)
         /\ QueueVersusPeer(Append(ws, FirstFrame(a, g)), p, spk, gs, air)
<1> DEFINE e == FirstFrame(a, g)
           n == Len(ws)
           r == Append(ws, e)
<1>1. e \in Write /\ e.msg = a /\ e.gen # Initial /\ e.part = 1
  BY FrameFacts DEF Initial
<1>2. /\ n \in Nat
      /\ DOMAIN ws = 1..n
      /\ DOMAIN r = 1..(n + 1)
      /\ \A i \in 1..n : r[i] = ws[i]
      /\ r[n + 1] = e
  BY <1>1, AppendFacts
<1>a. \A i \in DOMAIN ws : ws[i].part \in Nat \ {0} /\ a # NoMessage
  BY PartFacts, MessageAssumption
<1> HIDE DEF e, n, r
<1>3. \A i \in DOMAIN r : i \in DOMAIN ws \/ i = n + 1
  BY <1>2
<1>4. \A i \in DOMAIN ws : r[i] = ws[i] /\ i \in DOMAIN r /\ i < n + 1
  BY <1>2
<1>b. \A i \in DOMAIN ws : p[ws[i].msg] <= p[a]
  BY <1>a DEF QueueOrder, UpToActive
<1>5. QueueOrder(r, p, a)
  <2>1. InOrder(r, p)
    BY <1>1, <1>2, <1>3, <1>4, <1>b DEF QueueOrder, InOrder
  <2>2. UpToActive(r, p, a)
    BY <1>1, <1>2, <1>3, <1>4, <1>b DEF UpToActive
  <2>3. TipIsNewest(r, p)
    BY <1>1, <1>2, <1>3, <1>4, <1>b DEF TipIsNewest, TipIsActive, Unfinished
  <2>4. OneInitialLoop(r)
    BY <1>1, <1>2, <1>3, <1>4 DEF QueueOrder, OneInitialLoop
  <2>5. CopiesTrail(r)
    BY <1>1, <1>2, <1>3, <1>4, <1>a DEF QueueOrder, CopiesTrail
  <2> QED BY <2>1, <2>2, <2>3, <2>4, <2>5 DEF QueueOrder
<1>6. QueueVersusPeer(r, p, spk, gs, air)
  <2>1. SpokenFirst(r, p, spk)
    BY <1>1, <1>2, <1>3, <1>4 DEF QueueVersusPeer, SpokenFirst
  <2>2. SpokenWasWritten(r, spk, air)
    BY <1>1, <1>2, <1>3, <1>4 DEF QueueVersusPeer, SpokenWasWritten
  <2>3. PartsWereSent(r, gs, air)
    BY <1>1, <1>2, <1>3, <1>4 DEF QueueVersusPeer, PartsWereSent
  <2> QED BY <2>1, <2>2, <2>3 DEF QueueVersusPeer
<1> QED BY <1>5, <1>6 DEF r, e

(* A frame settles and its loop is over.                                   *)
LEMMA DropHead ==
  ASSUME NEW ws \in Seq(Write), ws # <<>>, NEW p, NEW a, NEW spk, NEW gs, NEW air \in BOOLEAN,
         QueueOrder(ws, p, a), QueueVersusPeer(ws, p, spk, gs, air)
  PROVE  /\ QueueOrder(Tail(ws), p, a)
         /\ QueueVersusPeer(Tail(ws), p, spk, gs, FALSE)
         /\ \A i \in DOMAIN Tail(ws) :
              Tail(ws)[i].gen = Initial => Tail(ws)[i].msg \notin spk
<1> DEFINE t == Tail(ws)
<1>1. \A i \in DOMAIN t : i \in Nat /\ i + 1 \in DOMAIN ws /\ t[i] = ws[i + 1] /\ i + 1 # 1
  BY TailFacts
<1> HIDE DEF t
<1>2. QueueOrder(t, p, a)
  <2>1. InOrder(t, p)
    BY <1>1 DEF QueueOrder, InOrder
  <2>2. UpToActive(t, p, a)
    BY <1>1 DEF QueueOrder, UpToActive
  <2>3. TipIsNewest(t, p)
    BY <1>1 DEF QueueOrder, TipIsNewest
  <2>4. OneInitialLoop(t)
    <3> SUFFICES ASSUME NEW i \in DOMAIN t, NEW j \in DOMAIN t,
                        t[i].gen = Initial, t[j].gen = Initial, t[i].msg = t[j].msg
                 PROVE  i = j
      BY DEF OneInitialLoop
    <3>1. i + 1 = j + 1
      BY <1>1 DEF QueueOrder, OneInitialLoop
    <3> QED BY <1>1, <3>1
  <2>5. CopiesTrail(t)
    BY <1>1 DEF QueueOrder, CopiesTrail
  <2> QED BY <2>1, <2>2, <2>3, <2>4, <2>5 DEF QueueOrder
<1>3. SpokenFirst(t, p, spk)
  BY <1>1 DEF QueueVersusPeer, SpokenFirst
<1>4. \A i \in DOMAIN t : t[i].gen = Initial => t[i].msg \notin spk
  BY <1>1 DEF QueueVersusPeer, SpokenWasWritten
<1>5. PartsWereSent(t, gs, FALSE)
  BY <1>1 DEF QueueVersusPeer, PartsWereSent
<1> QED BY <1>2, <1>3, <1>4, <1>5 DEF t, QueueVersusPeer, SpokenWasWritten

(* A frame settles and its loop hands over the next one.                   *)
LEMMA RotateHead ==
  ASSUME NEW ws \in Seq(Write), ws # <<>>, NEW p, NEW a, NEW spk, NEW gs, NEW air \in BOOLEAN,
         QueueOrder(ws, p, a), QueueVersusPeer(ws, p, spk, gs, air),
         \A i \in DOMAIN ws : p[ws[i].msg] \in Nat,
         \A k \in DOMAIN gs : gs[k].parts \subseteq Nat,
         Head(ws).part <= Fragments[Head(ws).msg], ~IsLastFrame(Head(ws)),
         Head(ws).gen # Initial => a # NoMessage /\ Head(ws).msg = a /\ TipIsActive(ws, a)
  PROVE  /\ QueueOrder(Append(Tail(ws), NextFrame(Head(ws))), p, a)
         /\ QueueVersusPeer(Append(Tail(ws), NextFrame(Head(ws))), p, spk, gs, FALSE)
<1> DEFINE e == NextFrame(Head(ws))
           t == Tail(ws)
           n == Len(ws)
           r == Append(t, e)
<1>1. /\ t \in Seq(Write)
      /\ n \in Nat \ {0}
      /\ Head(ws) = ws[1]
      /\ Head(ws) \in Write
      /\ DOMAIN ws = 1..n
      /\ Len(t) = n - 1
      /\ \A i \in 1..(n - 1) : t[i] = ws[i + 1]
  BY TailFacts
<1>2. e \in Write /\ e.msg = ws[1].msg /\ e.gen = ws[1].gen /\ e.part = ws[1].part + 1
  BY <1>1, NextFrameFacts
<1>3. /\ DOMAIN r = 1..n
      /\ \A i \in 1..(n - 1) : r[i] = ws[i + 1]
      /\ r[n] = e
  BY <1>1, <1>2, AppendFacts
<1>4. \A i \in DOMAIN ws : ws[i].part \in Nat \ {0}
  BY PartFacts
<1> HIDE DEF e, t, n, r
<1>5. \A i \in DOMAIN r : i = n \/ (i \in Nat /\ i < n /\ i + 1 \in DOMAIN ws /\ i + 1 # 1 /\ 1 < i + 1 /\ r[i] = ws[i + 1])
  BY <1>1, <1>3
<1>6. 1 \in DOMAIN ws /\ n \in DOMAIN r /\ n \in Nat
  BY <1>1, <1>3
<1>7. \A j \in DOMAIN ws : p[ws[j].msg] <= p[ws[1].msg]
  <2>1. CASE ws[1].gen = Initial
    BY <1>1, <1>6, <2>1 DEF QueueOrder, TipIsNewest, Unfinished
  <2>2. CASE ws[1].gen # Initial
    BY <1>1, <1>6, <2>2 DEF QueueOrder, UpToActive
  <2> QED BY <2>1, <2>2
<1>8. QueueOrder(r, p, a)
  <2>1. InOrder(r, p)
    <3> SUFFICES ASSUME NEW i \in DOMAIN r, NEW j \in DOMAIN r, i < j
                 PROVE  p[r[i].msg] <= p[r[j].msg]
      BY DEF InOrder
    <3>1. i # n
      BY <1>5, <1>6
    <3>2. CASE j = n
      BY <1>2, <1>3, <1>5, <1>7, <3>1, <3>2
    <3>3. CASE j # n
      BY <1>5, <3>1, <3>3 DEF QueueOrder, InOrder
    <3> QED BY <3>2, <3>3
  <2>2. UpToActive(r, p, a)
    BY <1>2, <1>3, <1>5, <1>6 DEF QueueOrder, UpToActive
  <2>3. TipIsNewest(r, p)
    <3> SUFFICES ASSUME NEW i \in DOMAIN r, NEW j \in DOMAIN r, Unfinished(r[i])
                 PROVE  p[r[j].msg] <= p[r[i].msg]
      BY DEF TipIsNewest
    <3>0. p[r[j].msg] <= p[ws[1].msg]
      BY <1>2, <1>3, <1>5, <1>6, <1>7
    <3>1. CASE i = n
      BY <1>2, <1>3, <3>0, <3>1
    <3>2. CASE i # n
      <4>1. i + 1 \in DOMAIN ws /\ r[i] = ws[i + 1]
        BY <1>5, <3>2
      <4>2. p[ws[1].msg] <= p[ws[i + 1].msg] /\ \A k \in DOMAIN ws : p[ws[k].msg] <= p[ws[i + 1].msg]
        BY <1>6, <4>1 DEF QueueOrder, TipIsNewest
      <4>3. CASE j = n
        BY <1>2, <1>3, <4>1, <4>2, <4>3
      <4>4. CASE j # n
        BY <1>5, <4>1, <4>2, <4>4
      <4> QED BY <4>3, <4>4
    <3> QED BY <3>1, <3>2
  <2>4. OneInitialLoop(r)
    <3> SUFFICES ASSUME NEW i \in DOMAIN r, NEW j \in DOMAIN r,
                        r[i].gen = Initial, r[j].gen = Initial, r[i].msg = r[j].msg
                 PROVE  i = j
      BY DEF OneInitialLoop
    <3>1. CASE i = n
      BY <1>2, <1>3, <1>5, <1>6, <3>1 DEF QueueOrder, OneInitialLoop
    <3>2. CASE j = n
      BY <1>2, <1>3, <1>5, <1>6, <3>2 DEF QueueOrder, OneInitialLoop
    <3>3. CASE i # n /\ j # n
      <4>1. i + 1 = j + 1
        BY <1>5, <3>3 DEF QueueOrder, OneInitialLoop
      <4> QED BY <1>5, <3>3, <4>1
    <3> QED BY <3>1, <3>2, <3>3
  <2>5. CopiesTrail(r)
    <3> SUFFICES ASSUME NEW i \in DOMAIN r, NEW j \in DOMAIN r,
                        r[i].gen = Initial, r[j].gen # Initial, r[i].msg = r[j].msg
                 PROVE  /\ r[j].part <= r[i].part
                        /\ j < i => r[j].part < r[i].part
      BY DEF CopiesTrail
    <3>1. CASE i = n
      <4>1. j # n
        BY <1>3, <3>1
      <4>2. j + 1 \in DOMAIN ws /\ r[j] = ws[j + 1] /\ ws[j + 1].part <= ws[1].part
        BY <1>2, <1>3, <1>5, <1>6, <3>1, <4>1 DEF QueueOrder, CopiesTrail
      <4> QED BY <1>2, <1>3, <1>4, <1>6, <3>1, <4>2
    <3>2. CASE j = n
      <4>1. i # n
        BY <1>3, <3>2
      <4>2. /\ i + 1 \in DOMAIN ws /\ r[i] = ws[i + 1] /\ ws[1].part < ws[i + 1].part
            /\ i < n
        BY <1>2, <1>3, <1>5, <1>6, <3>2, <4>1 DEF QueueOrder, CopiesTrail
      <4> QED BY <1>2, <1>3, <1>4, <1>5, <1>6, <3>2, <4>2
    <3>3. CASE i # n /\ j # n
      BY <1>5, <3>3 DEF QueueOrder, CopiesTrail
    <3> QED BY <3>1, <3>2, <3>3
  <2> QED BY <2>1, <2>2, <2>3, <2>4, <2>5 DEF QueueOrder
<1>9. QueueVersusPeer(r, p, spk, gs, FALSE)
  <2>1. SpokenFirst(r, p, spk)
    BY <1>2, <1>3, <1>5, <1>6 DEF QueueVersusPeer, SpokenFirst
  <2>2. SpokenWasWritten(r, spk, FALSE)
    <3> SUFFICES ASSUME NEW i \in DOMAIN r, r[i].gen = Initial, r[i].msg \in spk
                 PROVE  FALSE
      BY DEF SpokenWasWritten
    <3> QED BY <1>1, <1>2, <1>3, <1>5, <1>6 DEF QueueVersusPeer, SpokenWasWritten
  <2>3. PartsWereSent(r, gs, FALSE)
    <3> SUFFICES ASSUME NEW k \in DOMAIN gs, NEW i \in DOMAIN r, r[i].gen = Initial,
                        r[i].msg = gs[k].msg, NEW q \in gs[k].parts
                 PROVE  q < r[i].part
      BY DEF PartsWereSent
    <3>1. CASE i = n
      <4>0. q \in Nat
        OBVIOUS
      <4>1. q < ws[1].part \/ q = ws[1].part
        BY <1>2, <1>3, <1>6, <3>1 DEF QueueVersusPeer, PartsWereSent
      <4> QED BY <1>2, <1>3, <1>4, <1>6, <3>1, <4>0, <4>1
    <3>2. CASE i # n
      BY <1>5, <3>2 DEF QueueVersusPeer, PartsWereSent
    <3> QED BY <3>1, <3>2
  <2> QED BY <2>1, <2>2, <2>3 DEF QueueVersusPeer
<1> QED BY <1>8, <1>9 DEF r, e, t

-----------------------------------------------------------------------------
(* What the same changes do to the loops in turn.                          *)

(* Nothing in the queue will disturb the next active message: no initial   *)
(* loop has frames to send, and one alone may have its last frame settling.*)
SlotCanBeFilled(ws, timer) ==
  /\ \A i \in DOMAIN ws : ~Unfinished(ws[i])
  /\ \A i \in DOMAIN ws : ws[i].gen = Initial =>
       ~timer /\ \A j \in DOMAIN ws : ws[j].gen = Initial => i = j

LEMMA TurnVacated ==
  ASSUME NEW ws, NEW rc, NEW timer, SlotCanBeFilled(ws, timer)
  PROVE  LoopsInTurn(ws, NoMessage, rc, timer, FALSE)
  BY DEF SlotCanBeFilled, LoopsInTurn, TipIsActive, RetriesTrail, OneStraggler

LEMMA TurnBegins ==
  ASSUME NEW ws \in Seq(Write), NEW rc, NEW timer \in BOOLEAN, NEW m \in Message,
         SlotCanBeFilled(ws, timer), NoFrameOf(ws, m), rc[m] = 0
  PROVE  LoopsInTurn(Append(ws, FirstFrame(m, Initial)), m, rc, timer, FALSE)
<1> DEFINE e == FirstFrame(m, Initial)
           n == Len(ws)
           r == Append(ws, e)
<1>1. e \in Write /\ e.msg = m /\ e.gen = Initial /\ e.part = 1
  BY FrameFacts DEF Initial
<1>2. /\ n \in Nat
      /\ DOMAIN ws = 1..n
      /\ DOMAIN r = 1..(n + 1)
      /\ \A i \in 1..n : r[i] = ws[i]
      /\ r[n + 1] = e
  BY <1>1, AppendFacts
<1> HIDE DEF e, n, r
<1>3. \A i \in DOMAIN r : (i \in DOMAIN ws /\ r[i] = ws[i] /\ r[i].msg # m) \/ (i = n + 1 /\ r[i] = e)
  BY <1>2 DEF NoFrameOf
<1>4. TipIsActive(r, m)
  BY <1>1, <1>3 DEF TipIsActive, SlotCanBeFilled
<1>5. RetriesTrail(r, m, rc, timer, FALSE)
  <2> SUFFICES ASSUME NEW i \in DOMAIN r, r[i].gen = Initial, r[i].msg = m
               PROVE  /\ rc[m] <= r[i].part
                      /\ rc[m] + 1 <= r[i].part
    BY DEF RetriesTrail
  <2>1. r[i].part = 1
    BY <1>1, <1>3
  <2> QED BY <2>1
<1>6. OneStraggler(r, m, rc, timer, FALSE)
  BY <1>1, <1>3 DEF OneStraggler, SlotCanBeFilled
<1> QED BY <1>4, <1>5, <1>6 DEF LoopsInTurn, r, e

(* The timer fires within the retry budget.                                *)
LEMMA TurnRetries ==
  ASSUME NEW ws \in Seq(Write), NEW a \in Message, NEW rc, NEW rc2, NEW g \in Nat \ {0},
         rc[a] \in Nat, rc2[a] = rc[a] + 1,
         \A i \in DOMAIN ws : ws[i].msg = a => ws[i].gen = Initial,
         LoopsInTurn(ws, a, rc, TRUE, FALSE)
  PROVE  LoopsInTurn(Append(ws, FirstFrame(a, g)), a, rc2, FALSE, TRUE)
<1> DEFINE e == FirstFrame(a, g)
           n == Len(ws)
           r == Append(ws, e)
<1>1. e \in Write /\ e.msg = a /\ e.gen # Initial /\ e.part = 1
  BY FrameFacts DEF Initial
<1>2. /\ n \in Nat
      /\ DOMAIN ws = 1..n
      /\ DOMAIN r = 1..(n + 1)
      /\ \A i \in 1..n : r[i] = ws[i]
      /\ r[n + 1] = e
  BY <1>1, AppendFacts
<1> HIDE DEF e, n, r
<1>3. \A i \in DOMAIN r : (i \in DOMAIN ws /\ r[i] = ws[i] /\ i < n + 1) \/ (i = n + 1 /\ r[i] = e)
  BY <1>2
<1>a. n + 1 \in Nat /\ \A i \in DOMAIN ws : i \in Nat
  BY <1>2
<1>4. TipIsActive(r, a)
  BY <1>1, <1>3 DEF TipIsActive, Unfinished, LoopsInTurn
<1>5. RetriesTrail(r, a, rc2, FALSE, TRUE)
  <2> SUFFICES ASSUME NEW i \in DOMAIN r, r[i].gen = Initial, r[i].msg = a
               PROVE  /\ rc2[a] <= r[i].part
                      /\ \A j \in DOMAIN r :
                           ~(r[j].gen # Initial /\ r[j].msg = a /\ j < i)
    BY DEF RetriesTrail
  <2>1. i \in DOMAIN ws /\ r[i] = ws[i] /\ i < n + 1
    BY <1>1, <1>3
  <2>2. rc2[a] <= r[i].part
    BY <2>1, MessageAssumption DEF LoopsInTurn, RetriesTrail
  <2>3. ASSUME NEW j \in DOMAIN r, r[j].gen # Initial, r[j].msg = a, j < i
        PROVE  FALSE
    BY <1>3, <1>a, <2>1, <2>3
  <2> QED BY <2>2, <2>3
<1>6. OneStraggler(r, a, rc2, FALSE, TRUE)
  BY <1>1, <1>3 DEF OneStraggler, LoopsInTurn
<1> QED BY <1>4, <1>5, <1>6 DEF LoopsInTurn, r, e

(* The timer fires while a loop is already running.                        *)
LEMMA TurnRetriesAgain ==
  ASSUME NEW ws, NEW a, NEW rc, NEW rc2, LoopsInTurn(ws, a, rc, TRUE, TRUE)
  PROVE  LoopsInTurn(ws, a, rc2, FALSE, TRUE)
  BY DEF LoopsInTurn, TipIsActive, RetriesTrail, OneStraggler

LEMMA TurnDisarmed ==
  ASSUME NEW ws, NEW a, NEW rc, NEW timer, NEW rt, LoopsInTurn(ws, a, rc, timer, rt)
  PROVE  LoopsInTurn(ws, a, rc, FALSE, rt)
  BY DEF LoopsInTurn, TipIsActive, RetriesTrail, OneStraggler

(* An initial loop is over, whatever that does to the timer.               *)
LEMMA TurnLoses ==
  ASSUME NEW ws \in Seq(Write), ws # <<>>, NEW p, NEW a, NEW rc, NEW timer, NEW timer2, NEW rt,
         LoopsInTurn(ws, a, rc, timer, rt), QueueOrder(ws, p, a),
         Head(ws).gen = Initial,
         \A i \in DOMAIN ws : p[ws[i].msg] \in Nat,
         a # NoMessage => p[a] \in Nat,
         \A i \in DOMAIN ws : a # NoMessage /\ p[ws[i].msg] = p[a] => ws[i].msg = a
  PROVE  LoopsInTurn(Tail(ws), a, rc, timer2, rt)
<1> DEFINE t == Tail(ws)
<1>1. /\ \A i \in DOMAIN t : i \in Nat /\ i + 1 \in DOMAIN ws /\ t[i] = ws[i + 1] /\ 1 < i + 1
      /\ 1 \in DOMAIN ws /\ Head(ws) = ws[1]
  BY TailFacts
<1>2. \A i \in DOMAIN ws : ws[i].part \in Nat \ {0} /\ ws[i].msg # NoMessage
  BY PartFacts, EntryFacts
<1> HIDE DEF t
<1>3. TipIsActive(t, a)
  BY <1>1 DEF TipIsActive, LoopsInTurn
<1>4. ASSUME NEW i \in DOMAIN t, t[i].gen = Initial
      PROVE  t[i].msg = a /\ ws[1].msg # a
  <2>1. CASE ws[1].msg = a
    <3>1. t[i].msg # a
      BY <1>1, <1>4, <2>1 DEF QueueOrder, OneInitialLoop
    <3>2. a # NoMessage
      BY <1>1, <1>2, <2>1
    <3>3. p[ws[1].msg] <= p[ws[i + 1].msg] /\ p[ws[i + 1].msg] <= p[a]
      BY <1>1, <3>2 DEF QueueOrder, InOrder, UpToActive
    <3>4. p[ws[i + 1].msg] = p[a]
      BY <1>1, <2>1, <3>2, <3>3
    <3> QED BY <1>1, <3>1, <3>2, <3>4
  <2>2. CASE ws[1].msg # a
    BY <1>1, <1>4, <2>2 DEF LoopsInTurn, OneStraggler
  <2> QED BY <2>1, <2>2
<1>5. RetriesTrail(t, a, rc, timer2, rt)
  <2> SUFFICES ASSUME a # NoMessage, NEW i \in DOMAIN t, t[i].gen = Initial, t[i].msg = a
               PROVE  rc[a] <= t[i].part /\ rc[a] + 1 <= t[i].part /\ ~rt
    BY DEF RetriesTrail
  <2>1. rc[a] = 0 /\ ~rt
    BY <1>1, <1>4 DEF LoopsInTurn, OneStraggler
  <2> QED BY <1>1, <1>2, <2>1
<1>6. OneStraggler(t, a, rc, timer2, rt)
  BY <1>4 DEF OneStraggler
<1> QED BY <1>3, <1>5, <1>6 DEF LoopsInTurn, t

(* A stale loop is over.                                                   *)
LEMMA TurnUntouched ==
  ASSUME NEW ws \in Seq(Write), ws # <<>>, NEW a, NEW rc, NEW timer, NEW rt,
         LoopsInTurn(ws, a, rc, timer, rt)
  PROVE  LoopsInTurn(Tail(ws), a, rc, timer, rt)
<1> DEFINE t == Tail(ws)
<1>1. \A i \in DOMAIN t : i \in Nat /\ i + 1 \in DOMAIN ws /\ t[i] = ws[i + 1]
  BY TailFacts
<1> HIDE DEF t
<1>2. TipIsActive(t, a)
  BY <1>1 DEF TipIsActive, LoopsInTurn
<1>3. RetriesTrail(t, a, rc, timer, rt)
  <2> SUFFICES ASSUME a # NoMessage, NEW i \in DOMAIN t, t[i].gen = Initial, t[i].msg = a
               PROVE  /\ rc[a] <= t[i].part
                      /\ timer => rc[a] + 1 <= t[i].part /\ ~rt
                      /\ \A j \in DOMAIN t :
                           t[j].gen # Initial /\ t[j].msg = a /\ j < i => rc[a] + 1 <= t[i].part
    BY DEF RetriesTrail
  <2> QED BY <1>1 DEF LoopsInTurn, RetriesTrail
<1>4. OneStraggler(t, a, rc, timer, rt)
  <2> SUFFICES ASSUME NEW i \in DOMAIN t, t[i].gen = Initial, t[i].msg # a
               PROVE  /\ ~timer /\ ~rt
                      /\ a # NoMessage => rc[a] = 0
                      /\ \A j \in DOMAIN t : t[j].gen = Initial /\ t[j].msg # a => i = j
    BY DEF OneStraggler
  <2>1. ASSUME NEW j \in DOMAIN t, t[j].gen = Initial, t[j].msg # a PROVE i = j
    <3>1. i + 1 = j + 1
      BY <1>1, <2>1 DEF LoopsInTurn, OneStraggler
    <3> QED BY <1>1, <3>1
  <2> QED BY <1>1, <2>1 DEF LoopsInTurn, OneStraggler
<1> QED BY <1>2, <1>3, <1>4 DEF LoopsInTurn, t

(* The live loop is over and arms the timer.                               *)
LEMMA TurnRearmed ==
  ASSUME NEW ws \in Seq(Write), ws # <<>>, NEW a, NEW rc, NEW timer, NEW timer2,
         LoopsInTurn(ws, a, rc, timer, TRUE), Head(ws).gen # Initial, Head(ws).msg = a
  PROVE  LoopsInTurn(Tail(ws), a, rc, timer2, FALSE)
<1> DEFINE t == Tail(ws)
<1>1. /\ \A i \in DOMAIN t : i \in Nat /\ i + 1 \in DOMAIN ws /\ t[i] = ws[i + 1] /\ 1 < i + 1
      /\ 1 \in DOMAIN ws /\ Head(ws) = ws[1]
  BY TailFacts
<1> HIDE DEF t
<1>2. TipIsActive(t, a)
  BY <1>1 DEF TipIsActive, LoopsInTurn
<1>3. RetriesTrail(t, a, rc, timer2, FALSE)
  <2> SUFFICES ASSUME a # NoMessage, NEW i \in DOMAIN t, t[i].gen = Initial, t[i].msg = a
               PROVE  rc[a] <= t[i].part /\ rc[a] + 1 <= t[i].part
    BY DEF RetriesTrail
  <2> QED BY <1>1 DEF LoopsInTurn, RetriesTrail
<1>4. OneStraggler(t, a, rc, timer2, FALSE)
  BY <1>1 DEF LoopsInTurn, OneStraggler
<1> QED BY <1>2, <1>3, <1>4 DEF LoopsInTurn, t

(* A loop hands over its next frame.                                       *)
LEMMA TurnGoesOn ==
  ASSUME NEW ws \in Seq(Write), ws # <<>>, NEW a, NEW rc, NEW timer, NEW rt,
         a # NoMessage => rc[a] \in Nat,
         LoopsInTurn(ws, a, rc, timer, rt), OneInitialLoop(ws), Head(ws).msg = a,
         Head(ws).part <= Fragments[Head(ws).msg], ~IsLastFrame(Head(ws))
  PROVE  LoopsInTurn(Append(Tail(ws), NextFrame(Head(ws))), a, rc, timer, rt)
<1> DEFINE e == NextFrame(Head(ws))
           t == Tail(ws)
           n == Len(ws)
           r == Append(t, e)
<1>1. /\ t \in Seq(Write)
      /\ n \in Nat \ {0}
      /\ Head(ws) = ws[1]
      /\ Head(ws) \in Write
      /\ DOMAIN ws = 1..n
      /\ Len(t) = n - 1
      /\ \A i \in 1..(n - 1) : t[i] = ws[i + 1]
  BY TailFacts
<1>2. e \in Write /\ e.msg = ws[1].msg /\ e.gen = ws[1].gen /\ e.part = ws[1].part + 1
  BY <1>1, NextFrameFacts
<1>3. /\ DOMAIN r = 1..n
      /\ \A i \in 1..(n - 1) : r[i] = ws[i + 1]
      /\ r[n] = e
  BY <1>1, <1>2, AppendFacts
<1>4. \A i \in DOMAIN ws : ws[i].part \in Nat \ {0}
  BY PartFacts
<1> HIDE DEF e, t, n, r
<1>5. \A i \in DOMAIN r : (i = n /\ r[i] = e) \/ (i \in Nat /\ i < n /\ i + 1 \in DOMAIN ws /\ i + 1 # 1 /\ 1 < i + 1 /\ r[i] = ws[i + 1])
  BY <1>1, <1>3
<1>6. 1 \in DOMAIN ws /\ n \in Nat /\ ws[1].msg = a
  BY <1>1
<1>7. TipIsActive(r, a)
  BY <1>2, <1>5, <1>6 DEF TipIsActive, LoopsInTurn
<1>8. RetriesTrail(r, a, rc, timer, rt)
  <2> SUFFICES ASSUME a # NoMessage, NEW i \in DOMAIN r, r[i].gen = Initial, r[i].msg = a
               PROVE  /\ rc[a] <= r[i].part
                      /\ timer => rc[a] + 1 <= r[i].part /\ ~rt
                      /\ \A j \in DOMAIN r :
                           r[j].gen # Initial /\ r[j].msg = a /\ j < i => rc[a] + 1 <= r[i].part
    BY DEF RetriesTrail
  <2>1. CASE i = n
    <3>1. ws[1].gen = Initial /\ r[i].part = ws[1].part + 1
      BY <1>2, <1>3, <2>1
    <3>2. rc[a] <= ws[1].part /\ (timer => ~rt)
      BY <1>6, <3>1 DEF LoopsInTurn, RetriesTrail
    <3>3. rc[a] + 1 <= r[i].part /\ rc[a] <= r[i].part
      BY <1>4, <1>6, <3>1, <3>2
    <3> QED BY <3>2, <3>3
  <2>2. CASE i # n
    <3>1. i \in Nat /\ i < n /\ i + 1 \in DOMAIN ws /\ r[i] = ws[i + 1] /\ 1 < i + 1
      BY <1>5, <2>2
    <3>2. rc[a] <= r[i].part /\ (timer => rc[a] + 1 <= r[i].part /\ ~rt)
      BY <3>1 DEF LoopsInTurn, RetriesTrail
    <3>3. ASSUME NEW j \in DOMAIN r, r[j].gen # Initial, r[j].msg = a, j < i
          PROVE  rc[a] + 1 <= r[i].part
      <4>1. j # n /\ j + 1 \in DOMAIN ws /\ r[j] = ws[j + 1] /\ j + 1 < i + 1
        BY <1>5, <1>6, <3>1, <3>3
      <4> QED BY <3>1, <3>3, <4>1 DEF LoopsInTurn, RetriesTrail
    <3> QED BY <3>2, <3>3
  <2> QED BY <2>1, <2>2
<1>9. OneStraggler(r, a, rc, timer, rt)
  <2> SUFFICES ASSUME NEW i \in DOMAIN r, r[i].gen = Initial, r[i].msg # a
               PROVE  /\ ~timer /\ ~rt
                      /\ a # NoMessage => rc[a] = 0
                      /\ \A j \in DOMAIN r : r[j].gen = Initial /\ r[j].msg # a => i = j
    BY DEF OneStraggler
  <2>0. i + 1 \in DOMAIN ws /\ r[i] = ws[i + 1] /\ i \in Nat
    BY <1>2, <1>5, <1>6
  <2>1. ASSUME NEW j \in DOMAIN r, r[j].gen = Initial, r[j].msg # a PROVE i = j
    <3>0. j + 1 \in DOMAIN ws /\ r[j] = ws[j + 1] /\ j \in Nat
      BY <1>2, <1>5, <1>6, <2>1
    <3>1. i + 1 = j + 1
      BY <2>0, <2>1, <3>0 DEF LoopsInTurn, OneStraggler
    <3> QED BY <2>0, <3>0, <3>1
  <2> QED BY <2>0, <2>1 DEF LoopsInTurn, OneStraggler
<1> QED BY <1>7, <1>8, <1>9 DEF LoopsInTurn, r, e, t

-----------------------------------------------------------------------------
(* The groups of the reassembler.                                          *)

Group == [msg: Message, parts: SUBSET Nat]

OneGroupEach(gs) == \A i, j \in DOMAIN gs : gs[i].msg = gs[j].msg => i = j

(* The groups of hs are groups of gs.                                      *)
Within(hs, gs) == \A k \in DOMAIN hs : \E j \in DOMAIN gs : hs[k] = gs[j]

(* Deleting an entry of a sequence.                                        *)
LEMMA RemoveAtFacts ==
  ASSUME NEW S, NEW s \in Seq(S), NEW i \in DOMAIN s
  PROVE  /\ RemoveAt(s, i) \in Seq(S)
         /\ Len(RemoveAt(s, i)) = Len(s) - 1
         /\ \A k \in DOMAIN RemoveAt(s, i) :
              RemoveAt(s, i)[k] = s[IF k < i THEN k ELSE k + 1]
<1> DEFINE x == SubSeq(s, 1, i - 1)
           y == SubSeq(s, i + 1, Len(s))
<1>1. Len(s) \in Nat /\ i \in 1..Len(s)
  OBVIOUS
<1>2. x \in Seq(S) /\ Len(x) = i - 1 /\ \A k \in 1..(i - 1) : x[k] = s[k]
  BY <1>1, SubSeqProperties
<1>3. y \in Seq(S) /\ Len(y) = Len(s) - i /\ \A k \in 1..(Len(s) - i) : y[k] = s[i + k]
  BY <1>1, SubSeqProperties
<1>4. RemoveAt(s, i) = x \o y
  BY DEF RemoveAt
<1> HIDE DEF x, y
<1>5. /\ x \o y \in Seq(S)
      /\ Len(x \o y) = Len(x) + Len(y)
      /\ \A k \in 1..(Len(x) + Len(y)) : (x \o y)[k] = IF k <= Len(x) THEN x[k] ELSE y[k - Len(x)]
  BY <1>2, <1>3
<1>6. Len(x \o y) = Len(s) - 1
  BY <1>1, <1>2, <1>3, <1>5
<1>7. ASSUME NEW k \in 1..(Len(s) - 1)
      PROVE  (x \o y)[k] = s[IF k < i THEN k ELSE k + 1]
  <2>1. CASE k < i
    <3>1. k \in 1..(i - 1) /\ k <= Len(x)
      BY <1>1, <1>2, <2>1
    <3>2. k \in 1..(Len(x) + Len(y))
      BY <1>1, <1>2, <1>3
    <3> QED BY <1>2, <1>5, <2>1, <3>1, <3>2
  <2>2. CASE ~(k < i)
    <3> DEFINE l == k - (i - 1)
    <3>1. l \in 1..(Len(s) - i) /\ i + l = k + 1 /\ ~(k <= Len(x)) /\ l = k - Len(x)
      BY <1>1, <1>2, <2>2
    <3>2. k \in 1..(Len(x) + Len(y))
      BY <1>1, <1>2, <1>3
    <3>3. (x \o y)[k] = y[l]
      BY <1>5, <3>1, <3>2
    <3> QED BY <1>3, <2>2, <3>1, <3>3
  <2> QED BY <2>1, <2>2
<1>8. DOMAIN (x \o y) = 1..(Len(s) - 1)
  BY <1>5, <1>6
<1> QED BY <1>4, <1>5, <1>6, <1>7, <1>8

LEMMA GroupIndexFacts ==
  ASSUME NEW gs, NEW m, HasGroup(gs, m)
  PROVE  GroupIndex(gs, m) \in DOMAIN gs /\ gs[GroupIndex(gs, m)].msg = m
  BY DEF HasGroup, GroupIndex

LEMMA WithoutFacts ==
  ASSUME NEW gs \in Seq(Group), NEW m, OneGroupEach(gs), HasGroup(gs, m)
  PROVE  /\ Without(gs, m) \in Seq(Group)
         /\ OneGroupEach(Without(gs, m))
         /\ Within(Without(gs, m), gs)
         /\ ~HasGroup(Without(gs, m), m)
<1> DEFINE i == GroupIndex(gs, m)
           w == Without(gs, m)
<1>1. i \in DOMAIN gs /\ gs[i].msg = m
  BY GroupIndexFacts
<1>2. /\ w \in Seq(Group)
      /\ Len(w) = Len(gs) - 1
      /\ \A k \in DOMAIN w : w[k] = gs[IF k < i THEN k ELSE k + 1]
  BY <1>1, RemoveAtFacts DEF Without
<1>3. DOMAIN gs = 1..Len(gs) /\ DOMAIN w = 1..(Len(gs) - 1) /\ Len(gs) \in Nat
  BY <1>2
<1> HIDE DEF i, w
<1>4. ASSUME NEW k \in DOMAIN w
      PROVE  \E j \in DOMAIN gs :
               w[k] = gs[j] /\ j # i /\ ((j = k /\ k < i) \/ (j = k + 1 /\ ~(k < i)))
  <2>1. CASE k < i
    <3>1. w[k] = gs[k] /\ k \in DOMAIN gs /\ k # i
      BY <1>1, <1>2, <1>3, <2>1
    <3> QED BY <2>1, <3>1
  <2>2. CASE ~(k < i)
    <3>1. w[k] = gs[k + 1] /\ k + 1 \in DOMAIN gs /\ k + 1 # i
      BY <1>1, <1>2, <1>3, <2>2
    <3> QED BY <2>2, <3>1
  <2> QED BY <2>1, <2>2
<1>5. Within(w, gs)
  BY <1>4 DEF Within
<1>6. ~HasGroup(w, m)
  BY <1>1, <1>4 DEF HasGroup, OneGroupEach
<1>7. OneGroupEach(w)
  <2> SUFFICES ASSUME NEW k \in DOMAIN w, NEW l \in DOMAIN w, w[k].msg = w[l].msg
               PROVE  k = l
    BY DEF OneGroupEach
  <2>1. PICK j \in DOMAIN gs : w[k] = gs[j] /\ ((j = k /\ k < i) \/ (j = k + 1 /\ ~(k < i)))
    BY <1>4
  <2>2. PICK h \in DOMAIN gs : w[l] = gs[h] /\ ((h = l /\ l < i) \/ (h = l + 1 /\ ~(l < i)))
    BY <1>4
  <2>3. j = h
    BY <2>1, <2>2 DEF OneGroupEach
  <2> QED BY <1>1, <1>3, <2>1, <2>2, <2>3
<1> QED BY <1>2, <1>5, <1>6, <1>7 DEF w

(* How long a tail is: SubSeqProperties in a simpler form.                 *)
LEMMA TailLength ==
  ASSUME NEW a \in Nat, NEW b \in 1..a
  PROVE  (IF b + 1 <= a THEN a - (b + 1) + 1 ELSE 0) = a - b
OBVIOUS

(* A tail of the groups: an eviction or an expiry.                         *)
LEMMA SuffixFacts ==
  ASSUME NEW gs \in Seq(Group), OneGroupEach(gs), NEW n \in 1..Len(gs)
  PROVE  /\ SubSeq(gs, n + 1, Len(gs)) \in Seq(Group)
         /\ OneGroupEach(SubSeq(gs, n + 1, Len(gs)))
         /\ Within(SubSeq(gs, n + 1, Len(gs)), gs)
<1> DEFINE t == SubSeq(gs, n + 1, Len(gs))
<1>1. Len(gs) \in Nat /\ DOMAIN gs = 1..Len(gs)
  OBVIOUS
<1>2. t \in Seq(Group) /\ Len(t) = Len(gs) - n /\ \A k \in 1..(Len(gs) - n) : t[k] = gs[n + k]
  <2>1. n + 1 \in Int /\ Len(gs) \in Int /\ \A k \in (n + 1)..Len(gs) : gs[k] \in Group
    BY <1>1
  <2>2. /\ t \in Seq(Group)
        /\ Len(t) = IF n + 1 <= Len(gs) THEN Len(gs) - (n + 1) + 1 ELSE 0
        /\ \A k \in 1..(Len(gs) - (n + 1) + 1) : t[k] = gs[(n + 1) + k - 1]
    BY ONLY <2>1, SubSeqProperties
  <2> HIDE DEF t
  <2>3. Len(t) = Len(gs) - n
    <3>1. (IF n + 1 <= Len(gs) THEN Len(gs) - (n + 1) + 1 ELSE 0) = Len(gs) - n
      BY <1>1, TailLength
    <3> QED BY ONLY <2>2, <3>1
  <2>4. ASSUME NEW k \in 1..(Len(gs) - n)
        PROVE  t[k] = gs[n + k]
    <3>1. k \in 1..(Len(gs) - (n + 1) + 1) /\ (n + 1) + k - 1 = n + k
      BY <1>1, <2>4
    <3> QED BY <2>2, <3>1
  <2> QED BY <2>2, <2>3, <2>4
<1> HIDE DEF t
<1>3. \A k \in DOMAIN t : k \in Nat /\ n + k \in DOMAIN gs /\ t[k] = gs[n + k]
  BY <1>1, <1>2
<1>4. OneGroupEach(t)
  <2> SUFFICES ASSUME NEW k \in DOMAIN t, NEW l \in DOMAIN t, t[k].msg = t[l].msg
               PROVE  k = l
    BY DEF OneGroupEach
  <2>1. n + k = n + l
    BY <1>3 DEF OneGroupEach
  <2> QED BY <1>3, <2>1
<1>5. Within(t, gs)
  BY <1>3 DEF Within
<1> QED BY <1>2, <1>4, <1>5 DEF t

LEMMA WithRoomFacts ==
  ASSUME NEW gs \in Seq(Group), OneGroupEach(gs)
  PROVE  /\ WithRoom(gs) \in Seq(Group)
         /\ OneGroupEach(WithRoom(gs))
         /\ Within(WithRoom(gs), gs)
<1>1. CASE Len(gs) >= MAX_CONCURRENT_GROUPS
  <2>0. gs # <<>> /\ WithRoom(gs) = Tail(gs)
    BY <1>1, ReceiverLimits DEF WithRoom
  <2> DEFINE t == Tail(gs)
  <2>1. /\ t \in Seq(Group)
        /\ \A k \in DOMAIN t : k \in Nat /\ k + 1 \in DOMAIN gs /\ t[k] = gs[k + 1]
    BY <2>0
  <2> HIDE DEF t
  <2>2. OneGroupEach(t)
    <3> SUFFICES ASSUME NEW k \in DOMAIN t, NEW l \in DOMAIN t, t[k].msg = t[l].msg
                 PROVE  k = l
      BY DEF OneGroupEach
    <3>1. k + 1 = l + 1
      BY <2>1 DEF OneGroupEach
    <3> QED BY <2>1, <3>1
  <2>3. Within(t, gs)
    BY <2>1 DEF Within
  <2> QED BY <2>0, <2>1, <2>2, <2>3 DEF t
<1>2. CASE ~(Len(gs) >= MAX_CONCURRENT_GROUPS)
  <2>1. WithRoom(gs) = gs
    BY <1>2 DEF WithRoom
  <2> QED BY <2>1 DEF Within
<1> QED BY <1>1, <1>2

(* Every part a group holds after the fragment f was held before, or is f. *)
CollectedFrom(hs, gs, f) ==
  \A k \in DOMAIN hs :
    /\ hs[k].msg = f.msg \/ \E j \in DOMAIN gs : gs[j].msg = hs[k].msg
    /\ \A q \in hs[k].parts :
         \/ hs[k].msg = f.msg /\ q = f.part
         \/ \E j \in DOMAIN gs : gs[j].msg = hs[k].msg /\ q \in gs[j].parts

LEMMA AddFragmentFacts ==
  ASSUME reassembly \in Seq(Group), OneGroupEach(reassembly),
         NEW f \in [msg: Message, part: Nat \ {0}]
  PROVE  /\ AddFragment(f) \in Seq(Group)
         /\ OneGroupEach(AddFragment(f))
         /\ HasGroup(AddFragment(f), f.msg)
         /\ CollectedFrom(AddFragment(f), reassembly, f)
<1> DEFINE gs == AddFragment(f)
           n == Len(reassembly)
<1>0. n \in Nat /\ DOMAIN reassembly = 1..n /\ \A i \in 1..n : reassembly[i] \in Group
  OBVIOUS
<1>1. CASE HasGroup(reassembly, f.msg)
  <2> DEFINE i == GroupIndex(reassembly, f.msg)
             g == [reassembly[i] EXCEPT !.parts = @ \cup {f.part}]
  <2>1. i \in 1..n /\ reassembly[i].msg = f.msg
    BY <1>0, <1>1, GroupIndexFacts
  <2>2. gs = [reassembly EXCEPT ![i] = g]
    BY <1>1 DEF AddFragment
  <2>3. g \in Group /\ g.msg = f.msg /\ g.parts = reassembly[i].parts \cup {f.part}
    BY <1>0, <2>1 DEF Group
  <2> HIDE DEF i, g, gs
  <2>4. DOMAIN gs = 1..n /\ gs[i] = g /\ \A k \in 1..n : k # i => gs[k] = reassembly[k]
    BY <1>0, <2>1, <2>2
  <2>5. gs \in Seq(Group)
    BY <1>0, <2>1, <2>2, <2>3
  <2>6. OneGroupEach(gs)
    BY <1>0, <2>1, <2>3, <2>4 DEF OneGroupEach
  <2>7. HasGroup(gs, f.msg)
    BY <2>1, <2>3, <2>4 DEF HasGroup
  <2>8. CollectedFrom(gs, reassembly, f)
    BY <1>0, <2>1, <2>3, <2>4 DEF CollectedFrom
  <2> QED BY <2>5, <2>6, <2>7, <2>8 DEF gs
<1>2. CASE ~HasGroup(reassembly, f.msg)
  <2> DEFINE t == WithRoom(reassembly)
             g == [msg |-> f.msg, parts |-> {f.part}]
  <2>1. t \in Seq(Group) /\ OneGroupEach(t) /\ Within(t, reassembly)
    BY WithRoomFacts
  <2>2. gs = Append(t, g)
    BY <1>2 DEF AddFragment
  <2>3. g \in Group /\ g.msg = f.msg /\ g.parts = {f.part}
    BY DEF Group
  <2> HIDE DEF t, g, gs
  <2>4. /\ gs \in Seq(Group) /\ Len(t) \in Nat /\ DOMAIN t = 1..Len(t)
        /\ DOMAIN gs = 1..(Len(t) + 1)
        /\ gs[Len(t) + 1] = g /\ \A k \in 1..Len(t) : gs[k] = t[k]
    BY <2>1, <2>2, <2>3
  <2>5. \A k \in DOMAIN gs : (k = Len(t) + 1 /\ gs[k] = g) \/ (k \in DOMAIN t /\ gs[k] = t[k])
    BY <2>4
  <2>6. \A k \in DOMAIN t : t[k].msg # f.msg
    BY <1>2, <2>1 DEF HasGroup, Within
  <2>7. OneGroupEach(gs)
    BY <2>1, <2>3, <2>5, <2>6 DEF OneGroupEach
  <2>8. HasGroup(gs, f.msg)
    BY <2>3, <2>4 DEF HasGroup
  <2>9. CollectedFrom(gs, reassembly, f)
    BY <2>1, <2>3, <2>5 DEF CollectedFrom, Within
  <2> QED BY <2>4, <2>7, <2>8, <2>9 DEF gs
<1> QED BY <1>1, <1>2

-----------------------------------------------------------------------------
(* A frame leaves the radio and is heard.                                  *)

(* The part it carries was sent, so what the receiver has collected still  *)
(* agrees with the loops.                                                  *)
LEMMA CollectedWasSent ==
  ASSUME NEW ws \in Seq(Write), ws # <<>>, NEW p, NEW spk, NEW gs, NEW hs, NEW f,
         f = Frame(Head(ws)), OneInitialLoop(ws), CopiesTrail(ws),
         QueueVersusPeer(ws, p, spk, gs, FALSE), CollectedFrom(hs, gs, f)
  PROVE  PartsWereSent(ws, hs, TRUE)
<1>1. 1 \in DOMAIN ws /\ f.msg = ws[1].msg /\ f.part = ws[1].part
  BY TailFacts DEF Frame
<1>2. DOMAIN ws \subseteq Nat /\ \A i \in DOMAIN ws : i = 1 \/ 1 < i
  BY TailFacts
<1> SUFFICES ASSUME NEW k \in DOMAIN hs, NEW i \in DOMAIN ws, ws[i].gen = Initial,
                    ws[i].msg = hs[k].msg, NEW q \in hs[k].parts
             PROVE  q < ws[i].part \/ (q = ws[i].part /\ i = 1)
  BY DEF PartsWereSent
<1>3. CASE hs[k].msg = f.msg /\ q = f.part
  <2>1. CASE ws[1].gen = Initial
    BY <1>1, <1>3, <2>1 DEF OneInitialLoop
  <2>2. CASE ws[1].gen # Initial
    BY <1>1, <1>2, <1>3, <2>2 DEF CopiesTrail
  <2> QED BY <2>1, <2>2
<1>4. CASE \E j \in DOMAIN gs : gs[j].msg = hs[k].msg /\ q \in gs[j].parts
  BY <1>4 DEF QueueVersusPeer, PartsWereSent
<1> QED BY <1>3, <1>4 DEF CollectedFrom

(* Groups that were dropped do not matter.                                 *)
LEMMA FewerGroups ==
  ASSUME NEW ws, NEW gs, NEW hs, NEW air, PartsWereSent(ws, gs, air), Within(hs, gs)
  PROVE  PartsWereSent(ws, hs, air)
  BY DEF PartsWereSent, Within

(* A message is spoken when its last frame is known to have been sent.     *)
LEMMA SpokenNow ==
  ASSUME NEW ws \in Seq(Write), ws # <<>>, NEW p, NEW spk, NEW gs,
         QueueVersusPeer(ws, p, spk, gs, FALSE), InOrder(ws, p),
         \A i \in DOMAIN ws : p[ws[i].msg] \in Nat /\ ws[i].part <= Fragments[ws[i].msg],
         \A i \in DOMAIN ws : ws[i].gen = Initial /\ ws[i].msg = Head(ws).msg =>
            Fragments[ws[i].msg] <= ws[i].part /\ i = 1
  PROVE  /\ SpokenFirst(ws, p, spk \cup {Head(ws).msg})
         /\ SpokenWasWritten(ws, spk \cup {Head(ws).msg}, TRUE)
<1>1. 1 \in DOMAIN ws /\ Head(ws) = ws[1]
  BY TailFacts
<1>2. \A i \in DOMAIN ws : i = 1 \/ 1 < i
  BY TailFacts
<1>3. \A i \in DOMAIN ws : ws[i].part \in Nat /\ Fragments[ws[i].msg] \in Nat
  BY PartFacts, EntryFacts, FragmentsAssumption
<1>4. \A i \in DOMAIN ws : p[ws[1].msg] <= p[ws[i].msg]
  BY <1>1, <1>2 DEF InOrder
<1>5. SpokenFirst(ws, p, spk \cup {ws[1].msg})
  BY <1>4 DEF QueueVersusPeer, SpokenFirst
<1>6. SpokenWasWritten(ws, spk \cup {ws[1].msg}, TRUE)
  <2> SUFFICES ASSUME NEW i \in DOMAIN ws, ws[i].gen = Initial, ws[i].msg \in spk \cup {ws[1].msg}
               PROVE  i = 1 /\ IsLastFrame(ws[i])
    BY DEF SpokenWasWritten
  <2>1. CASE ws[i].msg \in spk
    BY <2>1 DEF QueueVersusPeer, SpokenWasWritten
  <2>2. CASE ws[i].msg = ws[1].msg
    BY <1>1, <1>3, <2>2 DEF IsLastFrame
  <2> QED BY <2>1, <2>2
<1> QED BY <1>1, <1>5, <1>6

(* A frame that has left the radio changes nothing by itself.              *)
LEMMA HeadOnAir ==
  ASSUME NEW ws, NEW p, NEW spk, NEW gs, QueueVersusPeer(ws, p, spk, gs, FALSE)
  PROVE  QueueVersusPeer(ws, p, spk, gs, TRUE)
  BY DEF QueueVersusPeer, SpokenWasWritten, PartsWereSent

-----------------------------------------------------------------------------
(* The rank of a message is its position in the log.                       *)

Rank == [m \in submitted |-> Delivery!Position(m)]

LogInv ==
  /\ log \in Seq(Message)
  /\ \A i, j \in DOMAIN log : log[i] = log[j] => i = j
  /\ ToSet(log) = submitted

LEMMA RankFacts ==
  ASSUME LogInv
  PROVE  /\ \A m \in submitted : /\ Rank[m] = Delivery!Position(m)
                                 /\ Rank[m] \in 1..Len(log)
                                 /\ Rank[m] \in Nat
                                 /\ log[Rank[m]] = m
         /\ \A m, n \in submitted : Rank[m] = Rank[n] => m = n
<1>1. ASSUME NEW m \in submitted
      PROVE  /\ Rank[m] = Delivery!Position(m)
             /\ Rank[m] \in 1..Len(log)
             /\ Rank[m] \in Nat
             /\ log[Rank[m]] = m
  <2>1. PICK i \in DOMAIN log : log[i] = m
    BY DEF LogInv, ToSet
  <2>2. Delivery!Position(m) \in DOMAIN log /\ log[Delivery!Position(m)] = m
    BY <2>1 DEF Delivery!Position
  <2>3. Rank[m] = Delivery!Position(m)
    BY DEF Rank
  <2>4. DOMAIN log = 1..Len(log) /\ Len(log) \in Nat
    BY DEF LogInv
  <2> QED BY <2>2, <2>3, <2>4
<1> QED BY <1>1

(* Submitting a message ranks it above the others, which keep their rank.  *)
LEMMA RankGrows ==
  ASSUME LogInv, NEW m \in Message \ submitted, log' = Append(log, m),
         submitted' = submitted \cup {m}
  PROVE  /\ LogInv'
         /\ \A n \in submitted : Rank'[n] = Rank[n] /\ Rank[n] < Rank'[m]
         /\ Rank'[m] \in Nat
<1>1. /\ log \in Seq(Message) /\ Len(log) \in Nat /\ DOMAIN log = 1..Len(log)
      /\ log' \in Seq(Message) /\ DOMAIN log' = 1..(Len(log) + 1)
      /\ \A i \in 1..Len(log) : log'[i] = log[i]
      /\ log'[Len(log) + 1] = m
  BY DEF LogInv
<1>2. \A i \in DOMAIN log : log[i] \in submitted
  BY DEF LogInv, ToSet
<1>3. \A i, j \in DOMAIN log' : log'[i] = log'[j] => i = j
  BY <1>1, <1>2 DEF LogInv
<1>4. ToSet(log)' = submitted'
  <2>1. ASSUME NEW n \in submitted' PROVE \E i \in DOMAIN log' : log'[i] = n
    <3>1. CASE n = m
      BY <1>1, <3>1
    <3>2. CASE n \in submitted
      <4>1. PICK i \in DOMAIN log : log[i] = n
        BY <3>2 DEF LogInv, ToSet
      <4> QED BY <1>1, <4>1
    <3> QED BY <2>1, <3>1, <3>2
  <2>2. ASSUME NEW i \in DOMAIN log' PROVE log'[i] \in submitted'
    BY <1>1, <1>2
  <2> QED BY <2>1, <2>2 DEF ToSet
<1>5. LogInv'
  BY <1>1, <1>3, <1>4 DEF LogInv
<1>6. ASSUME NEW n \in submitted'
      PROVE  Rank'[n] \in DOMAIN log' /\ log'[Rank'[n]] = n
  <2>1. PICK i \in DOMAIN log' : log'[i] = n
    BY <1>4 DEF ToSet
  <2>2. Delivery!Position(n)' \in DOMAIN log' /\ log'[Delivery!Position(n)'] = n
    BY <2>1 DEF Delivery!Position
  <2>3. Rank'[n] = Delivery!Position(n)'
    BY <1>6 DEF Rank
  <2> QED BY <2>2, <2>3
<1>7. Rank'[m] = Len(log) + 1
  BY <1>1, <1>3, <1>6
<1>8. ASSUME NEW n \in submitted PROVE Rank'[n] = Rank[n] /\ Rank[n] < Rank'[m]
  <2>1. Rank[n] \in 1..Len(log) /\ log[Rank[n]] = n
    BY RankFacts
  <2>2. Rank[n] \in DOMAIN log' /\ log'[Rank[n]] = n
    BY <1>1, <2>1
  <2>3. Rank'[n] = Rank[n]
    BY <1>3, <1>6, <2>2
  <2> QED BY <1>1, <1>7, <2>1, <2>3
<1> QED BY <1>1, <1>5, <1>7, <1>8

(* Ranks matter only for the messages that are there.                      *)
LEMMA SameRanks ==
  ASSUME NEW ws, NEW p, NEW r, NEW a, NEW spk, NEW gs, NEW air,
         QueueOrder(ws, p, a), QueueVersusPeer(ws, p, spk, gs, air),
         \A i \in DOMAIN ws : r[ws[i].msg] = p[ws[i].msg],
         a # NoMessage => r[a] = p[a], \A s \in spk : r[s] = p[s]
  PROVE  QueueOrder(ws, r, a) /\ QueueVersusPeer(ws, r, spk, gs, air)
  BY DEF QueueOrder, QueueVersusPeer, InOrder, UpToActive, TipIsNewest, SpokenFirst

-----------------------------------------------------------------------------
(* No completed group is reassembled again.                                *)

(* Both caches are bounded queues of messages: storing keeps old entries   *)
(* and puts the new one last.                                              *)
LEMMA StoreFacts ==
  ASSUME NEW c \in Seq(Message), NEW max \in Nat \ {0}, NEW m \in Message
  PROVE  /\ Store(c, max, m) \in Seq(Message)
         /\ Store(c, max, m) # <<>>
         /\ Store(c, max, m)[Len(Store(c, max, m))] = m
         /\ ToSet(Store(c, max, m)) \subseteq ToSet(c) \cup {m}
<1> DEFINE b == IF Len(c) >= max THEN Tail(c) ELSE c
<1>1. b \in Seq(Message) /\ \A i \in DOMAIN b : \E j \in DOMAIN c : b[i] = c[j]
  <2>1. CASE Len(c) >= max
    <3>1. c # <<>> /\ b = Tail(c)
      BY <2>1
    <3>2. Tail(c) \in Seq(Message) /\ \A i \in DOMAIN Tail(c) : i + 1 \in DOMAIN c /\ Tail(c)[i] = c[i + 1]
      BY <3>1
    <3> QED BY <3>1, <3>2
  <2>2. CASE ~(Len(c) >= max)
    BY <2>2
  <2> QED BY <2>1, <2>2
<1>2. Store(c, max, m) = Append(b, m)
  BY DEF Store
<1> HIDE DEF b
<1>3. /\ Append(b, m) \in Seq(Message) /\ Append(b, m) # <<>>
      /\ Append(b, m)[Len(Append(b, m))] = m
      /\ \A i \in DOMAIN Append(b, m) : Append(b, m)[i] = m \/ (i \in DOMAIN b /\ Append(b, m)[i] = b[i])
  BY <1>1
<1>4. ToSet(Append(b, m)) \subseteq ToSet(c) \cup {m}
  BY <1>1, <1>3 DEF ToSet
<1> QED BY <1>2, <1>3, <1>4

LEMMA CacheSizes ==
  /\ MAX_CONCURRENT_GROUPS \in Nat \ {0}
  /\ DELIVERED_CACHE_MAX \in Nat \ {0}
  /\ COMPLETED_CACHE_MAX \in Nat \ {0}
  BY ReceiverLimits

ReassemblyInv ==
  /\ reassembly \in Seq(Group)
  /\ OneGroupEach(reassembly)
  /\ completed \in Seq(Message)
  /\ NoReassemblyOfCompletedGroup

(* What a heard fragment does to the reassembler.                          *)
LEMMA ReceivePreservesGroups ==
  ASSUME ReassemblyInv, NEW f \in [msg: Message, part: Nat \ {0}], Receive(f)
  PROVE  ReassemblyInv'
<1>1. CASE ReceiveSingle(f) \/ ReceiveOfCompletedGroup(f)
  BY <1>1 DEF ReassemblyInv, ReceiveSingle, ReceiveOfCompletedGroup, NoReassemblyOfCompletedGroup
<1>2. CASE ReceiveFragment(f)
  <2> DEFINE gs == AddFragment(f)
  <2>0. f.msg \in Message /\ f.msg \notin ToSet(completed)
    BY <1>2 DEF ReceiveFragment
  <2>1. /\ gs \in Seq(Group) /\ OneGroupEach(gs) /\ HasGroup(gs, f.msg)
        /\ CollectedFrom(gs, reassembly, f)
    BY AddFragmentFacts DEF ReassemblyInv
  <2>2. \A k \in DOMAIN gs : gs[k].msg \notin ToSet(completed)
    BY <2>0, <2>1 DEF CollectedFrom, ReassemblyInv, NoReassemblyOfCompletedGroup
  <2>3. CASE ~Complete(gs, f.msg)
    <3>1. reassembly' = gs /\ completed' = completed
      BY <1>2, <2>3 DEF ReceiveFragment
    <3> QED BY <2>1, <2>2, <3>1 DEF ReassemblyInv, NoReassemblyOfCompletedGroup
  <2>4. CASE Complete(gs, f.msg)
    <3>1. /\ reassembly' = Without(gs, f.msg)
          /\ completed' \in {completed, Store(completed, COMPLETED_CACHE_MAX, f.msg)}
      BY <1>2, <2>4 DEF ReceiveFragment
    <3> HIDE DEF gs
    <3>2. /\ reassembly' \in Seq(Group) /\ OneGroupEach(reassembly') /\ Within(reassembly', gs)
          /\ ~HasGroup(reassembly', f.msg)
      BY <2>1, <3>1, WithoutFacts
    <3>3. completed' \in Seq(Message) /\ ToSet(completed') \subseteq ToSet(completed) \cup {f.msg}
      <4>1. completed \in Seq(Message)
        BY DEF ReassemblyInv
      <4>2. LET s == Store(completed, COMPLETED_CACHE_MAX, f.msg)
            IN  s \in Seq(Message) /\ ToSet(s) \subseteq ToSet(completed) \cup {f.msg}
        BY <2>0, <4>1, StoreFacts, CacheSizes
      <4> QED BY <3>1, <4>1, <4>2
    <3>4. \A k \in DOMAIN reassembly' : reassembly'[k].msg \notin ToSet(completed')
      BY <2>2, <3>2, <3>3 DEF Within, HasGroup
    <3>5. ToSet(completed)' = ToSet(completed')
      BY DEF ToSet
    <3> QED BY <3>2, <3>3, <3>4, <3>5 DEF ReassemblyInv, NoReassemblyOfCompletedGroup
  <2> QED BY <2>3, <2>4
<1> QED BY <1>1, <1>2 DEF Receive

LEMMA FrameType ==
  ASSUME NEW ws \in Seq(Write), ws # <<>>
  PROVE  /\ Frame(Head(ws)) \in [msg: Message, part: Nat \ {0}]
         /\ Frame(Head(ws)).msg = Head(ws).msg
         /\ Frame(Head(ws)).part = Head(ws).part
         /\ Head(ws).msg \in Message
<1>1. Head(ws) \in Write
  BY TailFacts
<1> QED BY <1>1 DEF Frame, Write

LEMMA ExpirePreservesGroups ==
  ASSUME ReassemblyInv, ExpireGroups
  PROVE  ReassemblyInv' /\ Within(reassembly', reassembly)
<1>1. PICK n \in 1..Len(reassembly) : reassembly' = SubSeq(reassembly, n + 1, Len(reassembly))
  BY DEF ExpireGroups
<1>2. /\ reassembly' \in Seq(Group) /\ OneGroupEach(reassembly') /\ Within(reassembly', reassembly)
  BY <1>1, SuffixFacts DEF ReassemblyInv
<1>3. completed' = completed
  BY DEF ExpireGroups
<1> QED BY <1>2, <1>3 DEF ReassemblyInv, NoReassemblyOfCompletedGroup, Within

(* The sender takes one of its own steps in every step of the link, or     *)
(* none, so its invariant carries over.                                    *)
LEMMA LinkStepIsSenderStep ==
  submitted \subseteq Message /\ [LinkNext]_linkVars => [Next]_vars
<1> SUFFICES ASSUME submitted \subseteq Message, [LinkNext]_linkVars PROVE [Next]_vars
  OBVIOUS
<1>1. ASSUME NEW m \in Message, LinkSend(m) PROVE Next
  BY <1>1 DEF LinkSend, Next
<1>2. CASE FrameArrives \/ FrameIsLost
  BY <1>2 DEF FrameArrives, FrameIsLost, Next
<1>3. CASE AckArrives
  <2>1. HandleAck(Head(acksInAir)) /\ Head(acksInAir) \in Message
    BY <1>3 DEF AckArrives, HandleAck
  <2> QED BY <2>1 DEF Next
<1>4. CASE AckIsLost \/ (ExpireGroups /\ UNCHANGED <<vars, log>>)
  BY <1>4 DEF AckIsLost
<1>5. CASE SenderAlone
  BY <1>5 DEF SenderAlone, Next
<1>6. CASE UNCHANGED linkVars
  BY <1>6 DEF linkVars
<1> QED BY <1>1, <1>2, <1>3, <1>4, <1>5, <1>6 DEF LinkNext

LinkSenderInv == SenderInv /\ ReassemblyInv

LEMMA LinkKeepsSenderInv == LinkSenderInv /\ [LinkNext]_linkVars => LinkSenderInv'
<1> SUFFICES ASSUME SenderInv, ReassemblyInv, [LinkNext]_linkVars PROVE LinkSenderInv'
  BY DEF LinkSenderInv
<1>1. SenderInv'
  BY LinkStepIsSenderStep, NextPreserves DEF SenderInv, TypeOK
<1>2. ReassemblyInv'
  <2>1. CASE UNCHANGED <<reassembly, completed>>
    BY <2>1 DEF ReassemblyInv, NoReassemblyOfCompletedGroup
  <2>2. CASE FrameArrives
    <3>1. writes \in Seq(Write) /\ writes # <<>>
      BY <2>2 DEF FrameArrives, HeadTransmitted, SenderInv, TypeOK
    <3>2. Frame(Head(writes)) \in [msg: Message, part: Nat \ {0}]
      BY <3>1, FrameType
    <3>3. Receive(Frame(Head(writes)))
      BY <2>2 DEF FrameArrives
    <3> QED BY <3>2, <3>3, ReceivePreservesGroups
  <2>3. CASE ExpireGroups
    BY <2>3, ExpirePreservesGroups
  <2> QED BY <2>1, <2>2, <2>3
          DEF LinkNext, linkVars, receiverVars, LinkSend, FrameIsLost, AckArrives, AckIsLost,
              SenderAlone
<1> QED BY <1>1, <1>2 DEF LinkSenderInv

LEMMA LinkSenderInvariant == LinkSpec => []LinkSenderInv
<1>1. LinkInit => LinkSenderInv
  <2> SUFFICES ASSUME LinkInit PROVE LinkSenderInv
    OBVIOUS
  <2>1. SenderInv
    BY InitEstablishes DEF LinkInit
  <2>2. ReassemblyInv
    BY DEF LinkInit, ReceiverInit, ReassemblyInv, OneGroupEach, NoReassemblyOfCompletedGroup
  <2> QED BY <2>1, <2>2 DEF LinkSenderInv
<1> QED BY <1>1, LinkKeepsSenderInv, PTL DEF LinkSpec

(* Late fragments of a group that the completed-group cache remembers      *)
(* never start a second reassembly of it.                                  *)
THEOREM CompletedGroupsStayDone == LinkSpec => []NoReassemblyOfCompletedGroup
<1>1. LinkSenderInv => NoReassemblyOfCompletedGroup
  BY DEF LinkSenderInv, ReassemblyInv
<1> QED BY <1>1, LinkSenderInvariant, PTL

-----------------------------------------------------------------------------
(* Nothing is acknowledged that was not spoken.                            *)

Spoken == ToSet(spoken)

(* Every memory of a delivery, at either end or on its way back, is of a   *)
(* message that was spoken.                                                *)
AckInv ==
  /\ spoken \in Seq(Message) /\ delivered \in Seq(Message) /\ acksInAir \in Seq(Message)
  /\ ToSet(delivered) \cup ToSet(completed) \cup ToSet(acksInAir) \cup acked \subseteq Spoken

LEMMA AppendMember ==
  ASSUME NEW s \in Seq(Message), NEW m \in Message
  PROVE  Append(s, m) \in Seq(Message) /\ ToSet(Append(s, m)) = ToSet(s) \cup {m}
<1>1. /\ Append(s, m) \in Seq(Message) /\ Len(s) \in Nat /\ DOMAIN s = 1..Len(s)
      /\ DOMAIN Append(s, m) = 1..(Len(s) + 1) /\ Append(s, m)[Len(s) + 1] = m
      /\ \A i \in 1..Len(s) : Append(s, m)[i] = s[i]
  OBVIOUS
<1>2. ToSet(Append(s, m)) \subseteq ToSet(s) \cup {m}
  BY <1>1 DEF ToSet
<1>3. m \in ToSet(Append(s, m))
  BY <1>1 DEF ToSet
<1>4. ToSet(s) \subseteq ToSet(Append(s, m))
  BY <1>1 DEF ToSet
<1> QED BY <1>1, <1>2, <1>3, <1>4

LEMMA TailMember ==
  ASSUME NEW s \in Seq(Message), s # <<>>
  PROVE  Tail(s) \in Seq(Message) /\ ToSet(Tail(s)) \subseteq ToSet(s) /\ Head(s) \in ToSet(s)
<1>1. /\ Tail(s) \in Seq(Message) /\ \A i \in DOMAIN Tail(s) : i + 1 \in DOMAIN s /\ Tail(s)[i] = s[i + 1]
      /\ 1 \in DOMAIN s /\ Head(s) = s[1]
  OBVIOUS
<1> QED BY <1>1 DEF ToSet

(* A heard frame.                                                          *)
LEMMA ReceiveKeepsAcks ==
  ASSUME AckInv, ReassemblyInv, NEW f \in [msg: Message, part: Nat \ {0}], Receive(f),
         acked' = acked
  PROVE  AckInv'
<1> DEFINE m == f.msg
<1>0. /\ m \in Message /\ completed \in Seq(Message)
      /\ spoken \in Seq(Message) /\ delivered \in Seq(Message) /\ acksInAir \in Seq(Message)
      /\ ToSet(delivered) \cup ToSet(completed) \cup ToSet(acksInAir) \cup acked \subseteq Spoken
  BY DEF AckInv, ReassemblyInv
<1>p. /\ Spoken' = ToSet(spoken') /\ ToSet(delivered)' = ToSet(delivered')
      /\ ToSet(completed)' = ToSet(completed') /\ ToSet(acksInAir)' = ToSet(acksInAir')
  BY DEF Spoken, ToSet
<1> HIDE DEF m
<1>1. ASSUME Deliver(m), ToSet(completed') \subseteq ToSet(completed) \cup {m}
      PROVE  AckInv'
  <2>1. acksInAir' \in Seq(Message) /\ ToSet(acksInAir') = ToSet(acksInAir) \cup {m}
    BY <1>0, <1>1, AppendMember DEF Deliver, SendAck
  <2>2. CASE m \in ToSet(delivered)
    <3>1. UNCHANGED <<delivered, spoken>>
      BY <1>1, <2>2 DEF Deliver
    <3> QED BY <1>0, <1>p, <1>1, <2>1, <2>2, <3>1 DEF AckInv, Spoken
  <2>3. CASE m \notin ToSet(delivered)
    <3>1. delivered' = Store(delivered, DELIVERED_CACHE_MAX, m) /\ spoken' = Append(spoken, m)
      BY <1>1, <2>3 DEF Deliver
    <3>2. spoken' \in Seq(Message) /\ ToSet(spoken') = ToSet(spoken) \cup {m}
      BY <1>0, <3>1, AppendMember
    <3>3. delivered' \in Seq(Message) /\ ToSet(delivered') \subseteq ToSet(delivered) \cup {m}
      BY <1>0, <3>1, StoreFacts, CacheSizes
    <3> QED BY <1>0, <1>p, <1>1, <2>1, <3>2, <3>3 DEF AckInv, Spoken
  <2> QED BY <2>2, <2>3
<1>2. CASE ReceiveSingle(f)
  BY <1>1, <1>2 DEF ReceiveSingle, m
<1>3. CASE ReceiveOfCompletedGroup(f)
  <2>1. /\ m \in ToSet(completed) /\ acksInAir' = Append(acksInAir, m)
        /\ UNCHANGED <<delivered, completed, spoken>>
    BY <1>3 DEF ReceiveOfCompletedGroup, SendAck, m
  <2>2. acksInAir' \in Seq(Message) /\ ToSet(acksInAir') = ToSet(acksInAir) \cup {m}
    BY <1>0, <2>1, AppendMember
  <2> QED BY <1>0, <1>p, <2>1, <2>2 DEF AckInv, Spoken
<1>4. CASE ReceiveFragment(f)
  <2>1. \/ UNCHANGED <<delivered, completed, spoken, acksInAir>>
        \/ /\ Deliver(m)
           /\ completed' \in {completed, Store(completed, COMPLETED_CACHE_MAX, m)}
    BY <1>4 DEF ReceiveFragment, m
  <2>2. ToSet(Store(completed, COMPLETED_CACHE_MAX, m)) \subseteq ToSet(completed) \cup {m}
    BY <1>0, StoreFacts, CacheSizes
  <2>3. CASE UNCHANGED <<delivered, completed, spoken, acksInAir>>
    BY <1>0, <1>p, <2>3 DEF AckInv, Spoken
  <2> QED BY <1>1, <2>1, <2>2, <2>3
<1> QED BY <1>2, <1>3, <1>4 DEF Receive

LEMMA LinkKeepsAcks == LinkSenderInv /\ AckInv /\ [LinkNext]_linkVars => AckInv'
<1> SUFFICES ASSUME LinkSenderInv, AckInv, [LinkNext]_linkVars PROVE AckInv'
  OBVIOUS
<1>0. /\ spoken \in Seq(Message) /\ delivered \in Seq(Message) /\ acksInAir \in Seq(Message)
      /\ ToSet(delivered) \cup ToSet(completed) \cup ToSet(acksInAir) \cup acked \subseteq Spoken
  BY DEF AckInv
<1>p. /\ Spoken' = ToSet(spoken') /\ ToSet(delivered)' = ToSet(delivered')
      /\ ToSet(completed)' = ToSet(completed') /\ ToSet(acksInAir)' = ToSet(acksInAir')
  BY DEF Spoken, ToSet
<1>1. ASSUME UNCHANGED <<spoken, delivered, completed>>,
             acksInAir' = acksInAir \/ (acksInAir # <<>> /\ acksInAir' = Tail(acksInAir)),
             acked' \subseteq Spoken
      PROVE  AckInv'
  <2>1. acksInAir' \in Seq(Message) /\ ToSet(acksInAir') \subseteq ToSet(acksInAir)
    BY <1>0, <1>1, TailMember
  <2> QED BY <1>0, <1>p, <1>1, <2>1 DEF AckInv, Spoken
<1>2. CASE FrameArrives
  <2>1. /\ writes \in Seq(Write) /\ writes # <<>> /\ acked' = acked
        /\ Receive(Frame(Head(writes)))
    BY <1>2 DEF FrameArrives, HeadTransmitted, LinkSenderInv, SenderInv, TypeOK
  <2> QED BY <2>1, FrameType, ReceiveKeepsAcks DEF LinkSenderInv
<1>3. CASE AckArrives
  <2>1. /\ acksInAir # <<>> /\ acksInAir' = Tail(acksInAir) /\ HandleAck(Head(acksInAir))
        /\ UNCHANGED <<spoken, delivered, completed>>
    BY <1>3 DEF AckArrives
  <2>2. acked' \subseteq acked \cup {Head(acksInAir)}
    BY <2>1 DEF HandleAck, HandleAckActive, HandleAckQueued, HandleAckUnknown, vars
  <2> QED BY <1>0, <1>1, <2>1, <2>2, TailMember
<1>4. CASE AckIsLost
  <2>1. /\ acksInAir # <<>> /\ acksInAir' = Tail(acksInAir)
        /\ UNCHANGED <<spoken, delivered, completed, acked>>
    BY <1>4 DEF AckIsLost, vars
  <2> QED BY <1>0, <1>1, <2>1
<1>5. CASE UNCHANGED <<spoken, delivered, completed, acksInAir, acked>>
  BY <1>0, <1>1, <1>5
<1>6. ASSUME NEW m \in Message, LinkSend(m) PROVE AckInv'
  BY <1>5, <1>6 DEF LinkSend, Send, receiverVars
<1>7. CASE FrameIsLost \/ (ExpireGroups /\ UNCHANGED <<vars, log>>) \/ UNCHANGED linkVars
  BY <1>5, <1>7 DEF FrameIsLost, HeadTransmitted, ExpireGroups, vars, receiverVars, linkVars
<1>8. CASE SenderAlone
  BY <1>5, <1>8 DEF SenderAlone, receiverVars, HandleTimeout, Cancel, WriteSettled, InitialSettled,
                    RetransmissionContinues, RetransmissionEnds
<1> QED BY <1>2, <1>3, <1>4, <1>6, <1>7, <1>8 DEF LinkNext

(* However long the messages are, none is counted as acknowledged that the *)
(* receiver did not speak.                                                 *)
THEOREM AckedWasSpoken == LinkSpec => [](acked \subseteq ToSet(spoken))
<1>1. LinkInit => AckInv
  <2>1. ToSet(<<>>) = {}
    BY DEF ToSet
  <2> QED BY <2>1 DEF LinkInit, Init, ReceiverInit, AckInv, Spoken
<1>2. AckInv => acked \subseteq ToSet(spoken)
  BY DEF AckInv, Spoken
<1> QED BY <1>1, <1>2, LinkKeepsAcks, LinkSenderInvariant, PTL DEF LinkSpec

-----------------------------------------------------------------------------
(* The invariant behind the refinement.                                    *)

(* What the receiver remembers it has spoken; the last message spoken is   *)
(* always the newest entry of the delivered-message cache.                 *)
PeerInv ==
  /\ LogInv
  /\ delivered \in Seq(Message)
  /\ spoken \in Seq(Message)
  /\ acksInAir \in Seq(Message)
  /\ Spoken \subseteq submitted
  /\ ToSet(delivered) \cup ToSet(completed) \cup ToSet(acksInAir) \cup acked \subseteq Spoken
  /\ spoken # <<>> => /\ spoken[Len(spoken)] = delivered[Len(delivered)]
                      /\ delivered # <<>>
                      /\ \A s \in Spoken : Rank[s] <= Rank[spoken[Len(spoken)]]
  /\ \A k \in DOMAIN reassembly :
       /\ reassembly[k].msg \in submitted
       /\ reassembly[k].msg # queued
       /\ reassembly[k].parts \subseteq 1..Fragments[reassembly[k].msg]

TurnInv ==
  /\ queued # NoMessage => Rank[active] < Rank[queued]
  /\ active # NoMessage => \A s \in Spoken : Rank[s] <= Rank[active]
  /\ QueueOrder(writes, Rank, active)
  /\ QueueVersusPeer(writes, Rank, Spoken, reassembly, onAir)
  /\ cancelled => active = NoMessage /\ ~retransmitting /\ ~retryTimer
  /\ ~cancelled => LoopsInTurn(writes, active, retryCount, retryTimer, retransmitting)

LinkInv == LinkSenderInv /\ PeerInv /\ TurnInv

(* What the sender's own invariant says of the queue.                      *)
LEMMA WriteRanks ==
  ASSUME LinkInv
  PROVE  /\ writes \in Seq(Write)
         /\ \A i \in DOMAIN writes : /\ writes[i].msg \in submitted
                                     /\ writes[i].part <= Fragments[writes[i].msg]
                                     /\ Rank[writes[i].msg] \in Nat
         /\ active # NoMessage => active \in submitted /\ active \in Message /\ Rank[active] \in Nat
         /\ queued # NoMessage => queued \in submitted /\ queued \in Message /\ Rank[queued] \in Nat
         /\ \A k \in DOMAIN reassembly : reassembly[k].parts \subseteq Nat
         /\ \A s \in Spoken : Rank[s] \in Nat
<1>1. writes \in Seq(Write) /\ submitted \subseteq Message
      /\ active \in Message \cup {NoMessage} /\ queued \in Message \cup {NoMessage}
  BY DEF LinkInv, LinkSenderInv, SenderInv, TypeOK
<1>2. \A m \in submitted : Rank[m] \in Nat
  BY RankFacts DEF LinkInv, PeerInv
<1>3. \A i \in DOMAIN writes : writes[i].msg \in submitted /\ writes[i].part <= Fragments[writes[i].msg]
  BY DEF LinkInv, LinkSenderInv, SenderInv, LoopsWellFormed
<1>4. {active, queued} \ {NoMessage} \subseteq submitted
  BY DEF LinkInv, LinkSenderInv, SenderInv, SlotsInv
<1>5. \A k \in DOMAIN reassembly : reassembly[k].parts \subseteq Nat
  <2> SUFFICES ASSUME NEW k \in DOMAIN reassembly PROVE reassembly[k].parts \subseteq Nat
    OBVIOUS
  <2>1. reassembly[k].msg \in Message /\ Fragments[reassembly[k].msg] \in Nat
    BY <1>1, FragmentsAssumption DEF LinkInv, PeerInv
  <2>2. reassembly[k].parts \subseteq 1..Fragments[reassembly[k].msg]
    BY DEF LinkInv, PeerInv
  <2> QED BY <2>1, <2>2
<1>6. Spoken \subseteq submitted
  BY DEF LinkInv, PeerInv
<1> QED BY <1>1, <1>2, <1>3, <1>4, <1>5, <1>6

(* A step that submits nothing keeps the ranks.                            *)
LEMMA RankStays ==
  ASSUME UNCHANGED <<submitted, log>>
  PROVE  Rank' = Rank /\ (LogInv => LogInv')
  BY DEF Rank, LogInv, Delivery!Position, ToSet

(* A step of the sender that the peer does not see.                        *)
LEMMA PeerUnaware ==
  ASSUME PeerInv, UNCHANGED <<submitted, log, reassembly, delivered, completed, spoken>>,
         acksInAir' = acksInAir \/ (acksInAir # <<>> /\ acksInAir' = Tail(acksInAir)),
         queued' \in {queued, NoMessage}, acked' \subseteq Spoken, submitted \subseteq Message
  PROVE  PeerInv' /\ Spoken' = Spoken
<1>1. Rank' = Rank /\ LogInv'
  BY RankStays DEF PeerInv
<1>2. Spoken' = Spoken /\ ToSet(delivered)' = ToSet(delivered) /\ ToSet(completed)' = ToSet(completed)
  BY DEF Spoken, ToSet
<1>3. acksInAir' \in Seq(Message) /\ ToSet(acksInAir)' \subseteq ToSet(acksInAir)
  <2>1. CASE acksInAir' = acksInAir
    BY <2>1 DEF PeerInv, ToSet
  <2>2. CASE acksInAir # <<>> /\ acksInAir' = Tail(acksInAir)
    <3>1. /\ Tail(acksInAir) \in Seq(Message)
          /\ \A i \in DOMAIN Tail(acksInAir) :
               i + 1 \in DOMAIN acksInAir /\ Tail(acksInAir)[i] = acksInAir[i + 1]
      BY <2>2 DEF PeerInv
    <3> QED BY <2>2, <3>1 DEF ToSet
  <2> QED BY <2>1, <2>2
<1>4. \A k \in DOMAIN reassembly : reassembly[k].msg # NoMessage
  BY MessageAssumption DEF PeerInv
<1> QED BY <1>1, <1>2, <1>3, <1>4 DEF PeerInv

-----------------------------------------------------------------------------
(* The slot passes to the queued message, or stays empty.                  *)
LEMMA SlotPasses ==
  ASSUME LinkInv, NEW ws \in Seq(Write), NEW air,
         QueueOrder(ws, Rank, active), QueueVersusPeer(ws, Rank, Spoken, reassembly, air),
         SlotCanBeFilled(ws, retryTimer'), retryTimer' \in BOOLEAN,
         queued # NoMessage => NoFrameOf(ws, queued),
         \A i \in DOMAIN ws : Rank[ws[i].msg] \in Nat,
         NEW rc \in [Message -> Nat], PromoteQueued(ws, rc),
         UNCHANGED <<submitted, log, reassembly, spoken>>,
         onAir' = air, cancelled' = FALSE, retransmitting' = FALSE
  PROVE  TurnInv'
<1>1. Rank' = Rank /\ Spoken' = Spoken
  BY RankStays DEF Spoken, ToSet
<1>2. CASE queued = NoMessage
  <2>1. active' = NoMessage /\ queued' = NoMessage /\ writes' = ws
    BY <1>2 DEF PromoteQueued
  <2>2. QueueOrder(ws, Rank, NoMessage)
    BY DEF QueueOrder, UpToActive
  <2>3. LoopsInTurn(ws, NoMessage, retryCount', retryTimer', FALSE)
    BY TurnVacated
  <2> QED BY <1>1, <2>1, <2>2, <2>3 DEF TurnInv
<1>3. CASE queued # NoMessage
  <2> DEFINE r == Append(ws, FirstFrame(queued, Initial))
  <2>1. active' = queued /\ queued' = NoMessage /\ writes' = r /\ retryCount' = [rc EXCEPT ![queued] = 0]
    BY <1>3 DEF PromoteQueued
  <2>2. /\ queued \in Message /\ Rank[queued] \in Nat /\ active # NoMessage /\ Rank[active] \in Nat
        /\ \A s \in Spoken : Rank[s] \in Nat
    BY <1>3, WriteRanks DEF LinkInv, LinkSenderInv, SenderInv, SlotsInv
  <2>3. Rank[active] < Rank[queued] /\ \A s \in Spoken : Rank[s] <= Rank[active]
    BY <1>3, <2>2 DEF LinkInv, TurnInv
  <2>4. \A s \in Spoken : Rank[s] <= Rank[queued] /\ s # queued
    BY <2>2, <2>3
  <2>5. \A i \in DOMAIN ws : Rank[ws[i].msg] <= Rank[queued] /\ ~Unfinished(ws[i])
    <3>1. \A i \in DOMAIN ws : Rank[ws[i].msg] <= Rank[active]
      BY <2>2 DEF QueueOrder, UpToActive
    <3>2. \A i \in DOMAIN ws : Rank[ws[i].msg] <= Rank[queued]
      BY <2>2, <2>3, <3>1
    <3> QED BY <3>2 DEF SlotCanBeFilled
  <2>6. \A k \in DOMAIN reassembly : reassembly[k].msg # queued
    BY DEF LinkInv, PeerInv
  <2>7. QueueOrder(r, Rank, queued) /\ QueueVersusPeer(r, Rank, Spoken, reassembly, air)
    BY <1>3, <2>2, <2>4, <2>5, <2>6, PushFirst
  <2>8. retryCount'[queued] = 0
    BY <2>1, <2>2
  <2>9. LoopsInTurn(r, queued, retryCount', retryTimer', FALSE)
    BY <1>3, <2>2, <2>8, TurnBegins
  <2> HIDE DEF r
  <2> QED BY <1>1, <2>1, <2>4, <2>7, <2>9 DEF TurnInv
<1> QED BY <1>2, <1>3

(* Nothing changes but the timer, which may be cleared, and the queue slot,*)
(* which may be emptied.                                                   *)
LEMMA TurnKept ==
  ASSUME LinkInv,
         UNCHANGED <<submitted, log, reassembly, spoken, writes, active, retryCount,
                     retransmitting, onAir, cancelled>>,
         queued' \in {queued, NoMessage}, retryTimer' \in {retryTimer, FALSE}
  PROVE  TurnInv'
<1>1. Rank' = Rank /\ Spoken' = Spoken
  BY RankStays DEF Spoken, ToSet
<1>2. ~cancelled => LoopsInTurn(writes, active, retryCount, retryTimer', retransmitting)
  BY TurnDisarmed DEF LinkInv, TurnInv
<1>3. cancelled => ~retryTimer'
  BY DEF LinkInv, TurnInv
<1> QED BY <1>1, <1>2, <1>3 DEF LinkInv, TurnInv

(* An acknowledgement of something the peer has spoken.                    *)
LEMMA AckKeepsTurn ==
  ASSUME LinkInv, NEW m \in Spoken, HandleAck(m), UNCHANGED <<log, reassembly, spoken>>
  PROVE  TurnInv' /\ queued' \in {queued, NoMessage} /\ acked' \in {acked, acked \cup {m}}
<1>0. ~cancelled /\ retransmitting \in BOOLEAN /\ retryCount \in [Message -> 0..MAX_RETRIES + 1]
      /\ writes \in Seq(Write)
  BY DEF HandleAck, LinkInv, LinkSenderInv, SenderInv, TypeOK
<1>1. CASE HandleAckActive(m) /\ retransmitting
  <2>1. UNCHANGED <<submitted, writes, active, queued, retryCount, retransmitting, onAir, cancelled>>
        /\ retryTimer' = FALSE /\ acked' = acked \cup {m}
    BY <1>1 DEF HandleAckActive
  <2> QED BY <2>1, TurnKept
<1>2. CASE HandleAckActive(m) /\ ~retransmitting
  <2>1. /\ active = m /\ retryTimer' = FALSE /\ PromoteQueued(writes, retryCount)
        /\ acked' = acked \cup {m}
        /\ UNCHANGED <<submitted, retransmitting, onAir, cancelled>>
    BY <1>2 DEF HandleAckActive
  <2>2. m \in submitted /\ active # NoMessage /\ Rank[active] \in Nat
    BY <2>1, WriteRanks, MessageAssumption DEF LinkInv, PeerInv, LinkSenderInv, SenderInv, TypeOK
  <2>3. /\ QueueOrder(writes, Rank, active)
        /\ QueueVersusPeer(writes, Rank, Spoken, reassembly, onAir)
        /\ LoopsInTurn(writes, active, retryCount, retryTimer, retransmitting)
    BY <1>0 DEF LinkInv, TurnInv
  <2>4. \A i \in DOMAIN writes : writes[i].gen = Initial => writes[i].msg = active
    <3> SUFFICES ASSUME NEW i \in DOMAIN writes, writes[i].msg # active PROVE writes[i].gen # Initial
      OBVIOUS
    <3>1. Rank[active] <= Rank[writes[i].msg] /\ Rank[writes[i].msg] <= Rank[active]
      BY <2>1, <2>2, <2>3 DEF QueueOrder, UpToActive, QueueVersusPeer, SpokenFirst
    <3>2. Rank[writes[i].msg] = Rank[active] /\ writes[i].msg \in submitted
      BY <2>2, <3>1, WriteRanks
    <3>3. writes[i].msg = active
      BY <2>1, <2>2, <3>2, RankFacts DEF LinkInv, PeerInv
    <3> QED BY <3>3
  <2>5. SlotCanBeFilled(writes, FALSE)
    <3>1. \A i \in DOMAIN writes : ~Unfinished(writes[i])
      BY <2>1, <2>3, <2>4 DEF QueueVersusPeer, SpokenWasWritten, Unfinished
    <3>2. \A i, j \in DOMAIN writes : writes[i].gen = Initial /\ writes[j].gen = Initial => i = j
      BY <2>3, <2>4 DEF QueueOrder, OneInitialLoop
    <3> QED BY <3>1, <3>2 DEF SlotCanBeFilled
  <2>6. queued # NoMessage => NoFrameOf(writes, queued)
    BY DEF LinkInv, LinkSenderInv, SenderInv, SlotsInv
  <2>7. retryCount \in [Message -> Nat]
    BY <1>0, RetriesAssumption
  <2>8. \A i \in DOMAIN writes : Rank[writes[i].msg] \in Nat
    BY WriteRanks
  <2>9. cancelled' = FALSE /\ retransmitting' = FALSE
    BY <1>0, <1>2, <2>1 DEF LinkInv, LinkSenderInv, SenderInv, TypeOK
  <2>10. TurnInv'
    BY <1>0, <2>1, <2>3, <2>5, <2>6, <2>7, <2>8, <2>9, SlotPasses
  <2> QED BY <2>1, <2>10 DEF PromoteQueued
<1>3. CASE HandleAckQueued(m)
  <2>1. /\ UNCHANGED <<submitted, writes, active, retryCount, retryTimer, retransmitting, onAir, cancelled>>
        /\ queued' = NoMessage /\ acked' = acked \cup {m}
    BY <1>3 DEF HandleAckQueued
  <2> QED BY <2>1, TurnKept
<1>4. CASE HandleAckUnknown(m)
  <2>1. UNCHANGED <<submitted, writes, active, queued, acked, retryCount, retryTimer, retransmitting, onAir, cancelled>>
    BY <1>4 DEF HandleAckUnknown, vars
  <2> QED BY <2>1, TurnKept
<1> QED BY <1>0, <1>1, <1>2, <1>3, <1>4 DEF HandleAck

(* The ACK timeout.  Here the bound on the fragments is needed: a message  *)
(* is given up only after as many retries as its initial loop has sent     *)
(* frames, so by then that loop is at its last frame.                      *)
LEMMA TimeoutKeepsTurn ==
  ASSUME LinkInv, ShortMessages, HandleTimeout, UNCHANGED <<log, reassembly, spoken>>
  PROVE  TurnInv' /\ queued' \in {queued, NoMessage}
<1>0. /\ retryTimer = TRUE /\ retryTimer' = FALSE /\ ~cancelled /\ cancelled' = FALSE
      /\ retransmitting \in BOOLEAN /\ retransmitGeneration \in Nat
      /\ retryCount \in [Message -> 0..MAX_RETRIES + 1]
      /\ writes \in Seq(Write) /\ MAX_RETRIES \in Nat
      /\ UNCHANGED <<submitted, onAir>>
  BY RetriesAssumption DEF HandleTimeout, LinkInv, TurnInv, LinkSenderInv, SenderInv, TypeOK
<1>1. CASE active = NoMessage
  <2>1. UNCHANGED <<active, queued, retryCount, retransmitting, writes, cancelled>>
    BY <1>1 DEF HandleTimeout
  <2> QED BY <1>0, <2>1, TurnKept
<1>2. CASE active # NoMessage
  <2> DEFINE rc == [retryCount EXCEPT ![active] = @ + 1]
  <2>0. /\ active \in Message /\ Rank[active] \in Nat /\ rc[active] = retryCount[active] + 1
        /\ retryCount[active] \in Nat
    BY <1>0, <1>2, WriteRanks
  <2>1. /\ QueueOrder(writes, Rank, active)
        /\ QueueVersusPeer(writes, Rank, Spoken, reassembly, onAir)
        /\ LoopsInTurn(writes, active, retryCount, TRUE, retransmitting)
        /\ \A s \in Spoken : Rank[s] <= Rank[active]
    BY <1>0, <1>2 DEF LinkInv, TurnInv
  <2>2. CASE rc[active] > MAX_RETRIES
    <3>1. GiveUp(rc)
      BY <1>2, <2>2 DEF HandleTimeout
    <3>2. SlotCanBeFilled(writes, FALSE)
      <4>1. \A i \in DOMAIN writes : writes[i].gen = Initial => writes[i].msg = active
        BY <2>1 DEF LoopsInTurn, OneStraggler
      <4>2. ASSUME NEW i \in DOMAIN writes, Unfinished(writes[i]) PROVE FALSE
        <5>1. writes[i].gen = Initial /\ writes[i].msg = active
          BY <4>1, <4>2 DEF Unfinished
        <5>2. retryCount[active] + 1 <= writes[i].part
          BY <1>2, <2>1, <5>1 DEF LoopsInTurn, RetriesTrail
        <5>3. writes[i].part <= Fragments[active] /\ Fragments[active] <= MAX_RETRIES + 1
          BY <2>0, <5>1, WriteRanks DEF ShortMessages
        <5>4. writes[i].part \in Nat /\ Fragments[active] \in Nat
          BY <1>0, <2>0, PartFacts, FragmentsAssumption
        <5>5. writes[i].part = Fragments[writes[i].msg]
          BY <1>0, <2>0, <2>2, <5>1, <5>2, <5>3, <5>4
        <5> QED BY <4>2, <5>5 DEF Unfinished, IsLastFrame
      <4>3. \A i, j \in DOMAIN writes : writes[i].gen = Initial /\ writes[j].gen = Initial => i = j
        BY <2>1, <4>1 DEF QueueOrder, OneInitialLoop
      <4> QED BY <4>2, <4>3 DEF SlotCanBeFilled
    <3>3. queued # NoMessage => NoFrameOf(writes, queued)
      BY DEF LinkInv, LinkSenderInv, SenderInv, SlotsInv
    <3>4. rc \in [Message -> Nat]
      BY <1>0, <2>0
    <3>5. \A i \in DOMAIN writes : Rank[writes[i].msg] \in Nat
      BY WriteRanks
    <3>6. retransmitting' = FALSE /\ PromoteQueued(writes, rc)
      BY <3>1 DEF GiveUp
    <3> HIDE DEF rc
    <3>7. TurnInv'
      BY <1>0, <2>1, <3>2, <3>3, <3>4, <3>5, <3>6, SlotPasses
    <3> QED BY <3>6, <3>7 DEF PromoteQueued
  <2>3. CASE ~(rc[active] > MAX_RETRIES)
    <3>1. retryCount' = rc /\ Retransmit /\ UNCHANGED <<active, queued>>
      BY <1>2, <2>3 DEF HandleTimeout
    <3>2. Rank' = Rank /\ Spoken' = Spoken
      BY <1>0, RankStays DEF Spoken, ToSet
    <3>3. queued # NoMessage => Rank[active] < Rank[queued]
      BY DEF LinkInv, TurnInv
    <3>4. CASE retransmitting
      <4>1. UNCHANGED <<retransmitting, writes>>
        BY <3>1, <3>4 DEF Retransmit
      <4>2. LoopsInTurn(writes, active, retryCount', FALSE, TRUE)
        BY <1>0, <2>1, <3>4, TurnRetriesAgain
      <4> QED BY <1>0, <2>1, <3>1, <3>2, <3>3, <3>4, <4>1, <4>2 DEF TurnInv
    <3>5. CASE ~retransmitting
      <4> DEFINE g == retransmitGeneration + 1
                 r == Append(writes, FirstFrame(active, g))
      <4>1. retransmitting' = TRUE /\ writes' = r /\ g \in Nat \ {0}
        BY <1>0, <3>1, <3>5 DEF Retransmit
      <4>2. \A i \in DOMAIN writes : writes[i].msg = active => writes[i].gen = Initial
        BY <3>5 DEF LinkInv, LinkSenderInv, SenderInv, LoopsMatch
      <4>3. LoopsInTurn(r, active, retryCount', FALSE, TRUE)
        <5>1. LoopsInTurn(writes, active, retryCount, TRUE, FALSE)
          BY <1>0, <2>1, <3>5
        <5>2. retryCount'[active] = retryCount[active] + 1
          BY <2>0, <3>1
        <5> HIDE DEF g, rc
        <5> QED BY <1>0, <2>0, <4>1, <4>2, <5>1, <5>2, TurnRetries
      <4>4. QueueOrder(r, Rank, active) /\ QueueVersusPeer(r, Rank, Spoken, reassembly, onAir)
        <5>1. TipIsActive(writes, active)
          BY <2>1 DEF LoopsInTurn
        <5> HIDE DEF g
        <5> QED BY <1>0, <2>0, <2>1, <4>1, <5>1, PushCopy
      <4> HIDE DEF r
      <4> QED BY <1>0, <1>2, <2>1, <3>1, <3>2, <3>3, <4>1, <4>3, <4>4 DEF TurnInv
    <3> QED BY <3>1, <3>4, <3>5
  <2> QED BY <2>2, <2>3
<1> QED BY <1>1, <1>2

(* cancel(): the loops that are running run on, without their manager.     *)
LEMMA CancelKeepsTurn ==
  ASSUME LinkInv, Cancel, UNCHANGED <<log, reassembly, spoken>>
  PROVE  TurnInv' /\ queued' \in {queued, NoMessage}
<1>1. /\ Rank' = Rank /\ Spoken' = Spoken
  BY RankStays DEF Spoken, ToSet, Cancel
<1>2. /\ active' = NoMessage /\ queued' = NoMessage /\ writes' = writes /\ onAir' = onAir
      /\ cancelled' = TRUE /\ retryTimer' = FALSE /\ retransmitting' = FALSE
  BY DEF Cancel
<1>3. QueueOrder(writes, Rank, NoMessage) /\ QueueVersusPeer(writes, Rank, Spoken, reassembly, onAir)
  BY DEF LinkInv, TurnInv, QueueOrder, UpToActive
<1> QED BY <1>1, <1>2, <1>3 DEF TurnInv

(* A write of an initial loop settles.                                     *)
LEMMA InitialKeepsTurn ==
  ASSUME LinkInv, NEW ok \in BOOLEAN, InitialSettled(ok), UNCHANGED <<log, reassembly, spoken>>
  PROVE  TurnInv' /\ queued' = queued
<1>1. Rank' = Rank /\ Spoken' = Spoken
  BY RankStays DEF Spoken, ToSet, InitialSettled
<1>2. /\ writes # <<>> /\ Head(writes).gen = Initial /\ onAir' = FALSE
      /\ retryTimer' = (retryTimer \/ (ok /\ IsLastFrame(Head(writes)) /\ active # NoMessage))
      /\ UNCHANGED <<active, queued, retryCount, retransmitting, cancelled>>
  BY DEF InitialSettled, Settles
<1>3. /\ writes \in Seq(Write) /\ onAir \in BOOLEAN /\ retryTimer \in BOOLEAN
      /\ retryCount \in [Message -> 0..MAX_RETRIES + 1] /\ cancelled \in BOOLEAN
  BY DEF LinkInv, LinkSenderInv, SenderInv, TypeOK
<1>4. /\ QueueOrder(writes, Rank, active)
      /\ QueueVersusPeer(writes, Rank, Spoken, reassembly, onAir)
      /\ queued # NoMessage => Rank[active] < Rank[queued]
      /\ active # NoMessage => \A s \in Spoken : Rank[s] <= Rank[active]
      /\ cancelled => active = NoMessage /\ ~retransmitting /\ ~retryTimer
      /\ ~cancelled => LoopsInTurn(writes, active, retryCount, retryTimer, retransmitting)
  BY DEF LinkInv, TurnInv
<1>5. /\ \A i \in DOMAIN writes : Rank[writes[i].msg] \in Nat
      /\ \A k \in DOMAIN reassembly : reassembly[k].parts \subseteq Nat
      /\ active # NoMessage => Rank[active] \in Nat
      /\ 1 \in DOMAIN writes /\ Head(writes) = writes[1]
      /\ Head(writes).part <= Fragments[Head(writes).msg]
  BY <1>2, <1>3, WriteRanks, TailFacts
<1>6. \A i \in DOMAIN writes :
        active # NoMessage /\ Rank[writes[i].msg] = Rank[active] => writes[i].msg = active
  BY WriteRanks, RankFacts DEF LinkInv, PeerInv
<1>7. CASE ok /\ ~IsLastFrame(Head(writes))
  <2> DEFINE r == Append(Tail(writes), NextFrame(Head(writes)))
  <2>1. writes' = r /\ retryTimer' = retryTimer
    BY <1>2, <1>3, <1>7 DEF InitialSettled
  <2>2. QueueOrder(r, Rank, active) /\ QueueVersusPeer(r, Rank, Spoken, reassembly, FALSE)
    BY <1>2, <1>3, <1>4, <1>5, <1>7, RotateHead
  <2>3. ASSUME ~cancelled
        PROVE  LoopsInTurn(r, active, retryCount, retryTimer, retransmitting)
    <3>1. Head(writes).msg = active
      BY <1>2, <1>4, <1>5, <1>7, <2>3 DEF LoopsInTurn, TipIsActive, Unfinished
    <3>2. active # NoMessage => retryCount[active] \in Nat
      BY <1>3, RetriesAssumption DEF LinkInv, LinkSenderInv, SenderInv, TypeOK
    <3> QED BY <1>2, <1>3, <1>4, <1>5, <1>7, <2>3, <3>1, <3>2, TurnGoesOn DEF QueueOrder
  <2> HIDE DEF r
  <2> QED BY <1>1, <1>2, <1>4, <2>1, <2>2, <2>3 DEF TurnInv
<1>8. CASE ~(ok /\ ~IsLastFrame(Head(writes)))
  <2>1. writes' = Tail(writes)
    BY <1>8 DEF InitialSettled
  <2>2. /\ QueueOrder(Tail(writes), Rank, active)
        /\ QueueVersusPeer(Tail(writes), Rank, Spoken, reassembly, FALSE)
    <3>1. writes \in Seq(Write) /\ writes # <<>> /\ onAir \in BOOLEAN
      BY <1>2, <1>3
    <3>2. QueueOrder(writes, Rank, active) /\ QueueVersusPeer(writes, Rank, Spoken, reassembly, onAir)
      BY <1>4
    <3> QED BY <3>1, <3>2, DropHead
  <2>3. ~cancelled => LoopsInTurn(Tail(writes), active, retryCount, retryTimer', retransmitting)
    BY <1>2, <1>3, <1>4, <1>5, <1>6, TurnLoses
  <2>4. cancelled => ~retryTimer'
    BY <1>2, <1>4
  <2> QED BY <1>1, <1>2, <1>4, <2>1, <2>2, <2>3, <2>4 DEF TurnInv
<1> QED BY <1>2, <1>7, <1>8

(* A write of a retransmission loop settles and the loop goes on.          *)
LEMMA CopyKeepsTurn ==
  ASSUME LinkInv, NEW ok \in BOOLEAN, RetransmissionContinues(ok),
         UNCHANGED <<log, reassembly, spoken>>
  PROVE  TurnInv' /\ queued' = queued
<1> DEFINE r == Append(Tail(writes), NextFrame(Head(writes)))
<1>1. Rank' = Rank /\ Spoken' = Spoken
  BY RankStays DEF Spoken, ToSet, RetransmissionContinues
<1>2. /\ writes # <<>> /\ Head(writes).gen # Initial /\ onAir' = FALSE
      /\ Head(writes).gen = retransmitGeneration /\ ~IsLastFrame(Head(writes))
      /\ writes' = r
      /\ UNCHANGED <<active, queued, retryCount, retryTimer, retransmitting, cancelled>>
  BY DEF RetransmissionContinues, Settles, LoopGoesOn
<1>3. /\ writes \in Seq(Write) /\ onAir \in BOOLEAN
      /\ retryCount \in [Message -> 0..MAX_RETRIES + 1] /\ cancelled \in BOOLEAN
  BY DEF LinkInv, LinkSenderInv, SenderInv, TypeOK
<1>4. /\ \A i \in DOMAIN writes : Rank[writes[i].msg] \in Nat
      /\ \A k \in DOMAIN reassembly : reassembly[k].parts \subseteq Nat
      /\ 1 \in DOMAIN writes /\ Head(writes) = writes[1]
      /\ Head(writes).part <= Fragments[Head(writes).msg]
  BY <1>2, <1>3, WriteRanks, TailFacts
<1>5. retransmitting /\ Head(writes).msg = active
  BY <1>2, <1>4 DEF LinkInv, LinkSenderInv, SenderInv, LoopsMatch
<1>6. active # NoMessage /\ retryCount[active] \in Nat
  BY <1>3, <1>4, <1>5, EntryFacts, RetriesAssumption
<1>7. /\ QueueOrder(writes, Rank, active)
      /\ QueueVersusPeer(writes, Rank, Spoken, reassembly, onAir)
      /\ queued # NoMessage => Rank[active] < Rank[queued]
      /\ \A s \in Spoken : Rank[s] <= Rank[active]
      /\ ~cancelled
      /\ LoopsInTurn(writes, active, retryCount, retryTimer, retransmitting)
  BY <1>3, <1>5, <1>6 DEF LinkInv, TurnInv
<1>8. QueueOrder(r, Rank, active) /\ QueueVersusPeer(r, Rank, Spoken, reassembly, FALSE)
  <2>1. TipIsActive(writes, active)
    BY <1>7 DEF LoopsInTurn
  <2> QED BY <1>2, <1>3, <1>4, <1>5, <1>6, <1>7, <2>1, RotateHead
<1>9. LoopsInTurn(r, active, retryCount, retryTimer, retransmitting)
  BY <1>2, <1>3, <1>4, <1>5, <1>6, <1>7, TurnGoesOn DEF QueueOrder
<1> HIDE DEF r
<1> QED BY <1>1, <1>2, <1>6, <1>7, <1>8, <1>9 DEF TurnInv

(* A retransmission loop is over.                                          *)
LEMMA LoopEndKeepsTurn ==
  ASSUME LinkInv, NEW ok \in BOOLEAN, RetransmissionEnds(ok),
         UNCHANGED <<log, reassembly, spoken>>
  PROVE  TurnInv' /\ queued' \in {queued, NoMessage}
<1> DEFINE t == Tail(writes)
<1>1. Rank' = Rank /\ Spoken' = Spoken
  BY RankStays DEF Spoken, ToSet, RetransmissionEnds
<1>2. /\ writes # <<>> /\ Head(writes).gen # Initial /\ onAir' = FALSE
      /\ UNCHANGED <<submitted, cancelled>>
  BY DEF RetransmissionEnds, Settles
<1>3. /\ writes \in Seq(Write) /\ onAir \in BOOLEAN /\ retryTimer \in BOOLEAN
      /\ retryCount \in [Message -> 0..MAX_RETRIES + 1] /\ cancelled \in BOOLEAN
      /\ 1 \in DOMAIN writes /\ Head(writes) = writes[1]
  BY <1>2, TailFacts DEF LinkInv, LinkSenderInv, SenderInv, TypeOK
<1>4. /\ QueueOrder(writes, Rank, active)
      /\ QueueVersusPeer(writes, Rank, Spoken, reassembly, onAir)
      /\ queued # NoMessage => Rank[active] < Rank[queued]
      /\ active # NoMessage => \A s \in Spoken : Rank[s] <= Rank[active]
      /\ cancelled => active = NoMessage /\ ~retransmitting /\ ~retryTimer
      /\ ~cancelled => LoopsInTurn(writes, active, retryCount, retryTimer, retransmitting)
  BY DEF LinkInv, TurnInv
<1>5. /\ QueueOrder(t, Rank, active)
      /\ QueueVersusPeer(t, Rank, Spoken, reassembly, FALSE)
      /\ \A i \in DOMAIN t : t[i].gen = Initial => t[i].msg \notin Spoken
  BY <1>2, <1>3, <1>4, DropHead
<1>6. CASE Head(writes).gen # retransmitGeneration
  <2>1. writes' = t /\ UNCHANGED <<active, queued, retryCount, retryTimer, retransmitting>>
    BY <1>6 DEF RetransmissionEnds
  <2>2. ~cancelled => LoopsInTurn(t, active, retryCount, retryTimer, retransmitting)
    BY <1>2, <1>3, <1>4, TurnUntouched
  <2> HIDE DEF t
  <2> QED BY <1>1, <1>2, <1>4, <1>5, <2>1, <2>2 DEF TurnInv
<1>7. CASE Head(writes).gen = retransmitGeneration
  <2>1. retransmitting = TRUE /\ Head(writes).msg = active /\ active # NoMessage /\ active \in Message
    <3>1. retransmitting /\ Head(writes).msg = active
      BY <1>2, <1>3, <1>7 DEF LinkInv, LinkSenderInv, SenderInv, LoopsMatch
    <3>2. retransmitting \in BOOLEAN
      BY DEF LinkInv, LinkSenderInv, SenderInv, TypeOK
    <3> QED BY <1>3, <3>1, <3>2, EntryFacts
  <2>2. ~cancelled /\ LoopsInTurn(writes, active, retryCount, retryTimer, TRUE)
    BY <1>4, <2>1
  <2>3. CASE active \notin acked
    <3>1. /\ writes' = t /\ retransmitting' = FALSE
          /\ UNCHANGED <<active, queued, retryCount>>
      BY <1>7, <2>1, <2>3 DEF RetransmissionEnds
    <3>2. LoopsInTurn(t, active, retryCount, retryTimer', FALSE)
      BY <1>2, <1>3, <2>1, <2>2, TurnRearmed
    <3> HIDE DEF t
    <3> QED BY <1>1, <1>2, <1>4, <1>5, <2>2, <3>1, <3>2 DEF TurnInv
  <2>4. CASE active \in acked
    <3>1. /\ PromoteQueued(t, retryCount) /\ retryTimer' = retryTimer /\ retransmitting' = FALSE
      BY <1>7, <2>1, <2>4 DEF RetransmissionEnds
    <3>2. active \in Spoken
      BY <2>4 DEF LinkInv, PeerInv
    <3>3. t \in Seq(Write) /\ \A i \in DOMAIN t : i + 1 \in DOMAIN writes /\ t[i] = writes[i + 1]
      BY <1>2, <1>3, TailFacts
    <3>4. \A i \in DOMAIN t : t[i].gen # Initial
      <4> SUFFICES ASSUME NEW i \in DOMAIN t, t[i].gen = Initial PROVE FALSE
        OBVIOUS
      <4>1. writes[i + 1].msg = active
        BY <2>2, <3>3 DEF LoopsInTurn, OneStraggler
      <4> QED BY <1>5, <3>2, <3>3, <4>1
    <3>5. SlotCanBeFilled(t, retryTimer')
      BY <3>4 DEF SlotCanBeFilled, Unfinished
    <3>6. queued # NoMessage => NoFrameOf(t, queued)
      BY <3>3 DEF LinkInv, LinkSenderInv, SenderInv, SlotsInv, NoFrameOf
    <3>7. \A i \in DOMAIN t : Rank[t[i].msg] \in Nat
      BY <3>3, WriteRanks
    <3>8. retryCount \in [Message -> Nat] /\ cancelled' = FALSE /\ retryTimer' \in BOOLEAN
      BY <1>2, <1>3, <2>2, <3>1, RetriesAssumption
    <3> HIDE DEF t
    <3>9. TurnInv'
      BY <1>2, <1>5, <3>1, <3>3, <3>5, <3>6, <3>7, <3>8, SlotPasses
    <3> QED BY <3>1, <3>9 DEF PromoteQueued
  <2> QED BY <2>3, <2>4
<1> QED BY <1>6, <1>7

(* Every step of the sender alone.                                         *)
LEMMA SenderKeepsTurn ==
  ASSUME LinkInv, ShortMessages, SenderAlone
  PROVE  TurnInv' /\ PeerInv'
<1>1. UNCHANGED <<log, reassembly, delivered, completed, spoken, acksInAir>>
      /\ (HandleTimeout \/ Cancel \/ WriteSettled)
  BY DEF SenderAlone, receiverVars
<1>2. TurnInv' /\ queued' \in {queued, NoMessage}
  BY <1>1, TimeoutKeepsTurn, CancelKeepsTurn, InitialKeepsTurn, CopyKeepsTurn, LoopEndKeepsTurn
     DEF WriteSettled
<1>3. acked' = acked /\ submitted' = submitted
  BY <1>1 DEF HandleTimeout, Cancel, WriteSettled, InitialSettled, RetransmissionContinues,
              RetransmissionEnds
<1>4. acked \subseteq Spoken /\ submitted \subseteq Message
  BY DEF LinkInv, PeerInv, LinkSenderInv, SenderInv, TypeOK
<1>5. PeerInv'
  BY <1>1, <1>2, <1>3, <1>4, PeerUnaware DEF LinkInv
<1> QED BY <1>2, <1>5

-----------------------------------------------------------------------------
(* Submitting and hearing.                                                 *)

LEMMA SendKeepsInv ==
  ASSUME LinkInv, NEW m \in Message, LinkSend(m)
  PROVE  TurnInv' /\ PeerInv'
<1>1. /\ ~cancelled /\ cancelled' = cancelled /\ m \notin submitted
      /\ submitted' = submitted \cup {m} /\ log' = Append(log, m)
      /\ UNCHANGED <<acked, retryCount, retryTimer, retransmitting, onAir, reassembly, delivered,
                     completed, spoken, acksInAir>>
  BY DEF LinkSend, Send, receiverVars
<1>2. /\ LogInv' /\ Rank'[m] \in Nat
      /\ \A n \in submitted : Rank'[n] = Rank[n] /\ Rank[n] < Rank'[m] /\ Rank[n] \in Nat
  BY <1>1, RankGrows, RankFacts DEF LinkInv, PeerInv
<1>3. Spoken' = Spoken /\ Spoken \subseteq submitted /\ submitted \subseteq submitted'
  BY <1>1 DEF Spoken, ToSet, LinkInv, PeerInv
<1>4. /\ writes \in Seq(Write)
      /\ \A i \in DOMAIN writes : writes[i].msg \in submitted
      /\ active # NoMessage => active \in submitted
      /\ queued # NoMessage => queued \in submitted /\ active # NoMessage
      /\ \A n \in Message \ submitted : retryCount[n] = 0
      /\ retransmitting \in BOOLEAN /\ retryTimer \in BOOLEAN
  BY WriteRanks DEF LinkInv, LinkSenderInv, SenderInv, SlotsInv, TypeOK
<1>5. /\ QueueOrder(writes, Rank', active)
      /\ QueueVersusPeer(writes, Rank', Spoken, reassembly, onAir)
  BY <1>2, <1>3, <1>4, SameRanks DEF LinkInv, TurnInv
<1>6. LoopsInTurn(writes, active, retryCount, retryTimer, retransmitting)
  BY <1>1 DEF LinkInv, TurnInv
<1>7. queued' \in {queued, m} /\ \A k \in DOMAIN reassembly : reassembly[k].msg # m
  BY <1>1, MessageAssumption DEF LinkSend, Send, LinkInv, PeerInv
<1>8. PeerInv'
  <2>1. spoken # <<>> => \A s \in Spoken : Rank'[s] <= Rank'[spoken[Len(spoken)]]
    <3> SUFFICES ASSUME spoken # <<>>, NEW s \in Spoken
                 PROVE  Rank'[s] <= Rank'[spoken[Len(spoken)]]
      OBVIOUS
    <3>1. spoken[Len(spoken)] \in Spoken
      BY DEF LinkInv, PeerInv, Spoken, ToSet
    <3>2. Rank[s] <= Rank[spoken[Len(spoken)]]
      BY DEF LinkInv, PeerInv
    <3> QED BY <1>2, <1>3, <3>1, <3>2
  <2>2. /\ ToSet(delivered)' = ToSet(delivered) /\ ToSet(completed)' = ToSet(completed)
        /\ ToSet(acksInAir)' = ToSet(acksInAir)
    BY <1>1 DEF ToSet
  <2> QED BY <1>1, <1>2, <1>3, <1>7, <2>1, <2>2 DEF LinkInv, PeerInv
<1>9. CASE active = NoMessage
  <2> DEFINE r == Append(writes, FirstFrame(m, Initial))
  <2>1. active' = m /\ writes' = r /\ queued' = queued /\ queued = NoMessage
    BY <1>4, <1>9 DEF LinkSend, Send
  <2>2. retransmitting = FALSE
    BY <1>4, <1>9, EntryFacts DEF LinkInv, LinkSenderInv, SenderInv, LoopsMatch
  <2>3. SlotCanBeFilled(writes, retryTimer)
    BY <1>4, <1>6, <1>9, EntryFacts DEF SlotCanBeFilled, LoopsInTurn, TipIsActive, OneStraggler
  <2>4. NoFrameOf(writes, m) /\ m \notin Spoken /\ m # NoMessage
    BY <1>1, <1>3, <1>4, MessageAssumption DEF NoFrameOf
  <2>5. LoopsInTurn(r, m, retryCount, retryTimer, FALSE)
    BY <1>1, <1>4, <2>3, <2>4, TurnBegins
  <2>6. \A i \in DOMAIN writes : Rank'[writes[i].msg] <= Rank'[m] /\ ~Unfinished(writes[i])
    BY <1>2, <1>4, <2>3 DEF SlotCanBeFilled
  <2>7. \A s \in Spoken : Rank'[s] <= Rank'[m]
    BY <1>2, <1>3
  <2>8. QueueOrder(r, Rank', m) /\ QueueVersusPeer(r, Rank', Spoken, reassembly, onAir)
    BY <1>2, <1>4, <1>5, <1>7, <2>4, <2>6, <2>7, PushFirst
  <2> HIDE DEF r
  <2>9. TurnInv'
    BY <1>1, <1>3, <2>1, <2>2, <2>4, <2>5, <2>7, <2>8 DEF TurnInv
  <2> QED BY <1>8, <2>9
<1>10. CASE active # NoMessage
  <2>1. active' = active /\ writes' = writes /\ queued' = m
    BY <1>10 DEF LinkSend, Send
  <2>2. Rank'[active] < Rank'[m] /\ \A s \in Spoken : Rank'[s] <= Rank'[active]
    BY <1>2, <1>3, <1>4, <1>10 DEF LinkInv, TurnInv
  <2>3. TurnInv'
    BY <1>1, <1>3, <1>5, <1>6, <1>10, <2>1, <2>2 DEF TurnInv
  <2> QED BY <1>8, <2>3
<1> QED BY <1>9, <1>10

(* Delivering a message that is not older than any spoken one: the cache   *)
(* tells whether it was spoken.                                            *)
LEMMA DeliverFacts ==
  ASSUME PeerInv, NEW m \in submitted, m \in Message, Deliver(m),
         \A s \in Spoken : Rank[s] <= Rank[m], UNCHANGED <<submitted, log>>
  PROVE  /\ delivered' \in Seq(Message) /\ spoken' \in Seq(Message) /\ acksInAir' \in Seq(Message)
         /\ Spoken' = Spoken \cup {m}
         /\ ToSet(delivered)' \cup ToSet(acksInAir)' \subseteq Spoken'
         /\ /\ spoken' # <<>>
            /\ spoken'[Len(spoken')] = delivered'[Len(delivered')]
            /\ delivered' # <<>>
            /\ \A s \in Spoken' : Rank[s] <= Rank[spoken'[Len(spoken')]]
         /\ \/ m \in Spoken /\ spoken' = spoken
            \/ spoken' = Append(spoken, m) /\ \A s \in Spoken : Rank[s] < Rank[m]
<1>0. /\ delivered \in Seq(Message) /\ spoken \in Seq(Message) /\ acksInAir \in Seq(Message)
      /\ Spoken \subseteq submitted /\ \A s \in submitted : Rank[s] \in Nat
      /\ ToSet(delivered) \subseteq Spoken /\ ToSet(acksInAir) \subseteq Spoken
  BY RankFacts DEF PeerInv
<1>1. acksInAir' \in Seq(Message) /\ ToSet(acksInAir)' \subseteq ToSet(acksInAir) \cup {m}
  <2>1. acksInAir' = Append(acksInAir, m)
    BY DEF Deliver, SendAck
  <2>2. /\ Append(acksInAir, m) \in Seq(Message)
        /\ \A i \in DOMAIN Append(acksInAir, m) :
             Append(acksInAir, m)[i] = m \/ (i \in DOMAIN acksInAir /\ Append(acksInAir, m)[i] = acksInAir[i])
    BY <1>0
  <2> QED BY <2>1, <2>2 DEF ToSet
<1>2. CASE m \in ToSet(delivered)
  <2>1. UNCHANGED <<delivered, spoken>> /\ m \in Spoken
    BY <1>0, <1>2 DEF Deliver
  <2>2. Spoken' = Spoken /\ ToSet(delivered)' = ToSet(delivered)
    BY <2>1 DEF Spoken, ToSet
  <2>3. spoken # <<>>
    BY <2>1 DEF Spoken, ToSet
  <2> QED BY <1>0, <1>1, <2>1, <2>2, <2>3 DEF PeerInv
<1>3. CASE m \notin ToSet(delivered)
  <2>1. delivered' = Store(delivered, DELIVERED_CACHE_MAX, m) /\ spoken' = Append(spoken, m)
    BY <1>3 DEF Deliver
  <2>2. m \notin Spoken
    <3> SUFFICES ASSUME m \in Spoken PROVE FALSE
      OBVIOUS
    <3>1. spoken # <<>>
      BY DEF Spoken, ToSet
    <3> DEFINE l == spoken[Len(spoken)]
    <3>2. l \in Spoken /\ Rank[m] <= Rank[l] /\ l \in ToSet(delivered)
      BY <1>0, <3>1 DEF PeerInv, Spoken, ToSet
    <3>3. Rank[l] = Rank[m]
      BY <1>0, <3>2
    <3>4. l = m
      BY <1>0, <3>2, <3>3, RankFacts DEF PeerInv
    <3> QED BY <1>3, <3>2, <3>4
  <2>3. \A s \in Spoken : Rank[s] < Rank[m]
    <3> SUFFICES ASSUME NEW s \in Spoken PROVE Rank[s] < Rank[m]
      OBVIOUS
    <3>1. Rank[s] # Rank[m]
      BY <1>0, <2>2, RankFacts DEF PeerInv
    <3> QED BY <1>0, <3>1
  <2>4. /\ delivered' \in Seq(Message) /\ delivered' # <<>> /\ delivered'[Len(delivered')] = m
        /\ ToSet(delivered)' \subseteq ToSet(delivered) \cup {m}
    <3>1. ToSet(delivered)' = ToSet(delivered')
      BY DEF ToSet
    <3> QED BY <1>0, <2>1, <3>1, StoreFacts, CacheSizes
  <2>5. /\ spoken' \in Seq(Message) /\ spoken' # <<>> /\ spoken'[Len(spoken')] = m
        /\ DOMAIN spoken' = 1..(Len(spoken) + 1) /\ DOMAIN spoken = 1..Len(spoken)
        /\ Len(spoken) \in Nat
        /\ spoken'[Len(spoken) + 1] = m /\ \A i \in 1..Len(spoken) : spoken'[i] = spoken[i]
    BY <1>0, <2>1
  <2>6. Spoken' = Spoken \cup {m}
    <3>1. ASSUME NEW i \in DOMAIN spoken' PROVE spoken'[i] \in Spoken \cup {m}
      BY <2>5 DEF Spoken, ToSet
    <3>2. ASSUME NEW i \in DOMAIN spoken PROVE spoken[i] \in Spoken'
      BY <2>5 DEF Spoken, ToSet
    <3>3. m \in Spoken'
      BY <2>5 DEF Spoken, ToSet
    <3> QED BY <3>1, <3>2, <3>3 DEF Spoken, ToSet
  <2>7. \A s \in Spoken' : Rank[s] <= Rank[spoken'[Len(spoken')]]
    <3>1. Rank[m] \in Nat
      BY <1>0
    <3> QED BY <2>5, <2>6, <3>1
  <2>8. ToSet(delivered)' \cup ToSet(acksInAir)' \subseteq Spoken'
    BY <1>0, <1>1, <2>4, <2>6
  <2> QED BY <1>1, <2>1, <2>3, <2>4, <2>5, <2>6, <2>7, <2>8
<1> QED BY <1>2, <1>3

(* A group with all its parts holds the last one.                          *)
LEMMA CompleteHasLastPart ==
  ASSUME NEW gs, NEW m \in Message, HasGroup(gs, m), Complete(gs, m),
         \A k \in DOMAIN gs : gs[k].msg = m => gs[k].parts \subseteq 1..Fragments[m]
  PROVE  \E k \in DOMAIN gs : gs[k].msg = m /\ Fragments[m] \in gs[k].parts
<1> DEFINE k == GroupIndex(gs, m)
           parts == gs[k].parts
           n == Fragments[m]
<1>1. k \in DOMAIN gs /\ gs[k].msg = m /\ n \in Nat \ {0}
  BY GroupIndexFacts, FragmentsAssumption
<1>2. parts \subseteq 1..n /\ Cardinality(parts) = n
  BY <1>1 DEF Complete
<1> HIDE DEF k, parts, n
<1>3. IsFiniteSet(1..n) /\ Cardinality(1..n) = n
  BY <1>1, FS_Interval
<1>4. parts = 1..n
  BY <1>2, <1>3, FS_Subset
<1>5. n \in parts
  BY <1>1, <1>4
<1> QED BY <1>1, <1>5 DEF k, parts, n

(* What changes when a frame is heard: the peer's state only.              *)
LEMMA FrameKeepsInv ==
  ASSUME LinkInv, FrameArrives
  PROVE  TurnInv' /\ PeerInv'
<1> DEFINE f == Frame(Head(writes))
           m == Head(writes).msg
<1>1. /\ writes # <<>> /\ onAir = FALSE /\ onAir' = TRUE /\ Receive(f)
      /\ UNCHANGED <<submitted, log, active, queued, acked, retryCount, retryTimer, retransmitting,
                     writes, cancelled>>
  BY DEF FrameArrives, HeadTransmitted, LinkInv, LinkSenderInv, SenderInv, TypeOK
<1>2. /\ writes \in Seq(Write) /\ 1 \in DOMAIN writes /\ Head(writes) = writes[1]
      /\ f \in [msg: Message, part: Nat \ {0}] /\ f.msg = m /\ f.part = Head(writes).part
      /\ m \in submitted /\ m \in Message /\ f.part <= Fragments[m] /\ Fragments[m] \in Nat
  BY <1>1, WriteRanks, TailFacts, FrameType, FragmentsAssumption
<1>3. /\ QueueOrder(writes, Rank, active)
      /\ QueueVersusPeer(writes, Rank, Spoken, reassembly, FALSE)
  BY <1>1 DEF LinkInv, TurnInv
<1>4. Rank' = Rank /\ LogInv'
  BY <1>1, RankStays DEF LinkInv, PeerInv
<1>5. \A s \in Spoken : Rank[s] <= Rank[m]
  BY <1>2, <1>3 DEF QueueVersusPeer, SpokenFirst
<1>6. /\ queued # m
      /\ active # NoMessage => Rank[m] <= Rank[active]
  <2>1. queued # m
    BY <1>2, MessageAssumption DEF LinkInv, LinkSenderInv, SenderInv, SlotsInv, NoFrameOf
  <2>2. active # NoMessage => Rank[m] <= Rank[active]
    BY <1>2, <1>3 DEF QueueOrder, UpToActive
  <2> QED BY <2>1, <2>2
<1> HIDE DEF f, m
(* The turns, once the peer's part is known.                               *)
<1>8. ASSUME Spoken' \in {Spoken, Spoken \cup {m}},
             QueueVersusPeer(writes, Rank, Spoken', reassembly', TRUE)
      PROVE  TurnInv'
  <2>1. active # NoMessage => \A s \in Spoken' : Rank[s] <= Rank[active]
    BY <1>6, <1>8 DEF LinkInv, TurnInv
  <2> QED BY <1>1, <1>3, <1>4, <1>8, <2>1 DEF LinkInv, TurnInv
(* The groups after the fragment.                                          *)
<1>9. ASSUME NEW gs, CollectedFrom(gs, reassembly, f)
      PROVE  /\ PartsWereSent(writes, gs, TRUE)
             /\ \A k \in DOMAIN gs : /\ gs[k].msg \in submitted
                                     /\ gs[k].msg # queued
                                     /\ gs[k].parts \subseteq 1..Fragments[gs[k].msg]
  <2>1. PartsWereSent(writes, gs, TRUE)
    BY <1>1, <1>2, <1>3, <1>9, CollectedWasSent DEF QueueOrder, f
  <2>2. ASSUME NEW k \in DOMAIN gs PROVE gs[k].msg \in submitted /\ gs[k].msg # queued
    BY <1>2, <1>6, <1>9 DEF CollectedFrom, LinkInv, PeerInv
  <2>3. ASSUME NEW k \in DOMAIN gs, NEW q \in gs[k].parts PROVE q \in 1..Fragments[gs[k].msg]
    <3>1. CASE gs[k].msg = f.msg /\ q = f.part
      BY <1>2, <3>1
    <3>2. CASE \E j \in DOMAIN reassembly : reassembly[j].msg = gs[k].msg /\ q \in reassembly[j].parts
      BY <3>2 DEF LinkInv, PeerInv
    <3> QED BY <1>9, <2>3, <3>1, <3>2 DEF CollectedFrom
  <2> QED BY <2>1, <2>2, <2>3
(* Delivering m, when its initial loop is known to be at its last frame.   *)
<1>10. ASSUME Deliver(m), PartsWereSent(writes, reassembly', TRUE),
              \A i \in DOMAIN writes : writes[i].gen = Initial /\ writes[i].msg = m =>
                 Fragments[writes[i].msg] <= writes[i].part /\ i = 1,
              \A k \in DOMAIN reassembly' :
                 /\ reassembly'[k].msg \in submitted
                 /\ reassembly'[k].msg # queued
                 /\ reassembly'[k].parts \subseteq 1..Fragments[reassembly'[k].msg],
              ToSet(completed') \subseteq ToSet(completed) \cup {m}
       PROVE  TurnInv' /\ PeerInv'
  <2>1. /\ delivered' \in Seq(Message) /\ spoken' \in Seq(Message) /\ acksInAir' \in Seq(Message)
        /\ Spoken' = Spoken \cup {m}
        /\ ToSet(delivered)' \cup ToSet(acksInAir)' \subseteq Spoken'
        /\ spoken' # <<>>
        /\ spoken'[Len(spoken')] = delivered'[Len(delivered')]
        /\ delivered' # <<>>
        /\ \A s \in Spoken' : Rank[s] <= Rank[spoken'[Len(spoken')]]
    BY <1>1, <1>2, <1>5, <1>10, DeliverFacts DEF LinkInv
  <2>2. SpokenFirst(writes, Rank, Spoken') /\ SpokenWasWritten(writes, Spoken', TRUE)
    <3>1. \A i \in DOMAIN writes :
             Rank[writes[i].msg] \in Nat /\ writes[i].part <= Fragments[writes[i].msg]
      BY WriteRanks
    <3>2. InOrder(writes, Rank)
      BY <1>3 DEF QueueOrder
    <3> QED BY <1>1, <1>2, <1>3, <1>10, <2>1, <3>1, <3>2, SpokenNow DEF m
  <2>3. TurnInv'
    BY <1>8, <1>10, <2>1, <2>2 DEF QueueVersusPeer
  <2>4. /\ ToSet(completed)' = ToSet(completed')
        /\ Spoken \subseteq submitted /\ ToSet(completed) \subseteq Spoken /\ acked \subseteq Spoken
    BY DEF ToSet, LinkInv, PeerInv
  <2>5. PeerInv'
    BY <1>1, <1>2, <1>4, <1>10, <2>1, <2>4 DEF PeerInv
  <2> QED BY <2>3, <2>5
<1>11. CASE ReceiveSingle(f)
  <2>1. Fragments[m] = 1 /\ Deliver(m) /\ UNCHANGED <<reassembly, completed>>
    BY <1>2, <1>11 DEF ReceiveSingle
  <2>2. PartsWereSent(writes, reassembly', TRUE)
    BY <1>3, <2>1, HeadOnAir DEF QueueVersusPeer
  <2>3. ASSUME NEW i \in DOMAIN writes, writes[i].gen = Initial, writes[i].msg = m
        PROVE  Fragments[writes[i].msg] <= writes[i].part /\ i = 1
    <3>1. writes[i].part \in Nat \ {0} /\ writes[1].part \in Nat \ {0} /\ writes[1].msg = m
      BY <1>2, PartFacts DEF m
    <3>2. writes[i].part <= 1
      BY <2>1, <2>3, WriteRanks
    <3>3. writes[1].gen = Initial
      <4> SUFFICES ASSUME writes[1].gen # Initial PROVE FALSE
        OBVIOUS
      <4>1. i # 1 /\ i \in Nat \ {0}
        BY <1>2, <2>3
      <4>2. writes[1].part < writes[i].part
        BY <1>2, <1>3, <2>3, <3>1, <4>1 DEF QueueOrder, CopiesTrail
      <4> QED BY <3>1, <3>2, <4>2
    <3>4. i = 1
      BY <1>2, <1>3, <2>3, <3>1, <3>3 DEF QueueOrder, OneInitialLoop
    <3> QED BY <2>1, <2>3, <3>1, <3>4
  <2>4. \A k \in DOMAIN reassembly' :
                 /\ reassembly'[k].msg \in submitted
                 /\ reassembly'[k].msg # queued
                 /\ reassembly'[k].parts \subseteq 1..Fragments[reassembly'[k].msg]
    BY <2>1 DEF LinkInv, PeerInv
  <2> QED BY <1>10, <2>1, <2>2, <2>3, <2>4
<1>12. CASE ReceiveOfCompletedGroup(f)
  <2>1. /\ m \in ToSet(completed) /\ acksInAir' = Append(acksInAir, m)
        /\ UNCHANGED <<reassembly, delivered, completed, spoken>>
    BY <1>2, <1>12 DEF ReceiveOfCompletedGroup, SendAck
  <2>2. /\ Spoken' = Spoken /\ ToSet(delivered)' = ToSet(delivered)
        /\ ToSet(completed)' = ToSet(completed)
    BY <2>1 DEF Spoken, ToSet
  <2>3. acksInAir' \in Seq(Message) /\ ToSet(acksInAir)' \subseteq ToSet(acksInAir) \cup {m}
    <3>1. acksInAir \in Seq(Message)
      BY DEF LinkInv, PeerInv
    <3>2. /\ Append(acksInAir, m) \in Seq(Message)
          /\ \A i \in DOMAIN Append(acksInAir, m) :
               Append(acksInAir, m)[i] = m \/ (i \in DOMAIN acksInAir /\ Append(acksInAir, m)[i] = acksInAir[i])
      BY <1>2, <3>1
    <3> QED BY <2>1, <3>2 DEF ToSet
  <2>4. TurnInv'
    BY <1>3, <1>8, <2>1, <2>2, HeadOnAir
  <2>5. m \in Spoken
    BY <2>1 DEF LinkInv, PeerInv
  <2>6. PeerInv'
    BY <1>1, <1>4, <2>1, <2>2, <2>3, <2>5 DEF LinkInv, PeerInv
  <2> QED BY <2>4, <2>6
<1>13. CASE ReceiveFragment(f)
  <2> DEFINE gs == AddFragment(f)
  <2>1. /\ gs \in Seq(Group) /\ OneGroupEach(gs) /\ HasGroup(gs, m)
        /\ CollectedFrom(gs, reassembly, f)
    BY <1>2, AddFragmentFacts DEF LinkInv, LinkSenderInv, ReassemblyInv
  <2>2. /\ PartsWereSent(writes, gs, TRUE)
        /\ \A k \in DOMAIN gs : /\ gs[k].msg \in submitted
                                /\ gs[k].msg # queued
                                /\ gs[k].parts \subseteq 1..Fragments[gs[k].msg]
    BY <1>9, <2>1
  <2>3. CASE ~Complete(gs, m)
    <3>1. reassembly' = gs /\ UNCHANGED <<delivered, completed, spoken, acksInAir>>
      BY <1>2, <1>13, <2>3 DEF ReceiveFragment
    <3>2. /\ Spoken' = Spoken /\ ToSet(delivered)' = ToSet(delivered)
          /\ ToSet(completed)' = ToSet(completed) /\ ToSet(acksInAir)' = ToSet(acksInAir)
      BY <3>1 DEF Spoken, ToSet
    <3> HIDE DEF gs
    <3>3. QueueVersusPeer(writes, Rank, Spoken', reassembly', TRUE)
      BY <1>3, <2>2, <3>1, <3>2, HeadOnAir DEF QueueVersusPeer
    <3>4. TurnInv'
      BY <1>8, <3>2, <3>3
    <3>5. PeerInv'
      BY <1>1, <1>4, <2>2, <3>1, <3>2 DEF LinkInv, PeerInv
    <3> QED BY <3>4, <3>5
  <2>4. CASE Complete(gs, m)
    <3>1. /\ reassembly' = Without(gs, m) /\ Deliver(m)
          /\ completed' \in {completed, Store(completed, COMPLETED_CACHE_MAX, m)}
      BY <1>2, <1>13, <2>4 DEF ReceiveFragment
    <3> HIDE DEF gs
    <3>2. Within(reassembly', gs)
      BY <2>1, <3>1, WithoutFacts
    <3>3. PartsWereSent(writes, reassembly', TRUE)
      BY <2>2, <3>2, FewerGroups
    <3>4. \A k \in DOMAIN reassembly' :
                 /\ reassembly'[k].msg \in submitted
                 /\ reassembly'[k].msg # queued
                 /\ reassembly'[k].parts \subseteq 1..Fragments[reassembly'[k].msg]
      BY <2>2, <3>2 DEF Within
    <3>5. ToSet(completed') \subseteq ToSet(completed) \cup {m}
      <4>1. completed \in Seq(Message)
        BY DEF LinkInv, LinkSenderInv, ReassemblyInv
      <4>2. ToSet(Store(completed, COMPLETED_CACHE_MAX, m)) \subseteq ToSet(completed) \cup {m}
        BY <1>2, <4>1, StoreFacts, CacheSizes
      <4> QED BY <3>1, <4>2
    <3>6. PICK k \in DOMAIN gs : gs[k].msg = m /\ Fragments[m] \in gs[k].parts
      BY <1>2, <2>1, <2>2, <2>4, CompleteHasLastPart
    <3>7. ASSUME NEW i \in DOMAIN writes, writes[i].gen = Initial, writes[i].msg = m
          PROVE  Fragments[writes[i].msg] <= writes[i].part /\ i = 1
      <4>1. Fragments[m] < writes[i].part \/ (Fragments[m] = writes[i].part /\ i = 1)
        BY <2>2, <3>6, <3>7 DEF PartsWereSent
      <4>2. writes[i].part <= Fragments[m] /\ writes[i].part \in Nat
        BY <1>2, <3>7, WriteRanks, PartFacts
      <4> QED BY <1>2, <3>7, <4>1, <4>2
    <3> QED BY <1>10, <3>1, <3>3, <3>4, <3>5, <3>7
  <2> QED BY <2>3, <2>4
<1> QED BY <1>1, <1>11, <1>12, <1>13 DEF Receive

-----------------------------------------------------------------------------
(* The invariant holds, and every step is a step of OrderedDelivery.       *)

(* A group expires, or an ACK is lost.                                     *)
LEMMA LossKeepsInv ==
  ASSUME LinkInv, ExpireGroups \/ AckIsLost, UNCHANGED <<vars, log>>
  PROVE  TurnInv' /\ PeerInv'
<1>1. /\ UNCHANGED <<submitted, log, delivered, completed, spoken, writes, active, queued, acked,
                     retryCount, retryTimer, retransmitting, onAir, cancelled>>
  BY DEF ExpireGroups, AckIsLost, vars
<1>2. Rank' = Rank /\ LogInv' /\ Spoken' = Spoken /\ ToSet(delivered)' = ToSet(delivered)
      /\ ToSet(completed)' = ToSet(completed)
  BY <1>1, RankStays DEF Spoken, ToSet, LinkInv, PeerInv
<1>3. CASE ExpireGroups
  <2>1. Within(reassembly', reassembly) /\ acksInAir' = acksInAir
    BY <1>3, ExpirePreservesGroups DEF LinkInv, LinkSenderInv, ExpireGroups
  <2>2. PartsWereSent(writes, reassembly', onAir)
    BY <2>1, FewerGroups DEF LinkInv, TurnInv, QueueVersusPeer
  <2>3. TurnInv'
    BY <1>1, <1>2, <2>2 DEF LinkInv, TurnInv, QueueVersusPeer
  <2>4. ToSet(acksInAir)' = ToSet(acksInAir)
    BY <2>1 DEF ToSet
  <2>5. PeerInv'
    BY <1>1, <1>2, <2>1, <2>4 DEF LinkInv, PeerInv, Within
  <2> QED BY <2>3, <2>5
<1>4. CASE AckIsLost
  <2>1. /\ acksInAir # <<>> /\ acksInAir' = Tail(acksInAir) /\ reassembly' = reassembly
        /\ submitted \subseteq Message /\ acked' \subseteq Spoken
    BY <1>1, <1>4 DEF AckIsLost, LinkInv, PeerInv, LinkSenderInv, SenderInv, TypeOK
  <2>2. PeerInv'
    BY <1>1, <2>1, PeerUnaware DEF LinkInv
  <2>3. TurnInv'
    BY <1>1, <1>2, <2>1, TurnKept
  <2> QED BY <2>2, <2>3
<1> QED BY <1>3, <1>4

LEMMA AckKeepsInv ==
  ASSUME LinkInv, AckArrives
  PROVE  TurnInv' /\ PeerInv' /\ \E m \in Spoken : acked' \in {acked, acked \cup {m}}
<1> DEFINE m == Head(acksInAir)
<1>1. /\ acksInAir # <<>> /\ HandleAck(m) /\ acksInAir' = Tail(acksInAir)
      /\ UNCHANGED <<reassembly, delivered, completed, spoken, log>>
  BY DEF AckArrives
<1>2. m \in Spoken
  <2>1. m \in ToSet(acksInAir)
    BY <1>1 DEF LinkInv, PeerInv, ToSet
  <2> QED BY <2>1 DEF LinkInv, PeerInv
<1> HIDE DEF m
<1>3. TurnInv' /\ queued' \in {queued, NoMessage} /\ acked' \in {acked, acked \cup {m}}
  BY <1>1, <1>2, AckKeepsTurn
<1>4. submitted' = submitted
  BY <1>1 DEF HandleAck, HandleAckActive, HandleAckQueued, HandleAckUnknown, vars
<1>5. acked \subseteq Spoken /\ submitted \subseteq Message
  BY DEF LinkInv, PeerInv, LinkSenderInv, SenderInv, TypeOK
<1>6. PeerInv'
  BY <1>1, <1>2, <1>3, <1>4, <1>5, PeerUnaware DEF LinkInv
<1> QED BY <1>2, <1>3, <1>6

LEMMA LostFrameKeepsInv ==
  ASSUME LinkInv, FrameIsLost
  PROVE  TurnInv' /\ PeerInv'
<1>1. /\ onAir = FALSE /\ onAir' = TRUE
      /\ UNCHANGED <<submitted, log, reassembly, delivered, completed, spoken, acksInAir, writes,
                     active, queued, acked, retryCount, retryTimer, retransmitting, cancelled>>
  BY DEF FrameIsLost, HeadTransmitted, receiverVars, LinkInv, LinkSenderInv, SenderInv, TypeOK
<1>2. submitted \subseteq Message /\ acked' \subseteq Spoken
  BY <1>1 DEF LinkInv, PeerInv, LinkSenderInv, SenderInv, TypeOK
<1>3. PeerInv' /\ Spoken' = Spoken /\ Rank' = Rank
  BY <1>1, <1>2, PeerUnaware, RankStays DEF LinkInv
<1>4. QueueVersusPeer(writes, Rank, Spoken, reassembly, TRUE)
  BY <1>1, HeadOnAir DEF LinkInv, TurnInv
<1> QED BY <1>1, <1>3, <1>4 DEF LinkInv, TurnInv

LEMMA LinkKeepsInv == ShortMessages /\ LinkInv /\ [LinkNext]_linkVars => LinkInv'
<1> SUFFICES ASSUME ShortMessages, LinkInv, [LinkNext]_linkVars PROVE TurnInv' /\ PeerInv'
  BY LinkKeepsSenderInv DEF LinkInv
<1>1. ASSUME NEW m \in Message, LinkSend(m) PROVE TurnInv' /\ PeerInv'
  BY <1>1, SendKeepsInv
<1>2. CASE FrameArrives
  BY <1>2, FrameKeepsInv
<1>3. CASE FrameIsLost
  BY <1>3, LostFrameKeepsInv
<1>4. CASE AckArrives
  BY <1>4, AckKeepsInv
<1>5. CASE AckIsLost \/ (ExpireGroups /\ UNCHANGED <<vars, log>>)
  BY <1>5, LossKeepsInv DEF AckIsLost
<1>6. CASE SenderAlone
  BY <1>6, SenderKeepsTurn
<1>7. CASE UNCHANGED linkVars
  <2>1. /\ UNCHANGED <<submitted, log, reassembly, delivered, completed, spoken, acksInAir, writes,
                       active, queued, acked, retryCount, retryTimer, retransmitting, onAir, cancelled>>
    BY <1>7 DEF linkVars, vars, receiverVars
  <2>2. submitted \subseteq Message /\ acked' \subseteq Spoken
    BY <2>1 DEF LinkInv, PeerInv, LinkSenderInv, SenderInv, TypeOK
  <2> QED BY <2>1, <2>2, PeerUnaware, TurnKept DEF LinkInv
<1> QED BY <1>1, <1>2, <1>3, <1>4, <1>5, <1>6, <1>7 DEF LinkNext

LEMMA LinkInitInv == LinkInit => LinkInv
<1> SUFFICES ASSUME LinkInit PROVE LinkInv
  OBVIOUS
<1>1. LinkSenderInv
  <2>1. SenderInv
    BY InitEstablishes DEF LinkInit
  <2>2. ReassemblyInv
    BY DEF LinkInit, ReceiverInit, ReassemblyInv, OneGroupEach, NoReassemblyOfCompletedGroup
  <2> QED BY <2>1, <2>2 DEF LinkSenderInv
<1>2. /\ log = <<>> /\ spoken = <<>> /\ delivered = <<>> /\ completed = <<>> /\ acksInAir = <<>>
      /\ reassembly = <<>> /\ writes = <<>> /\ submitted = {} /\ acked = {}
      /\ active = NoMessage /\ queued = NoMessage /\ cancelled = FALSE
  BY DEF LinkInit, Init, ReceiverInit
<1>3. ToSet(<<>>) = {}
  BY DEF ToSet
<1>4. PeerInv
  BY <1>2, <1>3 DEF PeerInv, LogInv, Spoken
<1>5. TurnInv
  BY <1>2, <1>3 DEF TurnInv, QueueOrder, QueueVersusPeer, LoopsInTurn, InOrder, UpToActive, TipIsNewest,
     OneInitialLoop, CopiesTrail, SpokenFirst, SpokenWasWritten, PartsWereSent, TipIsActive,
     RetriesTrail, OneStraggler
<1> QED BY <1>1, <1>4, <1>5 DEF LinkInv

(* A heard frame makes the receiver speak one message, newer than all it   *)
(* has spoken, or none.                                                    *)
LEMMA FrameSpeaksInOrder ==
  ASSUME LinkInv, FrameArrives
  PROVE  \/ spoken' = spoken
         \/ \E m \in submitted :
              spoken' = Append(spoken, m) /\ \A s \in Spoken : Rank[s] < Rank[m]
<1> DEFINE f == Frame(Head(writes))
           m == Head(writes).msg
<1>1. /\ writes # <<>> /\ Receive(f) /\ UNCHANGED <<submitted, log>>
  BY DEF FrameArrives, HeadTransmitted
<1>2. /\ writes \in Seq(Write) /\ 1 \in DOMAIN writes /\ Head(writes) = writes[1]
      /\ f.msg = m /\ m \in submitted /\ m \in Message
  BY <1>1, WriteRanks, TailFacts, FrameType
<1>3. \A s \in Spoken : Rank[s] <= Rank[m]
  BY <1>2 DEF LinkInv, TurnInv, QueueVersusPeer, SpokenFirst
<1> HIDE DEF f, m
<1>4. spoken' = spoken \/ Deliver(m)
  BY <1>1, <1>2 DEF Receive, ReceiveSingle, ReceiveOfCompletedGroup, ReceiveFragment
<1>5. CASE Deliver(m)
  BY <1>1, <1>2, <1>3, <1>5, DeliverFacts DEF LinkInv
<1> QED BY <1>2, <1>4, <1>5

LEMMA LinkStepRefines ==
  LinkInv /\ [LinkNext]_linkVars => [Delivery!Next]_(Delivery!vars)
<1> SUFFICES ASSUME LinkInv, [LinkNext]_linkVars PROVE [Delivery!Next]_(Delivery!vars)
  OBVIOUS
<1> USE DEF Delivery!vars
<1>a. Delivery!ToSet(log) = ToSet(log) /\ Delivery!ToSet(spoken) = ToSet(spoken)
  BY DEF Delivery!ToSet, ToSet
<1>0. ToSet(log) = submitted /\ submitted \subseteq Message /\ Spoken \subseteq submitted
  BY DEF LinkInv, PeerInv, LogInv, LinkSenderInv, SenderInv, TypeOK
<1>1. ASSUME NEW m \in Message, LinkSend(m) PROVE Delivery!Next
  <2>1. Delivery!Submit(m)
    BY <1>0, <1>a, <1>1 DEF LinkSend, Send, receiverVars, Delivery!Submit
  <2> QED BY <2>1 DEF Delivery!Next
<1>2. CASE FrameArrives
  <2>0. UNCHANGED <<log, acked>>
    BY <1>2 DEF FrameArrives, HeadTransmitted
  <2>1. CASE spoken' = spoken
    BY <2>0, <2>1
  <2>2. CASE \E m \in submitted :
               spoken' = Append(spoken, m) /\ \A s \in Spoken : Rank[s] < Rank[m]
    <3>1. PICK m \in submitted :
             spoken' = Append(spoken, m) /\ \A s \in Spoken : Rank[s] < Rank[m]
      BY <2>2
    <3>2. \A s \in ToSet(spoken) : Delivery!Position(s) < Delivery!Position(m)
      BY <1>0, <3>1, RankFacts DEF LinkInv, PeerInv, Spoken
    <3>3. Delivery!Speak(m)
      BY <1>0, <1>a, <2>0, <3>1, <3>2 DEF Delivery!Speak
    <3> QED BY <1>0, <3>3 DEF Delivery!Next
  <2> QED BY <1>2, <2>1, <2>2, FrameSpeaksInOrder
<1>3. CASE AckArrives
  <2>1. PICK m \in Spoken : acked' \in {acked, acked \cup {m}}
    BY <1>3, AckKeepsInv
  <2>2. UNCHANGED <<log, spoken>>
    BY <1>3 DEF AckArrives
  <2>3. CASE acked' = acked \cup {m}
    <3>1. Delivery!Confirm(m)
      BY <1>a, <2>1, <2>2, <2>3 DEF Delivery!Confirm, Spoken
    <3> QED BY <1>0, <3>1 DEF Delivery!Next
  <2> QED BY <2>1, <2>2, <2>3
<1>4. CASE FrameIsLost \/ AckIsLost \/ (ExpireGroups /\ UNCHANGED <<vars, log>>) \/ UNCHANGED linkVars
  BY <1>4 DEF FrameIsLost, HeadTransmitted, AckIsLost, ExpireGroups, vars, receiverVars, linkVars
<1>5. CASE SenderAlone
  <2>1. UNCHANGED <<log, spoken, acked>>
    BY <1>5 DEF SenderAlone, receiverVars, HandleTimeout, Cancel, WriteSettled, InitialSettled,
                RetransmissionContinues, RetransmissionEnds
  <2> QED BY <2>1
<1> QED BY <1>1, <1>2, <1>3, <1>4, <1>5 DEF LinkNext

(* The link implements OrderedDelivery.                                    *)
THEOREM LinkImplementsDelivery ==
  ASSUME ShortMessages
  PROVE  LinkSpec => ImplementsOrderedDelivery
<1>1. LinkInit => Delivery!Init
  BY DEF LinkInit, Init, ReceiverInit, Delivery!Init
<1>2. LinkInv /\ [LinkNext]_linkVars => LinkInv'
  BY LinkKeepsInv
<1> QED BY <1>1, <1>2, LinkInitInv, LinkStepRefines, PTL
        DEF LinkSpec, ImplementsOrderedDelivery, Delivery!Spec
=============================================================================
