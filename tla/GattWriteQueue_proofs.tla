------------------------ MODULE GattWriteQueue_proofs ------------------------
(***************************************************************************)
(* Proofs about GattWriteQueue for every set of connections and threads    *)
(* and every bound: the queue never strands a write, invokes each callback *)
(* exactly once and keeps the order of the writes of a connection.         *)
(***************************************************************************)
EXTENDS GattWriteQueue, SequenceTheorems, TLAPS

-----------------------------------------------------------------------------
(* The inductive invariant. *)

\* The types of what the queue's operations read and write.
QueueTypes ==
  /\ DOMAIN queues \subseteq Key
  /\ \A k \in DOMAIN queues : queues[k] \in Seq(Write)
  /\ inFlight \subseteq Key
  /\ count \in 0..MaxWrites
  /\ keyOf \in [Write -> Key \cup {NoKey}]
  /\ told \in [Write -> 0..1]
  /\ air \in [Write -> Air]

\* The types of the rest.
CallerTypes ==
  /\ succeeded \subseteq Write
  /\ sending \in [Thread -> Key \cup {NoKey}]
  /\ awaiting \in [Thread -> 0..MaxWrites]
  /\ callbacks \subseteq Write
  /\ link \in [Key -> {"up", "down"}]
  /\ conn \in [Key -> {"open", "closing", "closed"}]
  /\ reconnects \in 0..MaxReconnects
  /\ stops \in 0..MaxStops

\* A queue holds the writes of its key in the order of their numbers.
Sorted ==
  \A k \in DOMAIN queues : \A i, j \in 1..Len(queues[k]) :
    i < j => queues[k][i] < queues[k][j]

\* A queued write was enqueued under that key and has not been told.
QueuedIsUntold ==
  \A k \in DOMAIN queues : \A i \in 1..Len(queues[k]) :
    /\ queues[k][i] <= count
    /\ keyOf[queues[k][i]] = k
    /\ told[queues[k][i]] = 0

\* An enqueued write that has not been told is in the queue of its key.
UntoldIsQueued ==
  \A w \in Write : w <= count /\ told[w] = 0 =>
    /\ keyOf[w] \in DOMAIN queues
    /\ \E i \in 1..Len(queues[keyOf[w]]) : queues[keyOf[w]][i] = w

\* A write has a key once it is enqueued; before, nothing is known of it.
EnqueuedHasKey ==
  \A w \in Write : IF w <= count THEN keyOf[w] \in Key
                   ELSE keyOf[w] = NoKey /\ told[w] = 0 /\ air[w] = "none"

\* Of a queue only the head has been given to the stack.
OnlyHeadInTheAir ==
  \A k \in DOMAIN queues : \A i \in 2..Len(queues[k]) :
    air[queues[k][i]] = "none"

\* Callbacks of one key are invoked in the order of the writes.
ToldInOrder ==
  \A v, w \in Write :
    v < w /\ keyOf[v] = keyOf[w] /\ keyOf[w] \in Key /\ told[w] = 1 => told[v] = 1

QueueInv ==
  /\ QueueTypes
  /\ NothingIsStranded
  /\ Sorted
  /\ QueuedIsUntold
  /\ UntoldIsQueued
  /\ EnqueuedHasKey
  /\ OnlyHeadInTheAir
  /\ ToldInOrder

Inv == QueueInv /\ CallerTypes

-----------------------------------------------------------------------------
(* Sequences. *)

\* What is left of a sequence when its first m elements are dropped.
LEMMA DropFirst ==
  ASSUME NEW q \in Seq(Write), NEW m \in 0..Len(q)
  PROVE  /\ SubSeq(q, m + 1, Len(q)) \in Seq(Write)
         /\ Len(SubSeq(q, m + 1, Len(q))) = Len(q) - m
         /\ \A i \in 1..(Len(q) - m) : SubSeq(q, m + 1, Len(q))[i] = q[m + i]
<1>1. Len(q) \in Nat
  OBVIOUS
<1>2. \A i \in (m + 1)..Len(q) : q[i] \in Write
  BY <1>1
<1>3. SubSeq(q, m + 1, Len(q)) = [i \in 1..(Len(q) - m) |-> q[m + i]]
  BY <1>1, <1>2, SMT
<1>4. \A i \in 1..(Len(q) - m) : q[m + i] \in Write
  BY <1>1, <1>2
<1>. QED
  BY <1>1, <1>3, <1>4, SMT

\* Dropping n elements of the tail is dropping n + 1 of the sequence.
LEMMA DropOfTail ==
  ASSUME NEW q \in Seq(Write), q # <<>>, NEW n \in 0..Len(Tail(q))
  PROVE  /\ Len(Tail(q)) = Len(q) - 1
         /\ n + 1 \in 1..Len(q)
         /\ SubSeq(Tail(q), n + 1, Len(Tail(q))) = SubSeq(q, n + 2, Len(q))
         /\ {Head(q)} \cup Refused(Tail(q), n) = {q[i] : i \in 1..(n + 1)}
         /\ n < Len(Tail(q)) => Tail(q)[n + 1] = q[n + 2]
<1>1. /\ Tail(q) \in Seq(Write)
      /\ Len(Tail(q)) = Len(q) - 1
      /\ Len(q) \in Nat \ {0}
      /\ \A i \in 1..(Len(q) - 1) : Tail(q)[i] = q[i + 1]
      /\ Head(q) = q[1]
  BY HeadTailProperties
<1>2. n + 1 \in 1..Len(q) /\ n \in Nat
  BY <1>1
<1>3. SubSeq(Tail(q), n + 1, Len(Tail(q))) = SubSeq(q, n + 2, Len(q))
  <2>0. PICK m \in 0..Len(q) : m = n + 1
    BY <1>1, <1>2
  <2>. DEFINE r == SubSeq(Tail(q), n + 1, Len(Tail(q)))
              s == SubSeq(q, m + 1, Len(q))
  <2>1. /\ r \in Seq(Write)
        /\ Len(r) = Len(Tail(q)) - n
        /\ \A i \in 1..(Len(Tail(q)) - n) : r[i] = Tail(q)[n + i]
    BY <1>1, DropFirst
  <2>2. /\ s \in Seq(Write)
        /\ Len(s) = Len(q) - m
        /\ \A i \in 1..(Len(q) - m) : s[i] = q[m + i]
    BY DropFirst
  <2>. HIDE DEF r, s
  <2>3. Len(r) = Len(s) /\ Len(r) \in Nat
    BY <1>1, <1>2, <2>0, <2>1, <2>2
  <2>4. ASSUME NEW i \in 1..Len(r) PROVE r[i] = s[i]
    <3>1. /\ n + i \in 1..(Len(q) - 1)
          /\ (n + i) + 1 = m + i
          /\ i \in 1..(Len(Tail(q)) - n)
          /\ i \in 1..(Len(q) - m)
      BY <1>1, <1>2, <2>0, <2>1
    <3>2. r[i] = Tail(q)[n + i] /\ s[i] = q[m + i]
      BY <2>1, <2>2, <3>1
    <3>. QED
      BY <1>1, <3>1, <3>2
  <2>5. r = s
    BY <2>1, <2>2, <2>3, <2>4, SeqEqual
  <2>6. m + 1 = n + 2
    BY <1>2, <2>0
  <2>. QED
    BY <2>5, <2>6 DEF r, s
<1>4. {Head(q)} \cup Refused(Tail(q), n) = {q[i] : i \in 1..(n + 1)}
  <2>1. ASSUME NEW x \in Refused(Tail(q), n)
        PROVE  x \in {q[i] : i \in 1..(n + 1)}
    <3>1. PICK i \in 1..n : x = Tail(q)[i]
      BY DEF Refused
    <3>. QED
      BY <1>1, <1>2, <3>1
  <2>2. ASSUME NEW i \in 1..(n + 1)
        PROVE  q[i] \in {Head(q)} \cup Refused(Tail(q), n)
    <3>1. CASE i = 1
      BY <1>1, <3>1
    <3>2. CASE i # 1
      <4>1. i - 1 \in 1..n /\ (i - 1) + 1 = i
        BY <1>1, <1>2, <3>2
      <4>2. Tail(q)[i - 1] = q[i]
        BY <1>1, <1>2, <4>1
      <4>. QED
        BY <4>1, <4>2 DEF Refused
    <3>. QED
      BY <3>1, <3>2
  <2>3. Head(q) \in {q[i] : i \in 1..(n + 1)}
    BY <1>1, <1>2
  <2>. QED
    BY <2>1, <2>2, <2>3
<1>. QED
  BY <1>1, <1>2, <1>3, <1>4

-----------------------------------------------------------------------------
(* What each kind of queue operation preserves. *)

\* Nothing but the stack's view changes, and not of a write it never had.
LEMMA AirPreserves ==
  ASSUME QueueInv, air' \in [Write -> Air],
         \A w \in Write : air[w] = "none" => air'[w] = "none",
         UNCHANGED <<queues, inFlight, count, keyOf, told>>
  PROVE  QueueInv'
<1>1. QueueTypes' /\ NothingIsStranded' /\ Sorted' /\ QueuedIsUntold'
      /\ UntoldIsQueued' /\ ToldInOrder'
  BY DEF QueueInv, QueueTypes, NothingIsStranded, Sorted, QueuedIsUntold,
         UntoldIsQueued, ToldInOrder
<1>2. EnqueuedHasKey'
  BY DEF QueueInv, EnqueuedHasKey
<1>3. OnlyHeadInTheAir'
  <2>. SUFFICES ASSUME NEW k \in DOMAIN queues, NEW i \in 2..Len(queues[k])
                PROVE  air'[queues[k][i]] = "none"
    BY DEF OnlyHeadInTheAir
  <2>1. queues[k] \in Seq(Write)
    BY DEF QueueInv, QueueTypes
  <2>2. queues[k][i] \in Write
    BY <2>1
  <2>. QED
    BY <2>2 DEF QueueInv, OnlyHeadInTheAir
<1>. QED
  BY <1>1, <1>2, <1>3 DEF QueueInv

\* The first m writes of one queue are told and polled, and the one after
\* them, if there is one, is submitted: notifyCompleted() with its pump.
LEMMA PollPreserves ==
  ASSUME QueueInv, NEW k \in DOMAIN queues, NEW m \in 1..Len(queues[k]),
         queues' = Put(k, SubSeq(queues[k], m + 1, Len(queues[k]))),
         inFlight' = IF m < Len(queues[k]) THEN inFlight \cup {k}
                     ELSE inFlight \ {k},
         IF m < Len(queues[k])
         THEN \E x \in Air : air' = [air EXCEPT ![queues[k][m + 1]] = x]
         ELSE air' = air,
         told' = [w \in Write |-> IF w \in {queues[k][i] : i \in 1..m}
                                  THEN told[w] + 1 ELSE told[w]],
         UNCHANGED <<count, keyOf>>
  PROVE  QueueInv'
<1>. DEFINE q == queues[k]
            r == SubSeq(q, m + 1, Len(q))
            polled == {q[i] : i \in 1..m}
<1>1. /\ k \in Key /\ q \in Seq(Write) /\ Len(q) \in Nat
      /\ \A i \in 1..Len(q) : q[i] \in Write
  BY DEF QueueInv, QueueTypes
<1>2. /\ r \in Seq(Write)
      /\ Len(r) = Len(q) - m
      /\ \A i \in 1..(Len(q) - m) : r[i] = q[m + i]
  BY <1>1, DropFirst
<1>. HIDE DEF r
<1>3. r = <<>> <=> m = Len(q)
  <2>1. r = <<>> <=> Len(r) = 0
    BY <1>2, EmptySeq
  <2>. QED
    BY <1>1, <1>2, <2>1
<1>4. queues' = Put(k, r)
  BY DEF r
<1>5. /\ DOMAIN queues' = IF m < Len(q) THEN DOMAIN queues ELSE DOMAIN queues \ {k}
      /\ \A j \in DOMAIN queues' : j # k => queues'[j] = queues[j]
      /\ m < Len(q) => queues'[k] = r
  <2>1. CASE m = Len(q)
    <3>1. queues' = [j \in DOMAIN queues \ {k} |-> queues[j]]
      BY <1>3, <1>4, <2>1 DEF Put
    <3>. QED
      BY <1>1, <2>1, <3>1
  <2>2. CASE m < Len(q)
    <3>1. r # <<>>
      BY <1>1, <1>3, <2>2
    <3>2. queues' = [j \in DOMAIN queues \cup {k} |-> IF j = k THEN r ELSE queues[j]]
      BY <1>4, <3>1 DEF Put
    <3>. QED
      BY <2>2, <3>2
  <2>. QED
    BY <1>1, <2>1, <2>2
<1>6. /\ told \in [Write -> 0..1]
      /\ \A w \in polled : w \in Write /\ told[w] = 0 /\ told'[w] = 1
      /\ \A w \in Write \ polled : told'[w] = told[w]
  <2>1. told \in [Write -> 0..1]
    BY DEF QueueInv, QueueTypes
  <2>2. \A w \in polled : w \in Write /\ told[w] = 0
    BY <1>1 DEF QueueInv, QueuedIsUntold
  <2>. QED
    BY <2>1, <2>2
<1>7. \A i \in (m + 1)..Len(q) : q[i] \notin polled
  <2>. SUFFICES ASSUME NEW i \in (m + 1)..Len(q), NEW j \in 1..m, q[i] = q[j]
                PROVE  FALSE
    OBVIOUS
  <2>1. i \in 1..Len(q) /\ j \in 1..Len(q) /\ j < i
    BY <1>1
  <2>2. q[j] < q[i] /\ q[i] \in Nat /\ q[j] \in Nat
    BY <1>1, <2>1 DEF QueueInv, Sorted, Write
  <2>. QED
    BY <2>2
<1>8. \A j \in DOMAIN queues \ {k} : \A i \in 1..Len(queues[j]) :
        queues[j][i] \in Write \ polled
  <2>. SUFFICES ASSUME NEW j \in DOMAIN queues \ {k}, NEW i \in 1..Len(queues[j])
                PROVE  queues[j][i] \in Write \ polled
    OBVIOUS
  <2>1. queues[j][i] \in Write
    BY DEF QueueInv, QueueTypes
  <2>2. keyOf[queues[j][i]] = j /\ \A w \in polled : keyOf[w] = k
    BY <1>1 DEF QueueInv, QueuedIsUntold
  <2>. QED
    BY <2>1, <2>2
<1>9. m < Len(q) => /\ q[m + 1] \in Write
                    /\ air' \in [Write -> Air]
                    /\ \A w \in Write : w # q[m + 1] => air'[w] = air[w]
  BY <1>1 DEF QueueInv, QueueTypes
<1>10. QueueTypes'
  <2>1. told' \in [Write -> 0..1]
    <3>1. ASSUME NEW w \in Write PROVE told'[w] \in 0..1
      <4>1. CASE w \in polled
        <5>1. told'[w] = 1
          BY <1>6, <4>1
        <5>. QED
          BY <5>1
      <4>2. CASE w \notin polled
        <5>1. told'[w] = told[w] /\ told[w] \in 0..1
          BY <1>6, <4>2
        <5>. QED
          BY <5>1
      <4>. QED
        BY <4>1, <4>2
    <3>2. DOMAIN told' = Write /\ told' = [w \in Write |-> told'[w]]
      OBVIOUS
    <3>. QED
      BY <3>1, <3>2
  <2>2. \A j \in DOMAIN queues' : queues'[j] \in Seq(Write)
    BY <1>2, <1>5 DEF QueueInv, QueueTypes
  <2>3. DOMAIN queues' \subseteq Key /\ inFlight' \subseteq Key
    BY <1>1, <1>5 DEF QueueInv, QueueTypes
  <2>4. air' \in [Write -> Air]
    BY <1>9 DEF QueueInv, QueueTypes
  <2>. QED
    BY <2>1, <2>2, <2>3, <2>4 DEF QueueInv, QueueTypes
<1>11. NothingIsStranded'
  <2>1. DOMAIN queues = inFlight /\ \A j \in DOMAIN queues : queues[j] # <<>>
    BY DEF QueueInv, NothingIsStranded
  <2>2. DOMAIN queues' = inFlight'
    BY <2>1, <1>5
  <2>3. \A j \in DOMAIN queues' : queues'[j] # <<>>
    BY <2>1, <1>1, <1>3, <1>5
  <2>. QED
    BY <2>2, <2>3 DEF NothingIsStranded
<1>12. Sorted'
  <2>. SUFFICES ASSUME NEW j \in DOMAIN queues', NEW a \in 1..Len(queues'[j]),
                       NEW b \in 1..Len(queues'[j]), a < b
                PROVE  queues'[j][a] < queues'[j][b]
    BY DEF Sorted
  <2>1. CASE j # k
    BY <2>1, <1>5 DEF QueueInv, Sorted
  <2>2. CASE j = k
    <3>1. m < Len(q) /\ queues'[k] = r /\ Len(queues'[j]) = Len(q) - m
      BY <2>2, <1>1, <1>2, <1>5
    <3>2. /\ m + a \in 1..Len(q) /\ m + b \in 1..Len(q) /\ m + a < m + b
          /\ r[a] = q[m + a] /\ r[b] = q[m + b]
      BY <1>1, <1>2, <3>1
    <3>. QED
      BY <2>2, <3>1, <3>2 DEF QueueInv, Sorted
  <2>. QED
    BY <2>1, <2>2
<1>13. QueuedIsUntold'
  <2>. SUFFICES ASSUME NEW j \in DOMAIN queues', NEW i \in 1..Len(queues'[j])
                PROVE  /\ queues'[j][i] <= count
                       /\ keyOf[queues'[j][i]] = j
                       /\ told'[queues'[j][i]] = 0
    BY DEF QueuedIsUntold
  <2>1. CASE j # k
    <3>1. queues'[j] = queues[j] /\ j \in DOMAIN queues \ {k}
      BY <2>1, <1>5
    <3>2. told'[queues[j][i]] = told[queues[j][i]]
      BY <3>1, <1>6, <1>8
    <3>. QED
      BY <3>1, <3>2 DEF QueueInv, QueuedIsUntold
  <2>2. CASE j = k
    <3>1. m < Len(q) /\ queues'[k] = r /\ Len(queues'[j]) = Len(q) - m
      BY <2>2, <1>1, <1>2, <1>5
    <3>2. m + i \in (m + 1)..Len(q) /\ m + i \in 1..Len(q) /\ r[i] = q[m + i]
      BY <1>1, <1>2, <3>1
    <3>3. told'[q[m + i]] = told[q[m + i]]
      BY <1>1, <1>6, <1>7, <3>2
    <3>. QED
      BY <2>2, <3>1, <3>2, <3>3 DEF QueueInv, QueuedIsUntold
  <2>. QED
    BY <2>1, <2>2
<1>14. UntoldIsQueued'
  <2>. SUFFICES ASSUME NEW w \in Write, w <= count, told'[w] = 0
                PROVE  /\ keyOf[w] \in DOMAIN queues'
                       /\ \E i \in 1..Len(queues'[keyOf[w]]) : queues'[keyOf[w]][i] = w
    BY DEF UntoldIsQueued
  <2>1. w \notin polled /\ told[w] = 0
    BY <1>6
  <2>2. keyOf[w] \in DOMAIN queues
        /\ \E i \in 1..Len(queues[keyOf[w]]) : queues[keyOf[w]][i] = w
    BY <2>1 DEF QueueInv, UntoldIsQueued
  <2>3. CASE keyOf[w] # k
    BY <2>2, <2>3, <1>5
  <2>4. CASE keyOf[w] = k
    <3>1. PICK i \in 1..Len(q) : q[i] = w
      BY <2>2, <2>4
    <3>2. i > m
      BY <1>1, <2>1, <3>1
    <3>3. /\ i - m \in 1..(Len(q) - m) /\ m < Len(q) /\ m + (i - m) = i
      BY <1>1, <3>2
    <3>4. r[i - m] = w /\ queues'[k] = r /\ k \in DOMAIN queues'
      BY <1>2, <1>5, <3>1, <3>3
    <3>. QED
      BY <1>2, <2>4, <3>3, <3>4
  <2>. QED
    BY <2>3, <2>4
<1>15. EnqueuedHasKey'
  <2>. SUFFICES ASSUME NEW w \in Write
                PROVE  IF w <= count THEN keyOf[w] \in Key
                       ELSE keyOf[w] = NoKey /\ told'[w] = 0 /\ air'[w] = "none"
    BY DEF EnqueuedHasKey
  <2>1. CASE w <= count
    BY <2>1 DEF QueueInv, EnqueuedHasKey
  <2>2. CASE ~(w <= count)
    <3>1. \A i \in 1..Len(q) : q[i] # w
      BY <2>2 DEF QueueInv, QueuedIsUntold
    <3>2. w \notin polled /\ told'[w] = told[w]
      BY <1>1, <1>6, <3>1
    <3>3. air'[w] = air[w]
      BY <1>1, <1>9, <3>1
    <3>. QED
      BY <2>2, <3>2, <3>3 DEF QueueInv, EnqueuedHasKey
  <2>. QED
    BY <2>1, <2>2
<1>16. OnlyHeadInTheAir'
  <2>. SUFFICES ASSUME NEW j \in DOMAIN queues', NEW i \in 2..Len(queues'[j])
                PROVE  air'[queues'[j][i]] = "none"
    BY DEF OnlyHeadInTheAir
  <2>1. CASE j # k
    <3>1. queues'[j] = queues[j] /\ j \in DOMAIN queues \ {k}
      BY <2>1, <1>5
    <3>2. i \in 1..Len(queues[j]) /\ queues[j][i] \in Write
      BY <3>1 DEF QueueInv, QueueTypes
    <3>3. keyOf[queues[j][i]] = j /\ (m < Len(q) => keyOf[q[m + 1]] = k)
      BY <1>1, <3>1, <3>2 DEF QueueInv, QueuedIsUntold
    <3>4. air'[queues[j][i]] = air[queues[j][i]]
      BY <1>1, <1>9, <2>1, <3>2, <3>3
    <3>. QED
      BY <3>1, <3>4 DEF QueueInv, OnlyHeadInTheAir
  <2>2. CASE j = k
    <3>1. m < Len(q) /\ queues'[k] = r /\ Len(queues'[j]) = Len(q) - m
      BY <2>2, <1>1, <1>2, <1>5
    <3>2. /\ m + i \in 2..Len(q) /\ m + 1 \in 1..Len(q) /\ m + i \in 1..Len(q)
          /\ m + 1 < m + i /\ r[i] = q[m + i]
      BY <1>1, <1>2, <3>1
    <3>3. q[m + 1] < q[m + i] /\ q[m + 1] \in Nat /\ q[m + i] \in Write
      BY <1>1, <3>2 DEF QueueInv, Sorted, Write
    <3>4. air'[q[m + i]] = air[q[m + i]]
      BY <1>9, <3>1, <3>3 DEF Write
    <3>. QED
      BY <2>2, <3>1, <3>2, <3>4 DEF QueueInv, OnlyHeadInTheAir
  <2>. QED
    BY <2>1, <2>2
<1>17. ToldInOrder'
  <2>. SUFFICES ASSUME NEW v \in Write, NEW w \in Write, v < w,
                       keyOf[v] = keyOf[w], keyOf[w] \in Key, told'[w] = 1
                PROVE  told'[v] = 1
    BY DEF ToldInOrder
  <2>1. CASE w \notin polled
    <3>1. told[v] = 1
      BY <2>1, <1>6 DEF QueueInv, ToldInOrder
    <3>. QED
      BY <3>1, <1>6
  <2>2. CASE w \in polled
    <3>1. PICK i \in 1..m : q[i] = w
      BY <2>2
    <3>2. keyOf[w] = k /\ w <= count
      BY <1>1, <3>1 DEF QueueInv, QueuedIsUntold
    <3>3. CASE told[v] = 1
      BY <3>3, <1>6
    <3>4. CASE told[v] = 0
      <4>1. v <= count
        BY <3>2 DEF QueueInv, QueueTypes, Write
      <4>2. PICK h \in 1..Len(q) : q[h] = v
        BY <3>2, <3>4, <4>1 DEF QueueInv, UntoldIsQueued
      <4>3. h \in 1..m
        <5>1. ~(i < h)
          <6>1. ASSUME i < h PROVE FALSE
            <7>1. i \in 1..Len(q) /\ q[i] < q[h]
              BY <1>1, <6>1 DEF QueueInv, Sorted
            <7>. QED
              BY <3>1, <4>2, <7>1 DEF Write
          <6>. QED
            BY <6>1
        <5>. QED
          BY <1>1, <5>1
      <4>. QED
        BY <1>6, <4>2, <4>3
    <3>. QED
      BY <3>3, <3>4, <1>6
  <2>. QED
    BY <2>1, <2>2
<1>. QED
  BY <1>10, <1>11, <1>12, <1>13, <1>14, <1>15, <1>16, <1>17 DEF QueueInv

\* The queues of some keys are removed and their writes told, while the stack
\* may lose what it was given: clear().
LEMMA ClearPreserves ==
  ASSUME QueueInv, NEW K \in SUBSET Key,
         queues' = [k \in DOMAIN queues \ K |-> queues[k]],
         inFlight' = inFlight \ (K \cap DOMAIN queues),
         told' = [w \in Write |->
                    IF w \in UNION {Elements(queues[k]) : k \in K \cap DOMAIN queues}
                    THEN told[w] + 1 ELSE told[w]],
         air' \in [Write -> Air],
         \A w \in Write : air[w] = "none" => air'[w] = "none",
         UNCHANGED <<count, keyOf>>
  PROVE  QueueInv'
<1>. DEFINE gone == UNION {Elements(queues[k]) : k \in K \cap DOMAIN queues}
<1>1. \A k \in DOMAIN queues : /\ queues[k] \in Seq(Write)
                               /\ \A i \in 1..Len(queues[k]) : queues[k][i] \in Write
  BY DEF QueueInv, QueueTypes
<1>2. \A w \in gone : w \in Write /\ keyOf[w] \in K /\ told[w] = 0 /\ w <= count
  <2>. SUFFICES ASSUME NEW k \in K \cap DOMAIN queues, NEW w \in Elements(queues[k])
                PROVE  w \in Write /\ keyOf[w] \in K /\ told[w] = 0 /\ w <= count
    OBVIOUS
  <2>1. PICK i \in 1..Len(queues[k]) : w = queues[k][i]
    BY DEF Elements
  <2>. QED
    BY <1>1, <2>1 DEF QueueInv, QueuedIsUntold
<1>3. \A w \in Write : w <= count /\ told[w] = 0 /\ keyOf[w] \in K => w \in gone
  BY DEF QueueInv, UntoldIsQueued, Elements
<1>4. /\ DOMAIN queues' = DOMAIN queues \ K
      /\ \A k \in DOMAIN queues' : queues'[k] = queues[k]
  OBVIOUS
<1>5. /\ \A w \in gone : told'[w] = 1
      /\ \A w \in Write \ gone : told'[w] = told[w]
  BY <1>2
<1>. HIDE DEF gone
<1>6. QueueTypes'
  <2>1. ASSUME NEW w \in Write PROVE told'[w] \in 0..1
    <3>1. told[w] \in 0..1
      BY DEF QueueInv, QueueTypes
    <3>. QED
      BY <1>5, <3>1
  <2>2. told' = [w \in Write |-> told'[w]]
    OBVIOUS
  <2>3. told' \in [Write -> 0..1]
    BY <2>1, <2>2
  <2>. QED
    BY <1>1, <1>4, <2>3 DEF QueueInv, QueueTypes
<1>7. NothingIsStranded'
  BY <1>4 DEF QueueInv, NothingIsStranded
<1>8. Sorted'
  BY <1>4 DEF QueueInv, Sorted
<1>9. QueuedIsUntold'
  <2>. SUFFICES ASSUME NEW k \in DOMAIN queues \ K, NEW i \in 1..Len(queues[k])
                PROVE  /\ queues[k][i] <= count
                       /\ keyOf[queues[k][i]] = k
                       /\ told'[queues[k][i]] = 0
    BY <1>4 DEF QueuedIsUntold
  <2>1. /\ queues[k][i] \in Write /\ queues[k][i] <= count
        /\ keyOf[queues[k][i]] = k /\ told[queues[k][i]] = 0
    BY <1>1 DEF QueueInv, QueuedIsUntold
  <2>2. queues[k][i] \notin gone
    BY <1>2, <2>1
  <2>. QED
    BY <1>5, <2>1, <2>2
<1>10. UntoldIsQueued'
  <2>. SUFFICES ASSUME NEW w \in Write, w <= count, told'[w] = 0
                PROVE  /\ keyOf[w] \in DOMAIN queues'
                       /\ \E i \in 1..Len(queues'[keyOf[w]]) : queues'[keyOf[w]][i] = w
    BY DEF UntoldIsQueued
  <2>1. w \notin gone /\ told[w] = 0
    BY <1>5
  <2>2. keyOf[w] \notin K
    BY <1>3, <2>1
  <2>. QED
    BY <1>4, <2>1, <2>2 DEF QueueInv, UntoldIsQueued
<1>11. EnqueuedHasKey'
  <2>. SUFFICES ASSUME NEW w \in Write
                PROVE  IF w <= count THEN keyOf[w] \in Key
                       ELSE keyOf[w] = NoKey /\ told'[w] = 0 /\ air'[w] = "none"
    BY DEF EnqueuedHasKey
  <2>1. ~(w <= count) => w \notin gone
    BY <1>2
  <2>. QED
    BY <1>5, <2>1 DEF QueueInv, EnqueuedHasKey
<1>12. OnlyHeadInTheAir'
  <2>. SUFFICES ASSUME NEW k \in DOMAIN queues \ K, NEW i \in 2..Len(queues[k])
                PROVE  air'[queues[k][i]] = "none"
    BY <1>4 DEF OnlyHeadInTheAir
  <2>1. queues[k][i] \in Write
    BY <1>1
  <2>. QED
    BY <2>1 DEF QueueInv, OnlyHeadInTheAir
<1>13. ToldInOrder'
  <2>. SUFFICES ASSUME NEW v \in Write, NEW w \in Write, v < w,
                       keyOf[v] = keyOf[w], keyOf[w] \in Key, told'[w] = 1
                PROVE  told'[v] = 1
    BY DEF ToldInOrder
  <2>1. CASE w \notin gone
    BY <2>1, <1>5 DEF QueueInv, ToldInOrder
  <2>2. CASE w \in gone
    <3>1. keyOf[v] \in K /\ v <= count
      BY <1>2, <2>2 DEF QueueInv, QueueTypes, Write
    <3>2. told[v] = 0 \/ told[v] = 1
      BY DEF QueueInv, QueueTypes
    <3>. QED
      BY <1>2, <1>3, <1>5, <3>1, <3>2
  <2>. QED
    BY <2>1, <2>2
<1>. QED
  BY <1>6, <1>7, <1>8, <1>9, <1>10, <1>11, <1>12, <1>13 DEF QueueInv

\* A new write is appended to its queue, and submitted if it is the head.
LEMMA AppendPreserves ==
  ASSUME QueueInv, NEW k \in Key, count + 1 \in Write,
         count' = count + 1,
         keyOf' = [keyOf EXCEPT ![count + 1] = k],
         queues' = Put(k, Append(QueueOf(k), count + 1)),
         inFlight' = inFlight \cup {k},
         told' = told,
         IF k \in DOMAIN queues THEN air' = air
         ELSE \E x \in Air : air' = [air EXCEPT ![count + 1] = x]
  PROVE  QueueInv'
<1>. DEFINE w == count + 1
            q == QueueOf(k)
            r == Append(q, w)
<1>1. /\ q \in Seq(Write) /\ Len(q) \in Nat
      /\ k \in DOMAIN queues => q = queues[k]
      /\ k \notin DOMAIN queues => Len(q) = 0
  BY DEF QueueInv, QueueTypes, QueueOf
<1>2. /\ r \in Seq(Write) /\ r # <<>>
      /\ Len(r) = Len(q) + 1
      /\ r[Len(q) + 1] = w
      /\ \A i \in 1..Len(q) : r[i] = q[i]
  BY <1>1, AppendProperties
<1>3. /\ told[w] = 0 /\ air[w] = "none" /\ keyOf[w] = NoKey
      /\ count \in Nat /\ w \in Nat
  BY DEF QueueInv, QueueTypes, EnqueuedHasKey, Write
<1>4. /\ keyOf' \in [Write -> Key \cup {NoKey}]
      /\ keyOf'[w] = k
      /\ \A v \in Write : v # w => keyOf'[v] = keyOf[v]
  BY DEF QueueInv, QueueTypes
<1>5. /\ air' \in [Write -> Air]
      /\ \A v \in Write : v # w => air'[v] = air[v]
      /\ k \in DOMAIN queues => air'[w] = "none"
  BY <1>3 DEF QueueInv, QueueTypes
<1>. HIDE DEF q, r
<1>6. /\ DOMAIN queues' = DOMAIN queues \cup {k}
      /\ queues'[k] = r
      /\ \A j \in DOMAIN queues : j # k => queues'[j] = queues[j]
  <2>1. queues' = Put(k, r)
    BY DEF r, q
  <2>. QED
    BY <1>2, <2>1 DEF Put
<1>7. \A i \in 1..Len(q) : k \in DOMAIN queues /\ q[i] = queues[k][i]
                           /\ i \in 1..Len(queues[k])
  BY <1>1
<1>8. \A i \in 1..Len(q) : /\ q[i] \in Write /\ q[i] < w /\ q[i] <= count
                           /\ keyOf[q[i]] = k /\ told[q[i]] = 0
  <2>. SUFFICES ASSUME NEW i \in 1..Len(q)
                PROVE  /\ q[i] \in Write /\ q[i] < w /\ q[i] <= count
                       /\ keyOf[q[i]] = k /\ told[q[i]] = 0
    OBVIOUS
  <2>1. q[i] \in Write
    BY <1>1
  <2>2. q[i] <= count /\ keyOf[q[i]] = k /\ told[q[i]] = 0
    BY <1>7 DEF QueueInv, QueuedIsUntold
  <2>. QED
    BY <1>3, <2>1, <2>2 DEF Write
<1>9. \A j \in DOMAIN queues : \A i \in 1..Len(queues[j]) :
        /\ queues[j][i] \in Write /\ queues[j][i] <= count /\ queues[j][i] # w
        /\ keyOf[queues[j][i]] = j /\ told[queues[j][i]] = 0
  <2>. SUFFICES ASSUME NEW j \in DOMAIN queues, NEW i \in 1..Len(queues[j])
                PROVE  /\ queues[j][i] \in Write /\ queues[j][i] <= count
                       /\ queues[j][i] # w
                       /\ keyOf[queues[j][i]] = j /\ told[queues[j][i]] = 0
    OBVIOUS
  <2>1. queues[j][i] \in Write
    BY DEF QueueInv, QueueTypes
  <2>2. queues[j][i] <= count /\ keyOf[queues[j][i]] = j /\ told[queues[j][i]] = 0
    BY DEF QueueInv, QueuedIsUntold
  <2>. QED
    BY <1>3, <2>1, <2>2 DEF Write
<1>10. QueueTypes'
  <2>1. count' \in 0..MaxWrites
    BY <1>3 DEF Write
  <2>2. \A j \in DOMAIN queues' : queues'[j] \in Seq(Write)
    BY <1>2, <1>6 DEF QueueInv, QueueTypes
  <2>3. DOMAIN queues' \subseteq Key /\ inFlight' \subseteq Key
    BY <1>6 DEF QueueInv, QueueTypes
  <2>4. told' \in [Write -> 0..1]
    BY DEF QueueInv, QueueTypes
  <2>. QED
    BY <1>4, <1>5, <2>1, <2>2, <2>3, <2>4 DEF QueueTypes
<1>11. NothingIsStranded'
  BY <1>2, <1>6 DEF QueueInv, NothingIsStranded
<1>12. Sorted'
  <2>. SUFFICES ASSUME NEW j \in DOMAIN queues', NEW a \in 1..Len(queues'[j]),
                       NEW b \in 1..Len(queues'[j]), a < b
                PROVE  queues'[j][a] < queues'[j][b]
    BY DEF Sorted
  <2>1. CASE j # k
    BY <2>1, <1>6 DEF QueueInv, Sorted
  <2>2. CASE j = k
    <3>1. /\ queues'[j] = r /\ a \in 1..Len(q)
          /\ b \in 1..Len(q) \/ b = Len(q) + 1
      BY <1>1, <1>2, <1>6, <2>2
    <3>2. CASE b = Len(q) + 1
      BY <1>2, <1>8, <3>1, <3>2
    <3>3. CASE b \in 1..Len(q)
      <4>1. q[a] < q[b]
        BY <1>7, <3>1, <3>3 DEF QueueInv, Sorted
      <4>. QED
        BY <1>2, <3>1, <3>3, <4>1
    <3>. QED
      BY <3>1, <3>2, <3>3
  <2>. QED
    BY <2>1, <2>2
<1>13. QueuedIsUntold'
  <2>. SUFFICES ASSUME NEW j \in DOMAIN queues', NEW i \in 1..Len(queues'[j])
                PROVE  /\ queues'[j][i] <= count'
                       /\ keyOf'[queues'[j][i]] = j
                       /\ told'[queues'[j][i]] = 0
    BY DEF QueuedIsUntold
  <2>1. CASE j # k
    <3>1. j \in DOMAIN queues /\ queues'[j] = queues[j] /\ i \in 1..Len(queues[j])
      BY <1>6, <2>1
    <3>2. queues[j][i] \in Write
      BY <1>9, <3>1
    <3>. QED
      BY <1>3, <1>4, <1>9, <3>1, <3>2 DEF Write
  <2>2. CASE j = k
    <3>1. queues'[j] = r /\ (i \in 1..Len(q) \/ i = Len(q) + 1)
      BY <1>1, <1>2, <1>6, <2>2
    <3>2. CASE i = Len(q) + 1
      BY <1>2, <1>3, <1>4, <2>2, <3>1, <3>2
    <3>3. CASE i \in 1..Len(q)
      <4>1. r[i] = q[i] /\ q[i] \in Write /\ q[i] < w
        BY <1>2, <1>8, <3>3
      <4>2. q[i] # w /\ q[i] <= count + 1
        BY <1>3, <4>1 DEF Write
      <4>. QED
        BY <1>4, <1>8, <2>2, <3>1, <3>3, <4>1, <4>2
    <3>. QED
      BY <3>1, <3>2, <3>3
  <2>. QED
    BY <2>1, <2>2
<1>14. UntoldIsQueued'
  <2>. SUFFICES ASSUME NEW v \in Write, v <= count', told'[v] = 0
                PROVE  /\ keyOf'[v] \in DOMAIN queues'
                       /\ \E i \in 1..Len(queues'[keyOf'[v]]) : queues'[keyOf'[v]][i] = v
    BY DEF UntoldIsQueued
  <2>1. CASE v = w
    <3>1. Len(q) + 1 \in 1..Len(r)
      BY <1>1, <1>2
    <3>. QED
      BY <1>2, <1>4, <1>6, <2>1, <3>1
  <2>2. CASE v # w
    <3>1. v <= count /\ told[v] = 0 /\ keyOf'[v] = keyOf[v]
      BY <1>3, <1>4, <2>2 DEF Write
    <3>2. PICK i \in 1..Len(queues[keyOf[v]]) : queues[keyOf[v]][i] = v
      BY <3>1 DEF QueueInv, UntoldIsQueued
    <3>3. keyOf[v] \in DOMAIN queues
      BY <3>1 DEF QueueInv, UntoldIsQueued
    <3>4. CASE keyOf[v] # k
      BY <1>6, <3>1, <3>2, <3>3, <3>4
    <3>5. CASE keyOf[v] = k
      <4>1. q = queues[k] /\ i \in 1..Len(q) /\ r[i] = v /\ i \in 1..Len(r)
        BY <1>1, <1>2, <3>2, <3>3, <3>5
      <4>. QED
        BY <1>6, <3>1, <3>5, <4>1
    <3>. QED
      BY <3>4, <3>5
  <2>. QED
    BY <2>1, <2>2
<1>15. EnqueuedHasKey'
  <2>. SUFFICES ASSUME NEW v \in Write
                PROVE  IF v <= count' THEN keyOf'[v] \in Key
                       ELSE keyOf'[v] = NoKey /\ told'[v] = 0 /\ air'[v] = "none"
    BY DEF EnqueuedHasKey
  <2>1. CASE v = w
    BY <1>3, <1>4, <2>1
  <2>2. CASE v # w
    <3>1. v <= count' <=> v <= count
      BY <1>3, <2>2 DEF Write
    <3>. QED
      BY <1>4, <1>5, <2>2, <3>1 DEF QueueInv, EnqueuedHasKey
  <2>. QED
    BY <2>1, <2>2
<1>16. OnlyHeadInTheAir'
  <2>. SUFFICES ASSUME NEW j \in DOMAIN queues', NEW i \in 2..Len(queues'[j])
                PROVE  air'[queues'[j][i]] = "none"
    BY DEF OnlyHeadInTheAir
  <2>1. CASE j # k
    <3>1. j \in DOMAIN queues /\ queues'[j] = queues[j] /\ i \in 2..Len(queues[j])
          /\ i \in 1..Len(queues[j])
      BY <1>6, <2>1
    <3>. QED
      BY <1>5, <1>9, <3>1 DEF QueueInv, OnlyHeadInTheAir
  <2>2. CASE j = k
    <3>1. queues'[j] = r /\ (i \in 2..Len(q) \/ i = Len(q) + 1)
      BY <1>1, <1>2, <1>6, <2>2
    <3>2. CASE i = Len(q) + 1
      <4>1. k \in DOMAIN queues
        BY <1>1, <3>2
      <4>. QED
        BY <1>2, <1>5, <3>1, <3>2, <4>1
    <3>3. CASE i \in 2..Len(q)
      <4>1. i \in 1..Len(q)
        BY <1>1, <3>3
      <4>2. q = queues[k] /\ k \in DOMAIN queues
        BY <1>1, <1>7, <4>1
      <4>3. air[q[i]] = "none"
        BY <3>3, <4>2 DEF QueueInv, OnlyHeadInTheAir
      <4>4. r[i] = q[i] /\ q[i] \in Write /\ q[i] # w
        BY <1>2, <1>9, <4>1, <4>2
      <4>. QED
        BY <1>5, <3>1, <4>3, <4>4
    <3>. QED
      BY <3>1, <3>2, <3>3
  <2>. QED
    BY <2>1, <2>2
<1>17. ToldInOrder'
  <2>. SUFFICES ASSUME NEW v \in Write, NEW u \in Write, v < u,
                       keyOf'[v] = keyOf'[u], keyOf'[u] \in Key, told'[u] = 1
                PROVE  told'[v] = 1
    BY DEF ToldInOrder
  <2>1. u # w
    BY <1>3
  <2>2. u <= count
    BY <1>4, <2>1, KeyAssumption DEF QueueInv, EnqueuedHasKey
  <2>3. v # w
    BY <1>3, <2>2 DEF Write
  <2>. QED
    BY <1>4, <2>1, <2>3 DEF QueueInv, ToldInOrder
<1>. QED
  BY <1>10, <1>11, <1>12, <1>13, <1>14, <1>15, <1>16, <1>17 DEF QueueInv

\* A new write is refused at once: with nothing in flight its queue was empty
\* and is removed again.
LEMMA RefusePreserves ==
  ASSUME QueueInv, NEW k \in Key, k \notin DOMAIN queues, count + 1 \in Write,
         count' = count + 1,
         keyOf' = [keyOf EXCEPT ![count + 1] = k],
         queues' = [j \in DOMAIN queues \ {k} |-> queues[j]],
         inFlight' = inFlight \ {k},
         told' = [v \in Write |-> IF v = count + 1 THEN told[v] + 1 ELSE told[v]],
         air' = air
  PROVE  QueueInv'
<1>. DEFINE w == count + 1
<1>1. /\ told[w] = 0 /\ keyOf[w] = NoKey
      /\ count \in Nat /\ w \in Nat
  BY DEF QueueInv, QueueTypes, EnqueuedHasKey, Write
<1>2. /\ keyOf' \in [Write -> Key \cup {NoKey}]
      /\ keyOf'[w] = k
      /\ \A v \in Write : v # w => keyOf'[v] = keyOf[v]
  BY DEF QueueInv, QueueTypes
<1>3. /\ told'[w] = 1
      /\ \A v \in Write : v # w => told'[v] = told[v]
  BY <1>1
<1>4. /\ DOMAIN queues' = DOMAIN queues
      /\ \A j \in DOMAIN queues : queues'[j] = queues[j]
      /\ inFlight' = inFlight
  BY DEF QueueInv, NothingIsStranded
<1>5. \A j \in DOMAIN queues : \A i \in 1..Len(queues[j]) :
        queues[j][i] \in Write /\ queues[j][i] <= count /\ queues[j][i] # w
  <2>. SUFFICES ASSUME NEW j \in DOMAIN queues, NEW i \in 1..Len(queues[j])
                PROVE  queues[j][i] \in Write /\ queues[j][i] <= count /\ queues[j][i] # w
    OBVIOUS
  <2>1. queues[j][i] \in Write
    BY DEF QueueInv, QueueTypes
  <2>2. queues[j][i] <= count
    BY DEF QueueInv, QueuedIsUntold
  <2>. QED
    BY <1>1, <2>1, <2>2 DEF Write
<1>6. QueueTypes'
  <2>1. ASSUME NEW v \in Write PROVE told'[v] \in 0..1
    <3>1. told[v] \in 0..1
      BY DEF QueueInv, QueueTypes
    <3>. QED
      BY <1>3, <3>1
  <2>2. told' = [v \in Write |-> told'[v]]
    OBVIOUS
  <2>3. told' \in [Write -> 0..1]
    BY <2>1, <2>2
  <2>4. count' \in 0..MaxWrites
    BY <1>1 DEF Write
  <2>. QED
    BY <1>2, <1>4, <2>3, <2>4 DEF QueueInv, QueueTypes
<1>7. NothingIsStranded' /\ Sorted'
  BY <1>4 DEF QueueInv, NothingIsStranded, Sorted
<1>8. QueuedIsUntold'
  <2>. SUFFICES ASSUME NEW j \in DOMAIN queues, NEW i \in 1..Len(queues[j])
                PROVE  /\ queues[j][i] <= count'
                       /\ keyOf'[queues[j][i]] = j
                       /\ told'[queues[j][i]] = 0
    BY <1>4 DEF QueuedIsUntold
  <2>1. queues[j][i] \in Write /\ queues[j][i] <= count /\ queues[j][i] # w
    BY <1>5
  <2>2. queues[j][i] <= count'
    BY <1>1, <2>1 DEF Write
  <2>. QED
    BY <1>2, <1>3, <2>1, <2>2 DEF QueueInv, QueuedIsUntold
<1>9. UntoldIsQueued'
  <2>. SUFFICES ASSUME NEW v \in Write, v <= count', told'[v] = 0
                PROVE  /\ keyOf'[v] \in DOMAIN queues'
                       /\ \E i \in 1..Len(queues'[keyOf'[v]]) : queues'[keyOf'[v]][i] = v
    BY DEF UntoldIsQueued
  <2>1. v # w
    BY <1>3
  <2>2. v <= count /\ told[v] = 0 /\ keyOf'[v] = keyOf[v]
    BY <1>1, <1>2, <1>3, <2>1 DEF Write
  <2>. QED
    BY <1>4, <2>2 DEF QueueInv, UntoldIsQueued
<1>10. EnqueuedHasKey'
  <2>. SUFFICES ASSUME NEW v \in Write
                PROVE  IF v <= count' THEN keyOf'[v] \in Key
                       ELSE keyOf'[v] = NoKey /\ told'[v] = 0 /\ air'[v] = "none"
    BY DEF EnqueuedHasKey
  <2>1. CASE v = w
    BY <1>1, <1>2, <2>1
  <2>2. CASE v # w
    <3>1. v <= count' <=> v <= count
      BY <1>1, <2>2 DEF Write
    <3>. QED
      BY <1>2, <1>3, <2>2, <3>1 DEF QueueInv, EnqueuedHasKey
  <2>. QED
    BY <2>1, <2>2
<1>11. OnlyHeadInTheAir'
  BY <1>4 DEF QueueInv, OnlyHeadInTheAir
<1>12. ToldInOrder'
  <2>. SUFFICES ASSUME NEW v \in Write, NEW u \in Write, v < u,
                       keyOf'[v] = keyOf'[u], keyOf'[u] \in Key, told'[u] = 1
                PROVE  told'[v] = 1
    BY DEF ToldInOrder
  <2>1. CASE u # w
    <3>1. u <= count
      BY <1>2, <2>1, KeyAssumption DEF QueueInv, EnqueuedHasKey
    <3>2. v # w
      BY <1>1, <3>1 DEF Write
    <3>. QED
      BY <1>2, <1>3, <2>1, <3>2 DEF QueueInv, ToldInOrder
  <2>2. CASE u = w
    <3>1. v # w /\ v <= count /\ keyOf[v] = k
      BY <1>1, <1>2, <2>2 DEF Write
    <3>2. told[v] # 0
      BY <3>1 DEF QueueInv, UntoldIsQueued
    <3>3. told[v] = 1
      BY <3>2 DEF QueueInv, QueueTypes
    <3>. QED
      BY <1>3, <3>1, <3>3
  <2>. QED
    BY <2>1, <2>2
<1>. QED
  BY <1>6, <1>7, <1>8, <1>9, <1>10, <1>11, <1>12 DEF QueueInv

-----------------------------------------------------------------------------
(* The actions. *)

\* Settling writes keeps the types of what the callers see.
LEMMA SettleTypes ==
  ASSUME CallerTypes, NEW T \in SUBSET Write, NEW F, Settle(T, F), MaxWrites \in Nat
  PROVE  /\ succeeded' \subseteq Write
         /\ awaiting' \in [Thread -> 0..MaxWrites]
BY DEF CallerTypes, Settle

\* Submitting a write gives the stack's view of it some value.
LEMMA SubmitTypes ==
  ASSUME NEW k, NEW w, Submit(k, w)
  PROVE  \E x \in Air : air' = [air EXCEPT ![w] = x]
BY DEF Submit, Air

\* Losing links keeps what the stack never had.
LEMMA CutTypes ==
  ASSUME QueueInv, CallerTypes, NEW K \in SUBSET Key, Cut(K)
  PROVE  /\ air' \in [Write -> Air]
         /\ \A w \in Write : air[w] = "none" => air'[w] = "none"
         /\ link' \in [Key -> {"up", "down"}]
<1>1. air \in [Write -> Air]
  BY DEF QueueInv, QueueTypes
<1>2. "lost" \in Air
  BY DEF Air
<1>. QED
  BY <1>1, <1>2 DEF Cut, CallerTypes

\* notifyCompleted() preserves the invariant.
LEMMA NotifyStep ==
  ASSUME Inv, NEW k, NEW ok, NotifyCompleted(k, ok), UNCHANGED <<count, keyOf>>
  PROVE  /\ QueueInv'
         /\ succeeded' \subseteq Write
         /\ awaiting' \in [Thread -> 0..MaxWrites]
<1>1. CASE k \in DOMAIN queues /\ k \in inFlight
  <2>. DEFINE q == queues[k]
              r == Tail(q)
  <2>1. q \in Seq(Write) /\ q # <<>> /\ Len(q) \in Nat
    BY <1>1 DEF Inv, QueueInv, QueueTypes, NothingIsStranded
  <2>2. PICK n \in 0..Len(r) :
          /\ PumpLocked(k, r, n)
          /\ IF ok THEN Settle({Head(q)}, Refused(r, n))
             ELSE Settle({}, {Head(q)} \cup Refused(r, n))
    BY <1>1 DEF NotifyCompleted
  <2>3. /\ Len(r) = Len(q) - 1
        /\ n + 1 \in 1..Len(q)
        /\ SubSeq(r, n + 1, Len(r)) = SubSeq(q, n + 2, Len(q))
        /\ {Head(q)} \cup Refused(r, n) = {q[i] : i \in 1..(n + 1)}
        /\ n < Len(r) => r[n + 1] = q[n + 2]
    BY <2>1, DropOfTail
  <2>4. PICK m \in 1..Len(q) : m = n + 1
    BY <2>3
  <2>. HIDE DEF r
  <2>5. n < Len(r) <=> m < Len(q)
    BY <2>1, <2>3, <2>4
  <2>6. queues' = Put(k, SubSeq(q, m + 1, Len(q)))
    <3>1. m + 1 = n + 2
      BY <2>3, <2>4
    <3>. QED
      BY <2>2, <2>3, <3>1 DEF PumpLocked
  <2>7. inFlight' = IF m < Len(q) THEN inFlight \cup {k} ELSE inFlight \ {k}
    BY <2>2, <2>5 DEF PumpLocked
  <2>8. IF m < Len(q) THEN \E x \in Air : air' = [air EXCEPT ![q[m + 1]] = x]
        ELSE air' = air
    <3>1. CASE m < Len(q)
      <4>1. Submit(k, r[n + 1]) /\ r[n + 1] = q[m + 1]
        <5>1. n + 2 = m + 1
          BY <2>3, <2>4
        <5>. QED
          BY <2>2, <2>3, <2>5, <3>1, <5>1 DEF PumpLocked
      <4>. QED
        BY <3>1, <4>1, SubmitTypes
    <3>2. CASE ~(m < Len(q))
      BY <2>2, <2>5, <3>2 DEF PumpLocked
    <3>. QED
      BY <3>1, <3>2
  <2>9. told' = [w \in Write |-> IF w \in {q[i] : i \in 1..m}
                                 THEN told[w] + 1 ELSE told[w]]
    BY <2>2, <2>3, <2>4 DEF Settle
  <2>10. QueueInv'
    BY <1>1, <2>6, <2>7, <2>8, <2>9, PollPreserves DEF Inv
  <2>11. Head(q) \in Write
    BY <2>1, HeadTailProperties
  <2>12. succeeded' \subseteq Write /\ awaiting' \in [Thread -> 0..MaxWrites]
    <3>1. CASE ok
      BY <2>2, <2>11, <3>1, SettleTypes, BoundAssumption DEF Inv
    <3>2. CASE ~ok
      BY <2>2, <3>2, SettleTypes, BoundAssumption DEF Inv
    <3>. QED
      BY <3>1, <3>2
  <2>. QED
    BY <2>10, <2>12
<1>2. CASE ~(k \in DOMAIN queues /\ k \in inFlight)
  <2>1. UNCHANGED <<queues, inFlight, told, succeeded, awaiting, air>>
    BY <1>2 DEF NotifyCompleted
  <2>2. air' \in [Write -> Air] /\ \A w \in Write : air[w] = "none" => air'[w] = "none"
    BY <2>1 DEF Inv, QueueInv, QueueTypes
  <2>3. QueueInv'
    BY <2>1, <2>2, AirPreserves DEF Inv
  <2>. QED
    BY <2>1, <2>3 DEF Inv, CallerTypes
<1>. QED
  BY <1>1, <1>2

\* clear() preserves the invariant, with or without a loss of links.
LEMMA ClearStep ==
  ASSUME Inv, NEW K \in SUBSET Key, Clear(K), UNCHANGED <<count, keyOf>>,
         air' \in [Write -> Air],
         \A w \in Write : air[w] = "none" => air'[w] = "none"
  PROVE  /\ QueueInv'
         /\ succeeded' \subseteq Write
         /\ awaiting' \in [Thread -> 0..MaxWrites]
<1>. DEFINE gone == UNION {Elements(queues[k]) : k \in K \cap DOMAIN queues}
<1>1. /\ queues' = [k \in DOMAIN queues \ K |-> queues[k]]
      /\ inFlight' = inFlight \ (K \cap DOMAIN queues)
      /\ Settle({}, gone)
  BY DEF Clear
<1>2. told' = [w \in Write |-> IF w \in gone THEN told[w] + 1 ELSE told[w]]
  <2>. HIDE DEF gone
  <2>1. {} \cup gone = gone
    OBVIOUS
  <2>. QED
    BY <1>1, <2>1 DEF Settle
<1>3. QueueInv'
  BY <1>1, <1>2, ClearPreserves DEF Inv
<1>4. {} \in SUBSET Write
  OBVIOUS
<1>. HIDE DEF gone
<1>5. succeeded' \subseteq Write /\ awaiting' \in [Thread -> 0..MaxWrites]
  BY <1>1, <1>4, SettleTypes, BoundAssumption DEF Inv
<1>. QED
  BY <1>3, <1>5

\* enqueue() preserves the invariant.
LEMMA EnqueueStep ==
  ASSUME Inv, NEW t \in Thread, Enqueue(t)
  PROVE  Inv'
<1>. DEFINE k == sending[t]
            w == count + 1
<1>1. /\ k \in Key /\ w \in Write
      /\ count' = w
      /\ keyOf' = [keyOf EXCEPT ![w] = k]
      /\ sending' = [sending EXCEPT ![t] = NoKey]
      /\ UNCHANGED <<callbacks, linkVars>>
  BY DEF Enqueue, Inv, QueueInv, QueueTypes, CallerTypes, Write
<1>. HIDE DEF k
<1>2. /\ inFlight = DOMAIN queues
      /\ k \notin inFlight => QueueOf(k) = <<>>
  BY DEF Inv, QueueInv, NothingIsStranded, QueueOf
<1>3. sending' \in [Thread -> Key \cup {NoKey}]
  BY <1>1 DEF Inv, CallerTypes
<1>4. CASE EnqueueBuffered(k, w) /\ awaiting' = [awaiting EXCEPT ![t] = w]
  <2>1. /\ k \in DOMAIN queues /\ inFlight' = inFlight \cup {k}
        /\ queues' = Put(k, Append(QueueOf(k), w))
        /\ told' = told /\ air' = air /\ succeeded' = succeeded
    BY <1>2, <1>4 DEF EnqueueBuffered
  <2>2. QueueInv'
    BY <1>1, <2>1, AppendPreserves DEF Inv
  <2>3. CallerTypes'
    BY <1>1, <1>3, <1>4, <2>1 DEF Inv, CallerTypes, Write, linkVars
  <2>. QED
    BY <2>2, <2>3 DEF Inv
<1>5. CASE EnqueueAccepted(k, w) /\ awaiting' = [awaiting EXCEPT ![t] = w]
  <2>1. /\ k \notin DOMAIN queues /\ inFlight' = inFlight \cup {k}
        /\ queues' = Put(k, Append(QueueOf(k), w))
        /\ told' = told /\ succeeded' = succeeded
        /\ Submit(k, Head(Append(QueueOf(k), w)))
    BY <1>2, <1>5 DEF EnqueueAccepted
  <2>2. Head(Append(QueueOf(k), w)) = w
    BY <1>2, <2>1
  <2>3. \E x \in Air : air' = [air EXCEPT ![w] = x]
    BY <2>1, <2>2, SubmitTypes
  <2>4. QueueInv'
    BY <1>1, <2>1, <2>3, AppendPreserves DEF Inv
  <2>5. CallerTypes'
    BY <1>1, <1>3, <1>5, <2>1 DEF Inv, CallerTypes, Write, linkVars
  <2>. QED
    BY <2>4, <2>5 DEF Inv
<1>6. CASE EnqueueRefused(k, w)
  <2>1. k \notin DOMAIN queues /\ k \notin inFlight
    BY <1>2, <1>6 DEF EnqueueRefused
  <2>. DEFINE q == Tail(Append(QueueOf(k), w))
  <2>2. q = <<>>
    BY <1>2, <2>1
  <2>. HIDE DEF q
  <2>3. PICK n \in 0..Len(q) : PumpLocked(k, q, n) /\ Settle({}, {w} \cup Refused(q, n))
    BY <1>6 DEF EnqueueRefused, q
  <2>4. n = 0 /\ Len(q) = 0
    BY <2>2
  <2>5. SubSeq(q, n + 1, Len(q)) = <<>>
    BY <2>2, <2>4
  <2>6. /\ queues' = [j \in DOMAIN queues \ {k} |-> queues[j]]
        /\ inFlight' = inFlight \ {k}
        /\ air' = air
    BY <2>3, <2>4, <2>5 DEF PumpLocked, Put
  <2>7. {w} \cup Refused(q, n) = {w}
    BY <2>4 DEF Refused
  <2>8. told' = [v \in Write |-> IF v = w THEN told[v] + 1 ELSE told[v]]
    BY <2>3, <2>7 DEF Settle
  <2>9. QueueInv'
    BY <1>1, <2>1, <2>6, <2>8, RefusePreserves DEF Inv
  <2>10. succeeded' \subseteq Write /\ awaiting' \in [Thread -> 0..MaxWrites]
    BY <2>3, SettleTypes, BoundAssumption DEF Inv
  <2>11. CallerTypes'
    BY <1>1, <1>3, <2>10 DEF Inv, CallerTypes, linkVars
  <2>. QED
    BY <2>9, <2>11 DEF Inv
<1>. QED
  BY <1>4, <1>5, <1>6 DEF Enqueue, k

\* The initial state satisfies the invariant.
LEMMA InvInit == Init => Inv
<1>. SUFFICES ASSUME Init PROVE Inv
  OBVIOUS
<1>1. QueueTypes /\ CallerTypes
  BY BoundAssumption DEF Init, QueueTypes, CallerTypes, Air
<1>2. NothingIsStranded /\ Sorted /\ QueuedIsUntold /\ OnlyHeadInTheAir
  BY DEF Init, NothingIsStranded, Sorted, QueuedIsUntold, OnlyHeadInTheAir
<1>3. UntoldIsQueued /\ EnqueuedHasKey
  BY DEF Init, UntoldIsQueued, EnqueuedHasKey, Write
<1>4. ToldInOrder
  BY DEF Init, ToldInOrder
<1>. QED
  BY <1>1, <1>2, <1>3, <1>4 DEF Inv, QueueInv

\* An action that leaves the queue and the stack alone.
LEMMA QueueUntouched ==
  ASSUME Inv, UNCHANGED <<queueVars, air>>
  PROVE  QueueInv'
<1>1. /\ air' \in [Write -> Air]
      /\ \A w \in Write : air[w] = "none" => air'[w] = "none"
      /\ UNCHANGED <<queues, inFlight, count, keyOf, told>>
  BY DEF Inv, QueueInv, QueueTypes, queueVars
<1>. QED
  BY <1>1, AirPreserves DEF Inv

\* Every step preserves the invariant.
LEMMA InvNext == Inv /\ [Next]_vars => Inv'
<1>. SUFFICES ASSUME Inv, [Next]_vars PROVE Inv'
  OBVIOUS
<1>. USE DEF linkVars
<1>1. ASSUME NEW t \in Thread, NEW k \in Key, CheckConnected(t, k) PROVE Inv'
  <2>1. QueueInv'
    BY <1>1, QueueUntouched DEF CheckConnected
  <2>2. CallerTypes'
    BY <1>1 DEF CheckConnected, Inv, CallerTypes, queueVars
  <2>. QED
    BY <2>1, <2>2 DEF Inv
<1>2. ASSUME NEW t \in Thread, NEW k \in Key, Disconnect(t, k) PROVE Inv'
  <2>1. Cut({k}) /\ Clear({k}) /\ Close({k}) /\ {k} \in SUBSET Key
    BY <1>2 DEF Disconnect
  <2>2. /\ air' \in [Write -> Air]
        /\ \A w \in Write : air[w] = "none" => air'[w] = "none"
        /\ link' \in [Key -> {"up", "down"}]
    BY <2>1, CutTypes DEF Inv
  <2>3. /\ QueueInv' /\ succeeded' \subseteq Write
        /\ awaiting' \in [Thread -> 0..MaxWrites]
    BY <1>2, <2>1, <2>2, ClearStep DEF Disconnect
  <2>4. CallerTypes'
    BY <1>2, <2>1, <2>2, <2>3 DEF Disconnect, Close, Inv, CallerTypes
  <2>. QED
    BY <2>3, <2>4 DEF Inv
<1>3. ASSUME NEW t \in Thread, Enqueue(t) PROVE Inv'
  BY <1>3, EnqueueStep
<1>4. ASSUME NEW t \in Thread, AwaitTimeout(t) PROVE Inv'
  <2>1. QueueInv'
    BY <1>4, QueueUntouched DEF AwaitTimeout
  <2>2. CallerTypes'
    BY <1>4, BoundAssumption DEF AwaitTimeout, Inv, CallerTypes, queueVars
  <2>. QED
    BY <2>1, <2>2 DEF Inv
<1>5. ASSUME NEW t \in Thread, DisconnectAll(t) PROVE Inv'
  <2>1. Cut(ClientConn) /\ Close(ClientConn) /\ ClientConn \in SUBSET Key
    BY <1>5 DEF DisconnectAll, Key
  <2>2. /\ air' \in [Write -> Air]
        /\ \A w \in Write : air[w] = "none" => air'[w] = "none"
        /\ link' \in [Key -> {"up", "down"}]
    BY <2>1, CutTypes DEF Inv
  <2>3. QueueInv'
    BY <1>5, <2>2, AirPreserves DEF DisconnectAll, queueVars, Inv
  <2>4. CallerTypes'
    BY <1>5, <2>1, <2>2 DEF DisconnectAll, Close, queueVars, Inv, CallerTypes
  <2>. QED
    BY <2>3, <2>4 DEF Inv
<1>6. ASSUME NEW t \in Thread, StopServer(t) PROVE Inv'
  <2>1. /\ Cut(ServerPeer) /\ Clear(Key) /\ Close(ServerPeer)
        /\ ServerPeer \in SUBSET Key /\ Key \in SUBSET Key
    BY <1>6 DEF StopServer, Key
  <2>2. /\ air' \in [Write -> Air]
        /\ \A w \in Write : air[w] = "none" => air'[w] = "none"
        /\ link' \in [Key -> {"up", "down"}]
    BY <2>1, CutTypes DEF Inv
  <2>3. /\ QueueInv' /\ succeeded' \subseteq Write
        /\ awaiting' \in [Thread -> 0..MaxWrites]
    BY <1>6, <2>1, <2>2, ClearStep DEF StopServer
  <2>4. stops' \in 0..MaxStops
    BY <1>6, BoundAssumption DEF StopServer, Inv, CallerTypes
  <2>5. CallerTypes'
    BY <1>6, <2>1, <2>2, <2>3, <2>4 DEF StopServer, Close, Inv, CallerTypes
  <2>. QED
    BY <2>3, <2>5 DEF Inv
<1>7. ASSUME NEW w \in Write, Complete(w) PROVE Inv'
  <2>1. PICK outcome \in {"done", "failed"} : air' = [air EXCEPT ![w] = outcome]
    BY <1>7 DEF Complete
  <2>2. air[w] # "none" /\ outcome \in Air /\ air \in [Write -> Air]
    BY <1>7 DEF Complete, Air, Inv, QueueInv, QueueTypes
  <2>3. /\ air' \in [Write -> Air]
        /\ \A v \in Write : air[v] = "none" => air'[v] = "none"
    BY <2>1, <2>2
  <2>4. QueueInv'
    BY <1>7, <2>3, AirPreserves DEF Complete, queueVars, Inv
  <2>5. CallerTypes'
    BY <1>7 DEF Complete, queueVars, Inv, CallerTypes
  <2>. QED
    BY <2>4, <2>5 DEF Inv
<1>8. ASSUME NEW w \in Write, OnWritten(w) PROVE Inv'
  <2>1. CASE Valid(keyOf[w])
    <3>1. /\ QueueInv' /\ succeeded' \subseteq Write
          /\ awaiting' \in [Thread -> 0..MaxWrites]
      BY <1>8, <2>1, NotifyStep DEF OnWritten
    <3>2. CallerTypes'
      BY <1>8, <3>1 DEF OnWritten, Inv, CallerTypes
    <3>. QED
      BY <3>1, <3>2 DEF Inv
  <2>2. CASE ~Valid(keyOf[w])
    <3>1. UNCHANGED <<queues, inFlight, told, succeeded, awaiting, air>>
      BY <1>8, <2>2 DEF OnWritten
    <3>2. QueueInv'
      BY <1>8, <3>1, QueueUntouched DEF OnWritten, queueVars
    <3>3. CallerTypes'
      BY <1>8, <3>1 DEF OnWritten, Inv, CallerTypes
    <3>. QED
      BY <3>2, <3>3 DEF Inv
  <2>. QED
    BY <2>1, <2>2
<1>9. ASSUME NEW k \in Key, LinkLost(k) PROVE Inv'
  <2>1. Cut({k}) /\ {k} \in SUBSET Key
    BY <1>9 DEF LinkLost
  <2>2. /\ air' \in [Write -> Air]
        /\ \A w \in Write : air[w] = "none" => air'[w] = "none"
        /\ link' \in [Key -> {"up", "down"}]
    BY <2>1, CutTypes DEF Inv
  <2>3. QueueInv'
    BY <1>9, <2>2, AirPreserves DEF LinkLost, queueVars, Inv
  <2>4. CallerTypes'
    BY <1>9, <2>2 DEF LinkLost, queueVars, Inv, CallerTypes
  <2>. QED
    BY <2>3, <2>4 DEF Inv
<1>10. ASSUME NEW k \in Key, OnDisconnected(k) PROVE Inv'
  <2>1. /\ air' \in [Write -> Air]
        /\ \A w \in Write : air[w] = "none" => air'[w] = "none"
    BY <1>10 DEF OnDisconnected, Inv, QueueInv, QueueTypes
  <2>2. /\ QueueInv' /\ succeeded' \subseteq Write
        /\ awaiting' \in [Thread -> 0..MaxWrites]
    BY <1>10, <2>1, ClearStep DEF OnDisconnected
  <2>3. CallerTypes'
    BY <1>10, <2>2 DEF OnDisconnected, Inv, CallerTypes
  <2>. QED
    BY <2>2, <2>3 DEF Inv
<1>11. ASSUME NEW k \in Key, RemoveConnection(k) PROVE Inv'
  <2>1. QueueInv'
    BY <1>11, QueueUntouched DEF RemoveConnection
  <2>2. CallerTypes'
    BY <1>11 DEF RemoveConnection, Close, queueVars, Inv, CallerTypes
  <2>. QED
    BY <2>1, <2>2 DEF Inv
<1>12. ASSUME NEW k \in Key, Reconnect(k) PROVE Inv'
  <2>1. QueueInv'
    BY <1>12, QueueUntouched DEF Reconnect
  <2>2. reconnects' \in 0..MaxReconnects
    BY <1>12, BoundAssumption DEF Reconnect, Inv, CallerTypes
  <2>3. CallerTypes'
    BY <1>12, <2>2 DEF Reconnect, queueVars, Inv, CallerTypes
  <2>. QED
    BY <2>1, <2>3 DEF Inv
<1>13. CASE UNCHANGED vars
  <2>1. QueueInv'
    BY <1>13, QueueUntouched DEF vars, queueVars
  <2>2. CallerTypes'
    BY <1>13 DEF vars, Inv, CallerTypes
  <2>. QED
    BY <2>1, <2>2 DEF Inv
<1>. QED
  BY <1>1, <1>2, <1>3, <1>4, <1>5, <1>6, <1>7, <1>8, <1>9, <1>10, <1>11,
     <1>12, <1>13 DEF Next

-----------------------------------------------------------------------------
(* The stack and the queue: while no server was stopped, what is between   *)
(* its submission and its callback is the head of the queue of its key.    *)

Outstanding(w) == air[w] = "pending" \/ w \in callbacks

\* A completion that is still listened to completes the head of its queue.
OutstandingIsHead ==
  stops = 0 =>
    \A w \in Write : Outstanding(w) /\ Valid(keyOf[w]) =>
      keyOf[w] \in DOMAIN queues /\ queues[keyOf[w]][1] = w

\* A callback is posted for a write the stack has finished.
CallbackIsFinished == \A w \in callbacks : air[w] \in {"done", "failed"}

\* On a dead link the stack keeps no write.
PendingIsUp == \A w \in Write : air[w] = "pending" => link[keyOf[w]] = "up"

SucceededIsTold == \A w \in succeeded : told[w] = 1

AirInv ==
  /\ OutstandingIsHead
  /\ OneWriteInTheAir
  /\ CallbackIsFinished
  /\ PendingIsUp
  /\ SucceededIsTold
  /\ NoFalseSuccess

\* The stack knows only writes that were enqueued under a key.
LEMMA OutstandingHasKey ==
  ASSUME Inv, CallbackIsFinished, NEW w \in Write, Outstanding(w)
  PROVE  keyOf[w] \in Key /\ w <= count /\ air[w] # "none"
BY DEF Inv, QueueInv, EnqueuedHasKey, CallbackIsFinished, Outstanding

\* A step that submits nothing: what is outstanding afterwards was so before,
\* and where its callback still counts, the head of its queue has stayed.
LEMMA NothingSubmitted ==
  ASSUME Inv, AirInv, Inv',
         stops' = 0 => stops = 0,
         \A w \in Write : Outstanding(w)' => Outstanding(w) /\ keyOf'[w] = keyOf[w],
         stops' = 0 =>
           \A w \in Write : Outstanding(w)' /\ Valid(keyOf[w])' =>
             /\ Valid(keyOf[w])
             /\ keyOf[w] \in DOMAIN queues =>
                  /\ keyOf[w] \in DOMAIN queues'
                  /\ queues'[keyOf[w]][1] = queues[keyOf[w]][1],
         CallbackIsFinished', PendingIsUp',
         SucceededIsTold', NoFalseSuccess'
  PROVE  AirInv'
<1>1. OutstandingIsHead'
  <2>. SUFFICES ASSUME stops' = 0, NEW w \in Write, Outstanding(w)', Valid(keyOf[w])'
                PROVE  keyOf'[w] \in DOMAIN queues' /\ queues'[keyOf'[w]][1] = w
    BY DEF OutstandingIsHead
  <2>1. Outstanding(w) /\ keyOf'[w] = keyOf[w] /\ stops = 0
    OBVIOUS
  <2>. QED
    BY <2>1 DEF AirInv, OutstandingIsHead
<1>2. OneWriteInTheAir'
  <2>. SUFFICES ASSUME stops' = 0, NEW v \in Write, NEW w \in Write,
                       keyOf'[v] = keyOf'[w], Outstanding(v)', Outstanding(w)'
                PROVE  v = w
    BY DEF OneWriteInTheAir, Outstanding
  <2>1. /\ Outstanding(v) /\ keyOf'[v] = keyOf[v]
        /\ Outstanding(w) /\ keyOf'[w] = keyOf[w] /\ stops = 0
    OBVIOUS
  <2>. QED
    BY <2>1 DEF AirInv, OneWriteInTheAir, Outstanding
<1>. QED
  BY <1>1, <1>2 DEF AirInv

\* A step that submits x, the new head of its queue: nothing else of its key
\* is outstanding, and no other queue changes.
LEMMA HeadSubmitted ==
  ASSUME Inv, AirInv, Inv', NEW k \in Key, NEW x \in Write,
         stops' = 0 => stops = 0,
         k \in DOMAIN queues' /\ queues'[k][1] = x /\ keyOf'[x] = k,
         \A w \in Write : Outstanding(w)' /\ w # x =>
           Outstanding(w) /\ keyOf'[w] = keyOf[w],
         stops = 0 => \A w \in Write : Outstanding(w)' /\ w # x => keyOf[w] # k,
         \A j \in DOMAIN queues \ {k} : j \in DOMAIN queues' /\ queues'[j] = queues[j],
         conn' = conn,
         CallbackIsFinished', PendingIsUp',
         SucceededIsTold', NoFalseSuccess'
  PROVE  AirInv'
<1>1. OutstandingIsHead'
  <2>. SUFFICES ASSUME stops' = 0, NEW w \in Write, Outstanding(w)', Valid(keyOf[w])',
                       w # x
                PROVE  keyOf'[w] \in DOMAIN queues' /\ queues'[keyOf'[w]][1] = w
    BY DEF OutstandingIsHead
  <2>1. Outstanding(w) /\ keyOf'[w] = keyOf[w] /\ stops = 0 /\ keyOf[w] # k
    OBVIOUS
  <2>2. Valid(keyOf[w])
    BY <2>1 DEF Valid
  <2>3. keyOf[w] \in DOMAIN queues \ {k} /\ queues[keyOf[w]][1] = w
    BY <2>1, <2>2 DEF AirInv, OutstandingIsHead
  <2>. QED
    BY <2>1, <2>3
<1>2. OneWriteInTheAir'
  <2>. SUFFICES ASSUME stops' = 0, NEW v \in Write, NEW w \in Write,
                       keyOf'[v] = keyOf'[w], Outstanding(v)', Outstanding(w)'
                PROVE  v = w
    BY DEF OneWriteInTheAir, Outstanding
  <2>1. CASE v # x /\ w # x
    <3>1. /\ Outstanding(v) /\ keyOf'[v] = keyOf[v]
          /\ Outstanding(w) /\ keyOf'[w] = keyOf[w] /\ stops = 0
      BY <2>1
    <3>. QED
      BY <3>1 DEF AirInv, OneWriteInTheAir, Outstanding
  <2>2. CASE v = x
    BY <2>2
  <2>3. CASE w = x
    BY <2>3
  <2>. QED
    BY <2>1, <2>2, <2>3
<1>. QED
  BY <1>1, <1>2 DEF AirInv

\* Losing links: what was pending on them is lost.
LEMMA CutAir ==
  ASSUME Inv, AirInv, NEW K \in SUBSET Key, Cut(K), UNCHANGED <<keyOf, callbacks>>
  PROVE  /\ \A w \in Write : Outstanding(w)' => Outstanding(w)
         /\ \A w \in Write : air[w] # "pending" => air'[w] = air[w]
         /\ CallbackIsFinished' /\ PendingIsUp'
<1>1. \A w \in Write : air'[w] = IF keyOf[w] \in K /\ air[w] = "pending"
                                 THEN "lost" ELSE air[w]
  BY DEF Cut
<1>2. \A w \in Write : Outstanding(w)' => Outstanding(w)
  BY <1>1 DEF Outstanding
<1>3. CallbackIsFinished'
  BY <1>1 DEF Inv, CallerTypes, AirInv, CallbackIsFinished
<1>4. PendingIsUp'
  <2>. SUFFICES ASSUME NEW w \in Write, air'[w] = "pending" PROVE link'[keyOf[w]] = "up"
    BY DEF PendingIsUp
  <2>1. air[w] = "pending" /\ keyOf[w] \notin K
    BY <1>1
  <2>2. keyOf[w] \in Key
    BY <2>1, OutstandingHasKey DEF AirInv, Outstanding
  <2>. QED
    BY <2>1, <2>2 DEF Cut, AirInv, PendingIsUp
<1>. QED
  BY <1>1, <1>2, <1>3, <1>4

\* A step that tells no write of success.
LEMMA NoNewSuccess ==
  ASSUME Inv, AirInv, succeeded' = succeeded,
         stops' = 0 => stops = 0,
         \A w \in Write : told[w] = 1 => told'[w] = 1,
         \A w \in Write : air[w] = "done" => air'[w] = "done"
  PROVE  SucceededIsTold' /\ NoFalseSuccess'
BY DEF Inv, CallerTypes, AirInv, SucceededIsTold, NoFalseSuccess

\* settle() of writes that have not been told leaves the told ones told.
LEMMA SettleKeepsTold ==
  ASSUME Inv, NEW T, NEW F, Settle(T, F),
         \A w \in Write : w \in T \cup F => told[w] = 0
  PROVE  /\ \A w \in Write : told[w] = 1 => told'[w] = 1
         /\ \A w \in Write : w \in T => told'[w] = 1
         /\ succeeded' = succeeded \cup T
BY DEF Inv, QueueInv, QueueTypes, Settle

\* The next write of a queue is given to the stack, nothing else of the queue
\* being outstanding: pumpLocked() and enqueue() on an idle key.
LEMMA SubmitAir ==
  ASSUME Inv, AirInv, Inv', NEW k \in Key, NEW x \in Write,
         Submit(k, x), air[x] = "none", told[x] = 0,
         k \in DOMAIN queues' /\ queues'[k][1] = x /\ keyOf'[x] = k,
         \A j \in DOMAIN queues \ {k} : j \in DOMAIN queues' /\ queues'[j] = queues[j],
         \A w \in Write : w <= count => keyOf'[w] = keyOf[w],
         callbacks' \subseteq callbacks,
         stops = 0 =>
           \A w \in Write : Outstanding(w) /\ keyOf[w] = k =>
             w \notin callbacks' /\ air[w] # "pending",
         UNCHANGED <<conn, link, stops>>,
         \A w \in Write : told[w] = 1 => told'[w] = 1,
         \A w \in succeeded' \ succeeded : told'[w] = 1 /\ (stops = 0 => air[w] = "done")
  PROVE  AirInv'
<1>1. \A w \in Write : air'[w] = IF w = x THEN (IF link[k] = "up" THEN "pending" ELSE "lost")
                                 ELSE air[w]
  BY DEF Inv, QueueInv, QueueTypes, Submit
<1>2. x \notin callbacks /\ x \notin succeeded
  BY DEF AirInv, CallbackIsFinished, SucceededIsTold
<1>3. \A w \in Write : Outstanding(w)' /\ w # x => Outstanding(w) /\ keyOf'[w] = keyOf[w]
  <2>. SUFFICES ASSUME NEW w \in Write, Outstanding(w)', w # x
                PROVE  Outstanding(w) /\ keyOf'[w] = keyOf[w]
    OBVIOUS
  <2>1. Outstanding(w)
    BY <1>1 DEF Outstanding
  <2>2. w <= count
    BY <2>1, OutstandingHasKey DEF AirInv
  <2>. QED
    BY <2>1, <2>2
<1>4. stops = 0 => \A w \in Write : Outstanding(w)' /\ w # x => keyOf[w] # k
  BY <1>1, <1>3 DEF Outstanding
<1>5. CallbackIsFinished'
  BY <1>1, <1>2 DEF Inv, CallerTypes, AirInv, CallbackIsFinished
<1>6. PendingIsUp'
  <2>. SUFFICES ASSUME NEW w \in Write, air'[w] = "pending"
                PROVE  link[keyOf'[w]] = "up"
    BY DEF PendingIsUp
  <2>1. CASE w = x
    BY <1>1, <2>1
  <2>2. CASE w # x
    <3>1. air[w] = "pending" /\ keyOf'[w] = keyOf[w]
      BY <1>1, <1>3, <2>2 DEF Outstanding
    <3>. QED
      BY <3>1 DEF AirInv, PendingIsUp
  <2>. QED
    BY <2>1, <2>2
<1>7. SucceededIsTold'
  BY DEF Inv, CallerTypes, AirInv, SucceededIsTold
<1>8. NoFalseSuccess'
  <2>. SUFFICES ASSUME stops = 0, NEW w \in succeeded' PROVE air'[w] = "done"
    BY DEF NoFalseSuccess
  <2>1. air[w] = "done" /\ w \in Write
    BY DEF Inv, CallerTypes, AirInv, NoFalseSuccess
  <2>. QED
    BY <1>1, <2>1
<1>. QED
  BY <1>3, <1>4, <1>5, <1>6, <1>7, <1>8, HeadSubmitted

\* enqueue() keeps the stack in step with the queue.
LEMMA EnqueueAir ==
  ASSUME Inv, AirInv, Inv', NEW t \in Thread, Enqueue(t)
  PROVE  AirInv'
<1>. DEFINE k == sending[t]
            x == count + 1
<1>1. /\ k \in Key /\ x \in Write
      /\ keyOf' = [keyOf EXCEPT ![x] = k]
      /\ UNCHANGED <<callbacks, linkVars>>
      /\ x > count
  BY DEF Enqueue, Inv, QueueInv, QueueTypes, CallerTypes, Write
<1>2. /\ air[x] = "none" /\ told[x] = 0
      /\ x \notin callbacks
      /\ \A w \in Write : w <= count => keyOf'[w] = keyOf[w]
      /\ keyOf'[x] = k
  BY <1>1 DEF Inv, QueueInv, QueueTypes, EnqueuedHasKey, AirInv, CallbackIsFinished
<1>. HIDE DEF k, x
<1>3. UNCHANGED <<callbacks, link, conn, stops>>
  BY <1>1 DEF linkVars
<1>4. \A w \in Write : Outstanding(w) => keyOf'[w] = keyOf[w]
  BY <1>2, OutstandingHasKey DEF AirInv
<1>5. CASE EnqueueBuffered(k, x)
  <2>1. /\ k \in DOMAIN queues
        /\ queues' = Put(k, Append(QueueOf(k), x))
        /\ told' = told /\ air' = air /\ succeeded' = succeeded
    BY <1>5 DEF EnqueueBuffered, Inv, QueueInv, NothingIsStranded
  <2>2. /\ queues[k] \in Seq(Write) /\ queues[k] # <<>> /\ QueueOf(k) = queues[k]
    BY <2>1 DEF Inv, QueueInv, QueueTypes, NothingIsStranded, QueueOf
  <2>3. /\ Append(queues[k], x) # <<>>
        /\ Append(queues[k], x)[1] = queues[k][1]
    BY <1>1, <2>2
  <2>4. \A j \in DOMAIN queues : j \in DOMAIN queues' /\ queues'[j][1] = queues[j][1]
    BY <2>1, <2>2, <2>3 DEF Put
  <2>5. \A w \in Write : Outstanding(w)' => Outstanding(w) /\ keyOf'[w] = keyOf[w]
    BY <1>3, <1>4, <2>1 DEF Outstanding
  <2>6. CallbackIsFinished' /\ PendingIsUp'
    BY <1>3, <2>1, <2>5 DEF AirInv, CallbackIsFinished, PendingIsUp, Outstanding
  <2>7. SucceededIsTold' /\ NoFalseSuccess'
    BY <1>3, <2>1, NoNewSuccess
  <2>. QED
    BY <1>3, <2>4, <2>5, <2>6, <2>7, NothingSubmitted DEF Valid
<1>6. CASE EnqueueAccepted(k, x)
  <2>1. /\ k \notin DOMAIN queues
        /\ queues' = Put(k, Append(QueueOf(k), x))
        /\ told' = told /\ succeeded' = succeeded
        /\ Submit(k, Head(Append(QueueOf(k), x)))
    BY <1>6 DEF EnqueueAccepted, Inv, QueueInv, NothingIsStranded
  <2>2. Append(QueueOf(k), x) = <<x>>
    BY <2>1 DEF QueueOf
  <2>3. Submit(k, x) /\ queues' = Put(k, <<x>>)
    BY <2>1, <2>2
  <2>4. /\ k \in DOMAIN queues' /\ queues'[k][1] = x
        /\ \A j \in DOMAIN queues \ {k} : j \in DOMAIN queues' /\ queues'[j] = queues[j]
    BY <2>3 DEF Put
  <2>5. Valid(k)
    BY <2>3 DEF Submit, MayAccept, Valid
  <2>6. stops = 0 => \A w \in Write : ~(Outstanding(w) /\ keyOf[w] = k)
    BY <2>1, <2>5 DEF AirInv, OutstandingIsHead
  <2>. QED
    BY <1>1, <1>2, <1>3, <2>1, <2>3, <2>4, <2>6, SubmitAir
<1>7. CASE EnqueueRefused(k, x)
  <2>1. k \notin DOMAIN queues
    BY <1>7 DEF EnqueueRefused, Inv, QueueInv, NothingIsStranded
  <2>. DEFINE q == Tail(Append(QueueOf(k), x))
  <2>2. q = <<>>
    BY <2>1 DEF QueueOf
  <2>. HIDE DEF q
  <2>3. PICK n \in 0..Len(q) : PumpLocked(k, q, n) /\ Settle({}, {x} \cup Refused(q, n))
    BY <1>7 DEF EnqueueRefused, q
  <2>4. n = 0 /\ Len(q) = 0 /\ SubSeq(q, n + 1, Len(q)) = <<>>
    BY <2>2
  <2>5. queues' = [j \in DOMAIN queues \ {k} |-> queues[j]] /\ air' = air
    BY <2>3, <2>4 DEF PumpLocked, Put
  <2>6. {x} \cup Refused(q, n) = {x}
    BY <2>4 DEF Refused
  <2>7. /\ \A w \in Write : told[w] = 1 => told'[w] = 1
        /\ succeeded' = succeeded
    <3>. DEFINE F == {x}
    <3>1. Settle({}, F) /\ \A w \in Write : w \in {} \cup F => told[w] = 0
      BY <1>2, <2>3, <2>6
    <3>. HIDE DEF F
    <3>2. /\ \A w \in Write : told[w] = 1 => told'[w] = 1
          /\ succeeded' = succeeded \cup {}
      BY <3>1, SettleKeepsTold
    <3>. QED
      BY <3>2
  <2>8. \A j \in DOMAIN queues : j \in DOMAIN queues' /\ queues'[j] = queues[j]
    BY <2>1, <2>5
  <2>9. \A w \in Write : Outstanding(w)' => Outstanding(w) /\ keyOf'[w] = keyOf[w]
    BY <1>3, <1>4, <2>5 DEF Outstanding
  <2>10. CallbackIsFinished' /\ PendingIsUp'
    BY <1>3, <2>5, <2>9 DEF AirInv, CallbackIsFinished, PendingIsUp, Outstanding
  <2>11. SucceededIsTold' /\ NoFalseSuccess'
    BY <1>3, <2>5, <2>7, NoNewSuccess
  <2>. QED
    BY <1>3, <2>8, <2>9, <2>10, <2>11, NothingSubmitted DEF Valid
<1>. QED
  BY <1>5, <1>6, <1>7 DEF Enqueue, k, x

\* notifyCompleted() from the callback of write w: the head it pops is w.
LEMMA WrittenAir ==
  ASSUME Inv, AirInv, Inv', NEW w \in Write, OnWritten(w)
  PROVE  AirInv'
<1>. DEFINE k == keyOf[w]
<1>1. /\ w \in callbacks /\ callbacks' = callbacks \ {w}
      /\ UNCHANGED <<count, keyOf, link, conn, stops>>
      /\ air[w] \in {"done", "failed"} /\ k \in Key
  <2>1. w \in callbacks /\ callbacks' = callbacks \ {w} /\ UNCHANGED <<count, keyOf, sending, linkVars>>
    BY DEF OnWritten
  <2>. QED
    BY <2>1, OutstandingHasKey DEF AirInv, CallbackIsFinished, linkVars, Outstanding
<1>2. /\ CallbackIsFinished' <=> \A v \in callbacks \ {w} : air'[v] \in {"done", "failed"}
      /\ PendingIsUp' <=> \A v \in Write : air'[v] = "pending" => link[keyOf[v]] = "up"
  BY <1>1 DEF CallbackIsFinished, PendingIsUp
<1>3. \A v \in Write : v \in callbacks' \/ air[v] = "pending" => Outstanding(v) /\ v # w
  BY <1>1 DEF Outstanding
<1>4. ASSUME UNCHANGED <<queues, inFlight, told, succeeded, awaiting, air>>
      PROVE  AirInv'
  <2>1. \A v \in Write : Outstanding(v)' => Outstanding(v) /\ keyOf'[v] = keyOf[v]
    BY <1>1, <1>4 DEF Outstanding
  <2>2. CallbackIsFinished' /\ PendingIsUp'
    BY <1>2, <1>4 DEF AirInv, CallbackIsFinished, PendingIsUp
  <2>3. SucceededIsTold' /\ NoFalseSuccess'
    BY <1>1, <1>4, NoNewSuccess
  <2>. QED
    BY <1>1, <1>4, <2>1, <2>2, <2>3, NothingSubmitted DEF Valid
<1>5. CASE ~Valid(k) \/ ~(k \in DOMAIN queues /\ k \in inFlight)
  BY <1>4, <1>5 DEF OnWritten, NotifyCompleted
<1>6. CASE Valid(k) /\ k \in DOMAIN queues /\ k \in inFlight
  <2>. DEFINE ok == air[w] = "done"
              q == queues[k]
              r == Tail(q)
  <2>1. q \in Seq(Write) /\ q # <<>> /\ Len(q) \in Nat \ {0} /\ Head(q) = q[1] /\ q[1] \in Write
    BY <1>6 DEF Inv, QueueInv, QueueTypes, NothingIsStranded
  <2>2. /\ r \in Seq(Write) /\ Len(r) = Len(q) - 1
        /\ \A i \in 1..Len(r) : r[i] = q[i + 1] /\ i + 1 \in 2..Len(q)
    BY <2>1
  <2>3. \A i \in 1..Len(q) : told[q[i]] = 0
    BY <1>6 DEF Inv, QueueInv, QueuedIsUntold
  <2>4. \A i \in 1..Len(r) : told[r[i]] = 0 /\ air[r[i]] = "none" /\ r[i] \in Write /\ keyOf[r[i]] = k
    <3>. SUFFICES ASSUME NEW i \in 1..Len(r)
                  PROVE  told[r[i]] = 0 /\ air[r[i]] = "none" /\ r[i] \in Write /\ keyOf[r[i]] = k
      OBVIOUS
    <3>1. r[i] = q[i + 1] /\ i + 1 \in 2..Len(q) /\ i + 1 \in 1..Len(q)
      BY <2>1, <2>2
    <3>. QED
      BY <1>6, <2>1, <2>3, <3>1 DEF Inv, QueueInv, OnlyHeadInTheAir, QueuedIsUntold
  <2>5. stops = 0 => q[1] = w
    BY <1>1, <1>6 DEF AirInv, OutstandingIsHead, Outstanding
  <2>6. stops = 0 =>
          \A v \in Write : Outstanding(v) /\ keyOf[v] = k =>
            v \notin callbacks' /\ air[v] # "pending"
    BY <1>1, <1>6, <2>5 DEF AirInv, OutstandingIsHead, Outstanding
  <2>7. PICK n \in 0..Len(r) :
          /\ PumpLocked(k, r, n)
          /\ IF ok THEN Settle({Head(q)}, Refused(r, n))
             ELSE Settle({}, {Head(q)} \cup Refused(r, n))
    BY <1>6 DEF OnWritten, NotifyCompleted
  <2>. HIDE DEF q, r
  <2>8. \A v \in Write : v \in {Head(q)} \cup Refused(r, n) => told[v] = 0
    BY <2>1, <2>2, <2>3, <2>4 DEF Refused
  <2>9. /\ \A v \in Write : told[v] = 1 => told'[v] = 1
        /\ \A v \in succeeded' \ succeeded : told'[v] = 1 /\ (stops = 0 => air[v] = "done")
    <3>1. CASE ok
      <4>1. Settle({Head(q)}, Refused(r, n))
        BY <2>7, <3>1
      <4>2. /\ \A v \in Write : told[v] = 1 => told'[v] = 1
            /\ \A v \in Write : v \in {Head(q)} => told'[v] = 1
            /\ succeeded' = succeeded \cup {Head(q)}
        BY <2>8, <4>1, SettleKeepsTold
      <4>. QED
        BY <2>1, <2>5, <3>1, <4>2
    <3>2. CASE ~ok
      <4>. DEFINE F == {Head(q)} \cup Refused(r, n)
      <4>1. Settle({}, F) /\ \A v \in Write : v \in {} \cup F => told[v] = 0
        BY <2>7, <2>8, <3>2
      <4>. HIDE DEF F
      <4>2. /\ \A v \in Write : told[v] = 1 => told'[v] = 1
            /\ succeeded' = succeeded \cup {}
        BY <4>1, SettleKeepsTold
      <4>. QED
        BY <4>2
    <3>. QED
      BY <3>1, <3>2
  <2>10. \A j \in DOMAIN queues \ {k} : j \in DOMAIN queues' /\ queues'[j] = queues[j]
    BY <2>7 DEF PumpLocked, Put
  <2>11. CASE n < Len(r)
    <3>. DEFINE rest == SubSeq(r, n + 1, Len(r))
    <3>1. /\ rest # <<>> /\ rest[1] = r[n + 1] /\ n + 1 \in 1..Len(r)
      <4>1. n \in 0..Len(r) /\ Len(r) \in Nat
        BY <2>2
      <4>2. /\ Len(rest) = Len(r) - n
            /\ \A i \in 1..(Len(r) - n) : rest[i] = r[n + i]
            /\ rest \in Seq(Write)
        BY <2>2, DropFirst
      <4>. HIDE DEF rest
      <4>. QED
        BY <2>11, <4>1, <4>2
    <3>2. Submit(k, r[n + 1]) /\ queues' = Put(k, rest)
      BY <2>7, <2>11 DEF PumpLocked
    <3>3. k \in DOMAIN queues' /\ queues'[k][1] = r[n + 1]
      <4>. HIDE DEF rest
      <4>. QED
        BY <3>1, <3>2 DEF Put
    <3>. DEFINE x == r[n + 1]
    <3>4. /\ x \in Write /\ air[x] = "none" /\ told[x] = 0 /\ keyOf'[x] = k
          /\ Submit(k, x) /\ queues'[k][1] = x
      BY <1>1, <2>4, <3>1, <3>2, <3>3
    <3>. HIDE DEF x, k
    <3>. QED
      BY <1>1, <2>6, <2>9, <2>10, <3>3, <3>4, SubmitAir
  <2>12. CASE ~(n < Len(r))
    <3>1. air' = air
      BY <2>7, <2>12 DEF PumpLocked
    <3>2. \A v \in Write : Outstanding(v)' => Outstanding(v) /\ keyOf'[v] = keyOf[v]
      BY <1>1, <3>1 DEF Outstanding
    <3>3. stops = 0 => \A v \in Write : Outstanding(v)' => keyOf[v] # k
      BY <2>6, <3>1, <3>2 DEF Outstanding
    <3>4. CallbackIsFinished' /\ PendingIsUp'
      BY <1>2, <3>1 DEF AirInv, CallbackIsFinished, PendingIsUp
    <3>5. SucceededIsTold'
      BY <2>9 DEF Inv, CallerTypes, AirInv, SucceededIsTold
    <3>6. NoFalseSuccess'
      BY <1>1, <2>9, <3>1 DEF Inv, CallerTypes, AirInv, NoFalseSuccess
    <3>7. stops' = 0 =>
            \A v \in Write : Outstanding(v)' /\ Valid(keyOf[v])' =>
              /\ Valid(keyOf[v])
              /\ keyOf[v] \in DOMAIN queues =>
                   /\ keyOf[v] \in DOMAIN queues'
                   /\ queues'[keyOf[v]][1] = queues[keyOf[v]][1]
      BY <1>1, <2>10, <3>3 DEF Valid
    <3>. QED
      BY <1>1, <3>2, <3>4, <3>5, <3>6, <3>7, NothingSubmitted
  <2>. QED
    BY <2>11, <2>12
<1>. QED
  BY <1>5, <1>6

LEMMA AirInit == Init => AirInv
BY DEF Init, AirInv, OutstandingIsHead, OneWriteInTheAir, CallbackIsFinished,
       PendingIsUp, SucceededIsTold, NoFalseSuccess, Outstanding

\* What clear() tells has not been told.
LEMMA ClearKeepsTold ==
  ASSUME Inv, NEW K \in SUBSET Key, Clear(K)
  PROVE  /\ \A w \in Write : told[w] = 1 => told'[w] = 1
         /\ succeeded' = succeeded
         /\ \A j \in DOMAIN queues \ K : j \in DOMAIN queues' /\ queues'[j] = queues[j]
<1>. DEFINE gone == UNION {Elements(queues[k]) : k \in K \cap DOMAIN queues}
<1>1. \A w \in Write : w \in gone => told[w] = 0
  <2>. SUFFICES ASSUME NEW k \in K \cap DOMAIN queues, NEW w \in Elements(queues[k])
                PROVE  told[w] = 0
    OBVIOUS
  <2>. QED
    BY DEF Elements, Inv, QueueInv, QueuedIsUntold
<1>2. /\ Settle({}, gone)
      /\ queues' = [k \in DOMAIN queues \ K |-> queues[k]]
  BY DEF Clear
<1>. HIDE DEF gone
<1>3. \A w \in Write : w \in {} \cup gone => told[w] = 0
  BY <1>1
<1>4. /\ \A w \in Write : told[w] = 1 => told'[w] = 1
      /\ succeeded' = succeeded \cup {}
  BY <1>2, <1>3, SettleKeepsTold
<1>. QED
  BY <1>2, <1>4

\* Steps that leave the stack, its callbacks and the queues alone.
LEMMA StackUntouched ==
  ASSUME Inv, AirInv, Inv', UNCHANGED <<queueVars, air, callbacks, stops>>,
         \A k \in Key : Valid(k)' => Valid(k),
         \A k \in Key : link[k] = "up" => link'[k] = "up"
  PROVE  AirInv'
<1>1. \A w \in Write : Outstanding(w)' <=> Outstanding(w)
  BY DEF Outstanding
<1>2. \A w \in Write : Outstanding(w) => keyOf[w] \in Key
  BY OutstandingHasKey DEF AirInv
<1>3. CallbackIsFinished' /\ SucceededIsTold' /\ NoFalseSuccess'
  BY DEF queueVars, AirInv, CallbackIsFinished, SucceededIsTold, NoFalseSuccess
<1>4. PendingIsUp'
  BY <1>2 DEF queueVars, AirInv, PendingIsUp, Outstanding
<1>. QED
  BY <1>1, <1>2, <1>3, <1>4, NothingSubmitted DEF queueVars

\* Every step keeps the stack in step with the queues.
LEMMA AirNext == Inv /\ AirInv /\ Inv' /\ [Next]_vars => AirInv'
<1>. SUFFICES ASSUME Inv, AirInv, Inv', [Next]_vars PROVE AirInv'
  OBVIOUS
<1>. USE DEF linkVars
<1>1. ASSUME NEW t \in Thread, NEW k \in Key, CheckConnected(t, k) PROVE AirInv'
  BY <1>1, StackUntouched DEF CheckConnected, Valid
<1>2. ASSUME NEW t \in Thread, NEW k \in Key, Disconnect(t, k) PROVE AirInv'
  <2>1. /\ Cut({k}) /\ Clear({k}) /\ Close({k}) /\ {k} \in SUBSET Key
        /\ UNCHANGED <<keyOf, callbacks, stops>> /\ k \in ClientConn
    BY <1>2 DEF Disconnect
  <2>2. /\ \A w \in Write : Outstanding(w)' => Outstanding(w)
        /\ \A w \in Write : air[w] # "pending" => air'[w] = air[w]
        /\ CallbackIsFinished' /\ PendingIsUp'
    BY <2>1, CutAir
  <2>3. /\ \A w \in Write : told[w] = 1 => told'[w] = 1
        /\ succeeded' = succeeded
        /\ \A j \in DOMAIN queues \ {k} : j \in DOMAIN queues' /\ queues'[j] = queues[j]
    BY <2>1, ClearKeepsTold
  <2>4. SucceededIsTold' /\ NoFalseSuccess'
    BY <2>1, <2>2, <2>3, NoNewSuccess
  <2>5. \A w \in Write : Outstanding(w)' /\ Valid(keyOf[w])' =>
          Valid(keyOf[w]) /\ keyOf[w] # k
    <3>. SUFFICES ASSUME NEW w \in Write, Outstanding(w), Valid(keyOf[w])'
                  PROVE  Valid(keyOf[w]) /\ keyOf[w] # k
      BY <2>2
    <3>1. keyOf[w] \in Key
      BY OutstandingHasKey DEF AirInv
    <3>2. conn'[k] = "closed" /\ k \notin ServerPeer
      BY <2>1, KeyAssumption DEF Close
    <3>3. keyOf[w] # k
      BY <2>1, <3>2 DEF Valid
    <3>. QED
      BY <2>1, <3>1, <3>3 DEF Valid, Close
  <2>. QED
    BY <2>1, <2>2, <2>3, <2>4, <2>5, NothingSubmitted
<1>3. ASSUME NEW t \in Thread, Enqueue(t) PROVE AirInv'
  BY <1>3, EnqueueAir
<1>4. ASSUME NEW t \in Thread, AwaitTimeout(t) PROVE AirInv'
  BY <1>4, StackUntouched DEF AwaitTimeout, Valid
<1>5. ASSUME NEW t \in Thread, DisconnectAll(t) PROVE AirInv'
  <2>1. /\ Cut(ClientConn) /\ Close(ClientConn) /\ ClientConn \in SUBSET Key
        /\ UNCHANGED queueVars /\ UNCHANGED <<callbacks, stops>>
    BY <1>5 DEF DisconnectAll, Key
  <2>2. /\ \A w \in Write : Outstanding(w)' => Outstanding(w)
        /\ \A w \in Write : air[w] # "pending" => air'[w] = air[w]
        /\ CallbackIsFinished' /\ PendingIsUp'
    BY <2>1, CutAir DEF queueVars
  <2>3. SucceededIsTold' /\ NoFalseSuccess'
    BY <2>1, <2>2, NoNewSuccess DEF queueVars
  <2>4. \A w \in Write : Outstanding(w)' /\ Valid(keyOf[w])' => Valid(keyOf[w])
    <3>. SUFFICES ASSUME NEW w \in Write, Outstanding(w), Valid(keyOf[w])'
                  PROVE  Valid(keyOf[w])
      BY <2>2 DEF queueVars
    <3>1. keyOf[w] \in Key
      BY OutstandingHasKey DEF AirInv
    <3>. QED
      BY <2>1, <3>1 DEF Valid, Close, queueVars
  <2>. QED
    BY <2>1, <2>2, <2>3, <2>4, NothingSubmitted DEF queueVars
<1>6. ASSUME NEW t \in Thread, StopServer(t) PROVE AirInv'
  <2>1. /\ Cut(ServerPeer) /\ Clear(Key) /\ ServerPeer \in SUBSET Key /\ Key \in SUBSET Key
        /\ UNCHANGED <<keyOf, callbacks>> /\ stops' = stops + 1 /\ stops' # 0
    BY <1>6, BoundAssumption DEF StopServer, Key, Inv, CallerTypes
  <2>2. /\ \A w \in Write : Outstanding(w)' => Outstanding(w)
        /\ CallbackIsFinished' /\ PendingIsUp'
    BY <2>1, CutAir
  <2>3. /\ \A w \in Write : told[w] = 1 => told'[w] = 1
        /\ succeeded' = succeeded
    BY <2>1, ClearKeepsTold
  <2>4. SucceededIsTold' /\ NoFalseSuccess'
    BY <2>1, <2>3 DEF Inv, CallerTypes, AirInv, SucceededIsTold, NoFalseSuccess
  <2>. QED
    BY <2>1, <2>2, <2>4, NothingSubmitted
<1>7. ASSUME NEW w \in Write, Complete(w) PROVE AirInv'
  <2>1. PICK outcome \in {"done", "failed"} : air' = [air EXCEPT ![w] = outcome]
    BY <1>7 DEF Complete
  <2>2. /\ air[w] = "pending" /\ callbacks' = callbacks \cup {w}
        /\ UNCHANGED queueVars /\ UNCHANGED <<link, conn, stops>>
    BY <1>7 DEF Complete
  <2>3. \A v \in Write : air'[v] = IF v = w THEN outcome ELSE air[v]
    BY <2>1 DEF Inv, QueueInv, QueueTypes
  <2>4. \A v \in Write : Outstanding(v)' => Outstanding(v)
    BY <2>2, <2>3 DEF Outstanding
  <2>5. CallbackIsFinished' /\ PendingIsUp'
    BY <2>2, <2>3 DEF Inv, CallerTypes, AirInv, CallbackIsFinished, PendingIsUp, queueVars
  <2>6. SucceededIsTold' /\ NoFalseSuccess'
    BY <2>2, <2>3, NoNewSuccess DEF queueVars
  <2>. QED
    BY <2>2, <2>4, <2>5, <2>6, NothingSubmitted DEF queueVars, Valid
<1>8. ASSUME NEW w \in Write, OnWritten(w) PROVE AirInv'
  BY <1>8, WrittenAir
<1>9. ASSUME NEW k \in Key, LinkLost(k) PROVE AirInv'
  <2>1. /\ Cut({k}) /\ {k} \in SUBSET Key
        /\ UNCHANGED queueVars /\ UNCHANGED <<callbacks, conn, stops>>
    BY <1>9 DEF LinkLost
  <2>2. /\ \A w \in Write : Outstanding(w)' => Outstanding(w)
        /\ \A w \in Write : air[w] # "pending" => air'[w] = air[w]
        /\ CallbackIsFinished' /\ PendingIsUp'
    BY <2>1, CutAir DEF queueVars
  <2>3. SucceededIsTold' /\ NoFalseSuccess'
    BY <2>1, <2>2, NoNewSuccess DEF queueVars
  <2>. QED
    BY <2>1, <2>2, <2>3, NothingSubmitted DEF queueVars, Valid
<1>10. ASSUME NEW k \in Key, OnDisconnected(k) PROVE AirInv'
  <2>1. /\ Clear({k}) /\ {k} \in SUBSET Key /\ link[k] = "down" /\ conn[k] = "open"
        /\ \A w \in callbacks : keyOf[w] # k
        /\ conn' = [conn EXCEPT ![k] = IF k \in ClientConn THEN "closing" ELSE "closed"]
        /\ UNCHANGED <<keyOf, air, callbacks, link, stops>>
    BY <1>10 DEF OnDisconnected, CallbacksDelivered
  <2>2. \A w \in Write : Outstanding(w) => keyOf[w] # k /\ keyOf[w] \in Key
    BY <2>1, OutstandingHasKey DEF AirInv, PendingIsUp, Outstanding
  <2>3. /\ \A w \in Write : told[w] = 1 => told'[w] = 1
        /\ succeeded' = succeeded
        /\ \A j \in DOMAIN queues \ {k} : j \in DOMAIN queues' /\ queues'[j] = queues[j]
    BY <2>1, ClearKeepsTold
  <2>4. SucceededIsTold' /\ NoFalseSuccess'
    BY <2>1, <2>3, NoNewSuccess
  <2>5. \A w \in Write : Outstanding(w)' => Outstanding(w)
    BY <2>1 DEF Outstanding
  <2>6. CallbackIsFinished' /\ PendingIsUp'
    BY <2>1 DEF AirInv, CallbackIsFinished, PendingIsUp
  <2>7. \A j \in Key \ {k} : Valid(j)' => Valid(j)
    BY <2>1 DEF Valid, Inv, CallerTypes
  <2>. QED
    BY <2>1, <2>2, <2>3, <2>4, <2>5, <2>6, <2>7, NothingSubmitted
<1>11. ASSUME NEW k \in Key, RemoveConnection(k) PROVE AirInv'
  <2>1. \A j \in Key : Valid(j)' => Valid(j)
    BY <1>11 DEF RemoveConnection, Close, Valid
  <2>. QED
    BY <1>11, <2>1, StackUntouched DEF RemoveConnection
<1>12. ASSUME NEW k \in Key, Reconnect(k) PROVE AirInv'
  <2>1. \A j \in Key : Valid(j)' => Valid(j)
    BY <1>12 DEF Reconnect, Valid, Inv, CallerTypes
  <2>2. \A j \in Key : link[j] = "up" => link'[j] = "up"
    BY <1>12 DEF Reconnect, Inv, CallerTypes
  <2>. QED
    BY <1>12, <2>1, <2>2, StackUntouched DEF Reconnect
<1>13. CASE UNCHANGED vars
  BY <1>13, StackUntouched DEF vars, queueVars, Valid
<1>. QED
  BY <1>1, <1>2, <1>3, <1>4, <1>5, <1>6, <1>7, <1>8, <1>9, <1>10, <1>11,
     <1>12, <1>13 DEF Next

-----------------------------------------------------------------------------
(* The theorems. *)

\* The inductive invariant of the queue and its callers.
THEOREM QueueInvariant == Spec => []Inv
BY InvInit, InvNext, PTL DEF Spec

\* The state of GattWriteQueue and of the threads that use it keeps its types;
\* no callback count exceeds one.
THEOREM TypeCorrect == Spec => []TypeOK
<1>1. Inv => TypeOK
  BY DEF Inv, QueueInv, QueueTypes, CallerTypes, TypeOK
<1>. QED
  BY <1>1, QueueInvariant, PTL

\* pumpLocked(), enqueue() and clear() never leave a buffered write behind
\* without a submitted head whose completion will move the queue.
THEOREM NeverStranded == Spec => []NothingIsStranded
<1>1. Inv => NothingIsStranded
  BY DEF Inv, QueueInv
<1>. QED
  BY <1>1, QueueInvariant, PTL

\* settle() is reached exactly once for every write that enters the queue,
\* whichever of completion, refusal, clear() or server stop comes first.
THEOREM CallbackExactlyOnce == Spec => []CallbackOnce
<1>1. Inv => CallbackOnce
  <2>. SUFFICES ASSUME Inv, NEW w \in Write
                PROVE  told[w] = IF w <= count /\ ~Queued(w) THEN 1 ELSE 0
    BY DEF CallbackOnce
  <2>1. told[w] = 0 \/ told[w] = 1
    BY DEF Inv, QueueInv, QueueTypes
  <2>2. CASE ~(w <= count)
    BY <2>2 DEF Inv, QueueInv, EnqueuedHasKey
  <2>3. CASE w <= count /\ Queued(w)
    <3>1. PICK k \in DOMAIN queues : \E i \in 1..Len(queues[k]) : w = queues[k][i]
      BY <2>3 DEF Queued, Elements
    <3>2. told[w] = 0
      BY <3>1 DEF Inv, QueueInv, QueuedIsUntold
    <3>. QED
      BY <2>3, <3>2
  <2>4. CASE w <= count /\ ~Queued(w)
    <3>1. told[w] # 0
      <4>1. SUFFICES ASSUME told[w] = 0 PROVE FALSE
        OBVIOUS
      <4>2. PICK i \in 1..Len(queues[keyOf[w]]) : queues[keyOf[w]][i] = w
        BY <2>4, <4>1 DEF Inv, QueueInv, UntoldIsQueued
      <4>3. keyOf[w] \in DOMAIN queues
        BY <2>4, <4>1 DEF Inv, QueueInv, UntoldIsQueued
      <4>. QED
        BY <2>4, <4>2, <4>3 DEF Queued, Elements
    <3>. QED
      BY <2>1, <2>4, <3>1
  <2>. QED
    BY <2>2, <2>3, <2>4
<1>. QED
  BY <1>1, QueueInvariant, PTL

\* The fragments of a message reach the stack in the order send() enqueued
\* them on their connection, through refusals, teardowns and timeouts.
THEOREM FragmentOrder == Spec => []OrderIsKept
<1>1. Inv => OrderIsKept
  <2>. SUFFICES ASSUME Inv, NEW v \in Write, NEW w \in Write, v < w,
                       keyOf[v] = keyOf[w], air[w] # "none", told[v] = 0,
                       keyOf[v] # NoKey
                PROVE  FALSE
    BY DEF OrderIsKept
  <2>1. v <= count /\ w <= count /\ keyOf[v] \in Key
    BY DEF Inv, QueueInv, EnqueuedHasKey
  <2>. DEFINE k == keyOf[v]
  <2>2. PICK i \in 1..Len(queues[k]) : queues[k][i] = v
    BY <2>1 DEF Inv, QueueInv, UntoldIsQueued
  <2>3. k \in DOMAIN queues /\ queues[k] \in Seq(Write)
    BY <2>1 DEF Inv, QueueInv, QueueTypes, UntoldIsQueued
  <2>4. told[w] = 0
    <3>1. told[w] # 1
      BY <2>1 DEF Inv, QueueInv, ToldInOrder
    <3>. QED
      BY <3>1 DEF Inv, QueueInv, QueueTypes
  <2>5. PICK j \in 1..Len(queues[k]) : queues[k][j] = w
    BY <2>1, <2>4 DEF Inv, QueueInv, UntoldIsQueued
  <2>6. j = 1
    <3>1. ~(j \in 2..Len(queues[k]))
      BY <2>3, <2>5 DEF Inv, QueueInv, OnlyHeadInTheAir
    <3>. QED
      BY <2>3, <3>1
  <2>7. j < i \/ i = j
    BY <2>3, <2>6
  <2>8. v # w /\ v \in Nat /\ w \in Nat
    BY DEF Write
  <2>9. j < i => w < v
    BY <2>2, <2>3, <2>5 DEF Inv, QueueInv, Sorted
  <2>. QED
    BY <2>2, <2>5, <2>7, <2>8, <2>9
<1>. QED
  BY <1>1, QueueInvariant, PTL

\* Without a stop of the server, what the stack has between submission and
\* callback is the head of its queue, at most one per connection.
THEOREM StackFollowsQueue == Spec => []AirInv
<1>1. Init => Inv /\ AirInv
  BY InvInit, AirInit
<1>2. (Inv /\ AirInv) /\ [Next]_vars => (Inv /\ AirInv)'
  BY InvNext, AirNext
<1>. QED
  BY <1>1, <1>2, PTL DEF Spec

\* GattWriteQueue never has two writes of one connection between submission
\* and callback, however links fail, peers come back and senders give up.
THEOREM OneAtATime == Spec => []OneWriteInTheAir
<1>1. AirInv => OneWriteInTheAir
  BY DEF AirInv
<1>. QED
  BY <1>1, StackFollowsQueue, PTL

\* notifyCompleted(true) reaches the callback of the very write the stack
\* completed, never that of another write of the connection.
THEOREM SuccessIsReal == Spec => []NoFalseSuccess
<1>1. AirInv => NoFalseSuccess
  BY DEF AirInv
<1>. QED
  BY <1>1, StackFollowsQueue, PTL
=============================================================================
