---------------------- MODULE AnnounceHandshake_proofs ----------------------
(***************************************************************************)
(* Routes and announcements belong to the link that is up, and both ends   *)
(* of a link have their route in the end, for any number of retries, links,*)
(* failed sends and toggles.                                               *)
(***************************************************************************)
EXTENDS AnnounceHandshake, SequenceTheorems, TLAPS

Conn == {"connected", "disconnected"}

\* What an event of the queue says of the present link, unless a connection
\* event comes after it.
Holds(e) ==
  /\ e.type = "disconnected" => link = 0
  /\ e.type # "disconnected" => e.link = link
  /\ e.type = "connected" => link # 0

Quiet(q) == \A i \in DOMAIN q : q[i].type \notin Conn

Current(q) ==
  \A i \in DOMAIN q : (\A j \in DOMAIN q : j > i => q[j].type \notin Conn) => Holds(q[i])

EventsAreCurrent == \A p \in Phone : Current(events[p])

\* A hook that is not mounted has learnt and started nothing.
UnmountedIsBlank ==
  \A p \in Phone : ~mounted[p] =>
    /\ ~connected[p] /\ ~announced[p] /\ ~enabled[p]
    /\ mapped[p] = 0 /\ timer[p] = 0
    /\ creations[p] = <<>> /\ sends[p] = <<>>

ConnectedIsLinked == \A p \in Phone : connected[p] /\ Informed(p) => link # 0

AnnouncedIsHeard ==
  \A p \in Phone : announced[p] /\ Informed(p) /\ link # 0 => heard[p] = link

\* An ANNOUNCE that is on the air went out on the present link.
AirIsHeard ==
  \A p \in Phone :
    /\ \A i \in DOMAIN sends[p] : sends[p][i] => i = 1
    /\ sends[p] # <<>> /\ sends[p][1] /\ link # 0 => heard[p] = link

RouteInv ==
  /\ AnnounceTypeOK
  /\ UnmountedIsBlank /\ EventsAreCurrent
  /\ RouteIsOfThisLink /\ ConnectedIsLinked /\ AnnouncedIsHeard /\ AirIsHeard

-----------------------------------------------------------------------------
(* Queues.                                                                 *)

LEMMA OtherPhone == \A p \in Phone : Other(p) \in Phone /\ Other(p) # p
<1>1. PICK a, b \in Phone : a # b /\ Phone = {a, b}
  BY TwoPhones DEF TwoPhones
<1>2. \A q \in Phone : \E r \in Phone : r # q
  BY <1>1
<1> QED BY <1>2 DEF Other

LEMMA TailAt ==
  ASSUME NEW S, NEW q \in Seq(S), q # <<>>
  PROVE  /\ Tail(q) \in Seq(S) /\ Head(q) \in S /\ Head(q) = q[1]
         /\ DOMAIN q = 1 .. Len(q) /\ 1 \in DOMAIN q /\ Len(q) \in Nat
         /\ \A i \in DOMAIN Tail(q) : i \in Nat /\ i + 1 \in DOMAIN q /\ Tail(q)[i] = q[i + 1]
         /\ \A i \in DOMAIN q : i > 1 => i - 1 \in DOMAIN Tail(q) /\ Tail(q)[i - 1] = q[i]
<1>1. Len(q) \in Nat /\ Len(q) > 0 /\ DOMAIN q = 1 .. Len(q)
  BY EmptySeq
<1>2. /\ Tail(q) \in Seq(S) /\ Head(q) = q[1] /\ DOMAIN Tail(q) = 1 .. Len(q) - 1
      /\ \A i \in 1 .. Len(q) - 1 : Tail(q)[i] = q[i + 1]
  BY <1>1
<1> QED BY <1>1, <1>2

LEMMA AppendAt ==
  ASSUME NEW S, NEW q \in Seq(S), NEW e \in S
  PROVE  /\ Append(q, e) \in Seq(S)
         /\ DOMAIN q = 1 .. Len(q) /\ Len(q) \in Nat
         /\ DOMAIN Append(q, e) = 1 .. Len(q) + 1
         /\ \A i \in DOMAIN q : Append(q, e)[i] = q[i]
         /\ Append(q, e)[Len(q) + 1] = e
  OBVIOUS

LEMMA QuietAppend ==
  ASSUME NEW q \in Seq(Event), NEW e \in Event
  PROVE  Quiet(Append(q, e)) <=> Quiet(q) /\ e.type \notin Conn
<1>1. /\ DOMAIN q = 1 .. Len(q) /\ Len(q) \in Nat
      /\ DOMAIN Append(q, e) = 1 .. Len(q) + 1
      /\ \A i \in DOMAIN q : Append(q, e)[i] = q[i]
      /\ Append(q, e)[Len(q) + 1] = e
  BY AppendAt
<1> QED BY <1>1 DEF Quiet

LEMMA QuietTail ==
  ASSUME NEW q \in Seq(Event), q # <<>>
  PROVE  Quiet(q) <=> Head(q).type \notin Conn /\ Quiet(Tail(q))
<1>1. ASSUME Quiet(q) PROVE Head(q).type \notin Conn /\ Quiet(Tail(q))
  BY <1>1, TailAt DEF Quiet
<1>2. ASSUME Head(q).type \notin Conn, Quiet(Tail(q)), NEW i \in DOMAIN q
      PROVE  q[i].type \notin Conn
  <2>1. CASE i = 1
    BY <1>2, <2>1, TailAt
  <2>2. CASE i # 1
    <3>1. i > 1
      BY <2>2, TailAt
    <3>2. i - 1 \in DOMAIN Tail(q) /\ Tail(q)[i - 1] = q[i]
      BY <3>1, TailAt
    <3> QED BY <1>2, <3>2 DEF Quiet
  <2> QED BY <2>1, <2>2
<1> QED BY <1>1, <1>2 DEF Quiet

LEMMA CurrentTail ==
  ASSUME NEW q \in Seq(Event), q # <<>>, Current(q)
  PROVE  Current(Tail(q)) /\ (Quiet(Tail(q)) => Holds(Head(q)))
<1>1. ASSUME NEW i \in DOMAIN Tail(q), \A j \in DOMAIN Tail(q) : j > i => Tail(q)[j].type \notin Conn
      PROVE  Holds(Tail(q)[i])
  <2>1. i + 1 \in DOMAIN q /\ Tail(q)[i] = q[i + 1] /\ i \in Nat
    BY TailAt
  <2>2. ASSUME NEW j \in DOMAIN q, j > i + 1 PROVE q[j].type \notin Conn
    <3>1. j > 1 /\ j \in Nat
      BY <2>1, <2>2, TailAt
    <3>2. j - 1 \in DOMAIN Tail(q) /\ Tail(q)[j - 1] = q[j] /\ j - 1 > i
      BY <2>1, <2>2, <3>1, TailAt
    <3> QED BY <1>1, <3>2
  <2> QED BY <2>1, <2>2 DEF Current
<1>2. ASSUME Quiet(Tail(q)) PROVE Holds(Head(q))
  <2>1. \A j \in DOMAIN q : j > 1 => q[j].type \notin Conn
    BY <1>2, TailAt DEF Quiet
  <2> QED BY <2>1, TailAt DEF Current
<1> QED BY <1>1, <1>2 DEF Current

LEMMA CurrentAppend ==
  ASSUME NEW q \in Seq(Event), NEW e \in Event, Holds(e), e.type \notin Conn => Current(q)
  PROVE  Current(Append(q, e))
<1> DEFINE s == Append(q, e)
<1>1. /\ DOMAIN q = 1 .. Len(q) /\ Len(q) \in Nat
      /\ DOMAIN s = 1 .. Len(q) + 1
      /\ \A i \in DOMAIN q : s[i] = q[i]
      /\ s[Len(q) + 1] = e
  BY AppendAt
<1> HIDE DEF s
<1>2. ASSUME NEW i \in DOMAIN s, \A j \in DOMAIN s : j > i => s[j].type \notin Conn
      PROVE  Holds(s[i])
  <2>1. CASE i = Len(q) + 1
    BY <1>1, <2>1
  <2>2. CASE i # Len(q) + 1
    <3>1. i \in DOMAIN q /\ s[i] = q[i] /\ e.type \notin Conn
      BY <1>1, <1>2, <2>2
    <3>2. \A j \in DOMAIN q : j > i => q[j].type \notin Conn
      BY <1>1, <1>2
    <3> QED BY <3>1, <3>2 DEF Current
  <2> QED BY <2>1, <2>2
<1>3. Current(s)
  BY <1>2 DEF Current
<1> QED BY <1>3 DEF s

-----------------------------------------------------------------------------
(* What the helpers of the actions do.                                     *)

\* The sends of q stay, or an ANNOUNCE that is not on the air joins them.
SendsGrow(q) == sends'[q] = sends[q] \/ sends'[q] = Append(sends[q], FALSE)

\* A schedule writes the timer and the sends of its phone only.
LEMMA ScheduleEffect ==
  ASSUME AnnounceTypeOK, NEW p \in Phone, NEW done \in BOOLEAN, NEW pending \in 0 .. Retries,
         NEW force \in BOOLEAN, Schedule(p, done, pending, force)
  PROVE  /\ timer' \in [Phone -> 0 .. Retries]
         /\ sends' \in [Phone -> Seq(BOOLEAN)]
         /\ SendsGrow(p)
         /\ \A q \in Phone : q # p => sends'[q] = sends[q] /\ timer'[q] = timer[q]
<1> USE AnnounceBounds DEF AnnounceBounds, AnnounceTypeOK
<1>1. /\ timer' \in [Phone -> 0 .. Retries]
      /\ \A q \in Phone : q # p => timer'[q] = timer[q]
  <2>1. PICK v : v \in 0 .. Retries /\ timer' = [timer EXCEPT ![p] = v]
    BY DEF Schedule
  <2> QED BY <2>1
<1>2. sends' = sends \/ sends' = [sends EXCEPT ![p] = Append(@, FALSE)]
  BY DEF Schedule, SendAnnounce
<1>3. Append(sends[p], FALSE) \in Seq(BOOLEAN)
  BY AppendAt
<1> QED BY <1>1, <1>2, <1>3 DEF SendsGrow

\* The reconciliation may drop what is known of the phone's peer, and schedule.
LEMMA ApplyEffect ==
  ASSUME AnnounceTypeOK, NEW p \in Phone, NEW live \in BOOLEAN, NEW known \in 0 .. MaxEvents,
         Apply(p, live, known)
  PROVE  /\ timer' \in [Phone -> 0 .. Retries]
         /\ sends' \in [Phone -> Seq(BOOLEAN)]
         /\ announced' \in [Phone -> BOOLEAN]
         /\ mapped' \in [Phone -> 0 .. MaxEvents]
         /\ SendsGrow(p)
         /\ announced'[p] => announced[p]
         /\ mapped'[p] \in {0, known}
         /\ \A q \in Phone : q # p =>
              /\ sends'[q] = sends[q] /\ timer'[q] = timer[q]
              /\ announced'[q] = announced[q] /\ mapped'[q] = mapped[q]
<1> DEFINE gone == ~live /\ known # 0
<1>1. /\ announced' = [announced EXCEPT ![p] = @ /\ ~gone]
      /\ mapped' = [mapped EXCEPT ![p] = IF gone THEN 0 ELSE known]
      /\ \/ Schedule(p, announced[p], timer[p], FALSE)
         \/ timer' = [timer EXCEPT ![p] = IF gone THEN 0 ELSE @] /\ UNCHANGED sends
  BY DEF Apply
<1>2. /\ announced' \in [Phone -> BOOLEAN]
      /\ mapped' \in [Phone -> 0 .. MaxEvents]
      /\ announced'[p] => announced[p]
      /\ mapped'[p] \in {0, known}
      /\ \A q \in Phone : q # p => announced'[q] = announced[q] /\ mapped'[q] = mapped[q]
  <2>1. 0 \in 0 .. MaxEvents
    BY AnnounceBounds DEF AnnounceBounds
  <2>2. (announced[p] /\ ~gone) \in BOOLEAN /\ (IF gone THEN 0 ELSE known) \in 0 .. MaxEvents
    BY <2>1
  <2>3. announced \in [Phone -> BOOLEAN] /\ mapped \in [Phone -> 0 .. MaxEvents]
    BY DEF AnnounceTypeOK
  <2> HIDE DEF gone
  <2>4. announced' \in [Phone -> BOOLEAN] /\ mapped' \in [Phone -> 0 .. MaxEvents]
    BY <1>1, <2>2, <2>3
  <2>5. announced'[p] = (announced[p] /\ ~gone) /\ mapped'[p] = (IF gone THEN 0 ELSE known)
    BY <1>1, <2>3
  <2> QED BY <1>1, <2>3, <2>4, <2>5
<1>3. /\ timer' \in [Phone -> 0 .. Retries]
      /\ sends' \in [Phone -> Seq(BOOLEAN)]
      /\ SendsGrow(p)
      /\ \A q \in Phone : q # p => sends'[q] = sends[q] /\ timer'[q] = timer[q]
  <2>1. CASE Schedule(p, announced[p], timer[p], FALSE)
    <3>1. announced[p] \in BOOLEAN /\ timer[p] \in 0 .. Retries
      BY DEF AnnounceTypeOK
    <3> QED BY <2>1, <3>1, ScheduleEffect
  <2>2. CASE timer' = [timer EXCEPT ![p] = IF gone THEN 0 ELSE @] /\ UNCHANGED sends
    BY <2>2, AnnounceBounds DEF AnnounceBounds, AnnounceTypeOK, SendsGrow
  <2> QED BY <1>1, <2>1, <2>2
<1> QED BY <1>2, <1>3

\* An answer of the native list tells of the present link.
LEMMA ListEvent ==
  ASSUME AnnounceTypeOK
  PROVE  /\ [type |-> "list", link |-> link] \in Event
         /\ [type |-> "voice", link |-> link] \in Event
         /\ [type |-> "announce", link |-> link] \in Event
  BY DEF AnnounceTypeOK, Event

\* The event at the head of a queue is an event, and so are those behind it.
LEMMA HeadEvent ==
  ASSUME AnnounceTypeOK, NEW p \in Phone, events[p] # <<>>
  PROVE  /\ Head(events[p]) \in Event /\ Tail(events[p]) \in Seq(Event)
         /\ events[p] \in Seq(Event)
         /\ Head(events[p]).link \in 0 .. MaxEvents
<1>1. events[p] \in Seq(Event)
  BY DEF AnnounceTypeOK
<1>2. Head(events[p]) \in Event /\ Tail(events[p]) \in Seq(Event)
  BY <1>1, TailAt
<1> QED BY <1>1, <1>2 DEF Event

-----------------------------------------------------------------------------
(* What a step does to the queue of events.                                *)

\* The head of q's queue may go, and an answer about the present link may
\* come.
Moved(q) ==
  \E s \in Seq(Event) :
    /\ s = events[q] \/ (events[q] # <<>> /\ s = Tail(events[q]))
    /\ \/ events'[q] = s
       \/ \E e \in Event : Holds(e) /\ e.type \notin Conn /\ events'[q] = Append(s, e)

LEMMA MovedBy ==
  ASSUME AnnounceTypeOK, NEW p \in Phone, NEW s \in Seq(Event),
         s = events[p] \/ (events[p] # <<>> /\ s = Tail(events[p])),
         NEW t, t = s \/ \E e \in Event : Holds(e) /\ e.type \notin Conn /\ t = Append(s, e),
         events' = [events EXCEPT ![p] = t]
  PROVE  events' \in [Phone -> Seq(Event)] /\ \A q \in Phone : Moved(q)
<1>1. t \in Seq(Event)
  BY AppendAt
<1>2. events \in [Phone -> Seq(Event)]
  BY DEF AnnounceTypeOK
<1>3. events' \in [Phone -> Seq(Event)] /\ events'[p] = t
      /\ \A q \in Phone : q # p => events'[q] = events[q] /\ events[q] \in Seq(Event)
  BY <1>1, <1>2
<1> QED BY <1>3 DEF Moved

LEMMA Unmoved ==
  ASSUME AnnounceTypeOK, events' = events
  PROVE  events' \in [Phone -> Seq(Event)] /\ \A q \in Phone : Moved(q)
  BY DEF AnnounceTypeOK, Moved

\* While the link stays, every queue moves so.
LEMMA EventsMove ==
  ASSUME AnnounceTypeOK, ~LinkUp, ~LinkDown, [Next]_vars
  PROVE  link' = link /\ events' \in [Phone -> Seq(Event)] /\ \A q \in Phone : Moved(q)
<1> DEFINE Goal ==
         link' = link /\ events' \in [Phone -> Seq(Event)] /\ \A q \in Phone : Moved(q)
<1>1. ASSUME NEW p \in Phone, Mount(p)
      PROVE  Goal
  <2>1. events' = [events EXCEPT ![p] = Append(events[p], [type |-> "list", link |-> link])] /\ link' = link
    BY <1>1 DEF Mount, Reconcile, WithList, hookVars, AnnounceTypeOK
  <2>2. events[p] \in Seq(Event)
    BY DEF AnnounceTypeOK
  <2>3. \E e \in Event : Holds(e) /\ e.type \notin Conn
                        /\ Append(events[p], [type |-> "list", link |-> link]) = Append(events[p], e)
    BY ListEvent DEF Holds, Conn
  <2> QED BY <2>1, <2>2, <2>3, MovedBy
<1>2. ASSUME NEW p \in Phone, ToggleVoiceMode(p)
      PROVE  Goal
  <2>1. link' = link
        /\ \E e \in {[type |-> "list", link |-> link], [type |-> "voice", link |-> link]} :
             events' = [events EXCEPT ![p] = Append(events[p], e)]
    BY <1>2 DEF ToggleVoiceMode, Reconcile, WithList, AnnounceTypeOK
  <2>2. PICK e : /\ e \in {[type |-> "list", link |-> link], [type |-> "voice", link |-> link]}
                 /\ events' = [events EXCEPT ![p] = Append(events[p], e)]
    BY <2>1
  <2>3. e \in Event /\ Holds(e) /\ e.type \notin Conn
    BY <2>2, ListEvent DEF Holds, Conn
  <2>4. events[p] \in Seq(Event)
    BY DEF AnnounceTypeOK
  <2> QED BY <2>1, <2>2, <2>3, <2>4, MovedBy
<1>3. ASSUME NEW p \in Phone, PttReconciles(p)
      PROVE  Goal
  <2>1. events' = [events EXCEPT ![p] = Append(events[p], [type |-> "list", link |-> link])] /\ link' = link
    BY <1>3 DEF PttReconciles, Reconcile, WithList, hookVars, AnnounceTypeOK
  <2>2. events[p] \in Seq(Event)
    BY DEF AnnounceTypeOK
  <2>3. \E e \in Event : Holds(e) /\ e.type \notin Conn
                        /\ Append(events[p], [type |-> "list", link |-> link]) = Append(events[p], e)
    BY ListEvent DEF Holds, Conn
  <2> QED BY <2>1, <2>2, <2>3, MovedBy
<1>4. ASSUME NEW p \in Phone, Unheard(p)
      PROVE  Goal
  <2>1. events[p] # <<>> /\ events' = [events EXCEPT ![p] = Tail(events[p])] /\ link' = link
    BY <1>4 DEF Unheard, Handled, AnnounceTypeOK
  <2>2. Tail(events[p]) \in Seq(Event)
    BY <2>1, HeadEvent
  <2> QED BY <2>1, <2>2, MovedBy
<1>5. ASSUME NEW p \in Phone, OnConnected(p)
      PROVE  Goal
  <2>1. events[p] # <<>> /\ events' = [events EXCEPT ![p] = Tail(events[p])] /\ link' = link
    BY <1>5 DEF OnConnected, Takes, Handled, AnnounceTypeOK
  <2>2. Tail(events[p]) \in Seq(Event)
    BY <2>1, HeadEvent
  <2> QED BY <2>1, <2>2, MovedBy
<1>6. ASSUME NEW p \in Phone, OnDisconnected(p)
      PROVE  Goal
  <2>1. events[p] # <<>> /\ link' = link
        /\ \/ events' = [events EXCEPT ![p] = Tail(events[p])]
           \/ events' = [events EXCEPT ![p] = Append(Tail(events[p]), [type |-> "list", link |-> link])]
    BY <1>6 DEF OnDisconnected, VoiceOff, Takes, WithList, AnnounceTypeOK
  <2>2. Tail(events[p]) \in Seq(Event)
    BY <2>1, HeadEvent
  <2>3. \E e \in Event : Holds(e) /\ e.type \notin Conn
                        /\ Append(Tail(events[p]), [type |-> "list", link |-> link]) = Append(Tail(events[p]), e)
    BY ListEvent DEF Holds, Conn
  <2> QED BY <2>1, <2>2, <2>3, MovedBy
<1>7. ASSUME NEW p \in Phone, OnAnnounce(p)
      PROVE  Goal
  <2>1. events[p] # <<>> /\ events' = [events EXCEPT ![p] = Tail(events[p])] /\ link' = link
    BY <1>7 DEF OnAnnounce, Takes, Handled, AnnounceTypeOK
  <2>2. Tail(events[p]) \in Seq(Event)
    BY <2>1, HeadEvent
  <2> QED BY <2>1, <2>2, MovedBy
<1>8. ASSUME NEW p \in Phone, OnVoicePeer(p)
      PROVE  Goal
  <2>1. events[p] # <<>> /\ link' = link
        /\ \/ events' = [events EXCEPT ![p] = Tail(events[p])]
           \/ events' = [events EXCEPT ![p] = Append(Tail(events[p]), [type |-> "list", link |-> link])]
    BY <1>8 DEF OnVoicePeer, Takes, WithList, AnnounceTypeOK
  <2>2. Tail(events[p]) \in Seq(Event)
    BY <2>1, HeadEvent
  <2>3. \E e \in Event : Holds(e) /\ e.type \notin Conn
                        /\ Append(Tail(events[p]), [type |-> "list", link |-> link]) = Append(Tail(events[p]), e)
    BY ListEvent DEF Holds, Conn
  <2> QED BY <2>1, <2>2, <2>3, MovedBy
<1>9. ASSUME NEW p \in Phone, OnList(p)
      PROVE  Goal
  <2>1. events[p] # <<>> /\ events' = [events EXCEPT ![p] = Tail(events[p])] /\ link' = link
    BY <1>9 DEF OnList, Takes, Handled, AnnounceTypeOK
  <2>2. Tail(events[p]) \in Seq(Event)
    BY <2>1, HeadEvent
  <2> QED BY <2>1, <2>2, MovedBy
<1>10. ASSUME NEW p \in Phone, AdapterCreated(p)
      PROVE  Goal
  BY <1>10, Unmoved DEF AdapterCreated
<1>11. ASSUME NEW p \in Phone, RetryFires(p)
      PROVE  Goal
  BY <1>11, Unmoved DEF RetryFires
<1>12. ASSUME NEW p \in Phone, Delivered(p)
      PROVE  Goal
  <2>1. link' = link
        /\ events' = [events EXCEPT ![Other(p)] = Append(events[Other(p)], [type |-> "announce", link |-> link])]
    BY <1>12, OtherPhone DEF Delivered, AnnounceTypeOK
  <2>2. events[Other(p)] \in Seq(Event) /\ Other(p) \in Phone
    BY OtherPhone DEF AnnounceTypeOK
  <2>3. \E e \in Event : Holds(e) /\ e.type \notin Conn
           /\ Append(events[Other(p)], [type |-> "announce", link |-> link]) = Append(events[Other(p)], e)
    BY ListEvent DEF Holds, Conn
  <2> QED BY <2>1, <2>2, <2>3, MovedBy
<1>13. ASSUME NEW p \in Phone, NEW ok \in BOOLEAN, SendSettles(p, ok)
      PROVE  Goal
  BY <1>13, Unmoved DEF SendSettles
<1>14. CASE UNCHANGED vars
  BY <1>14, Unmoved DEF vars, hookVars
<1> QED
  BY <1>1, <1>2, <1>3, <1>4, <1>5, <1>6, <1>7, <1>8, <1>9, <1>10, <1>11, <1>12, <1>13, <1>14 DEF Next, Handle, Settle

\* Behind a connection event that comes or goes the hook has more to learn.
LEMMA MovedIsCurrent ==
  ASSUME AnnounceTypeOK, NEW q \in Phone, Moved(q), Current(events[q])
  PROVE  Current(events'[q])
<1>1. PICK s \in Seq(Event) :
        /\ s = events[q] \/ (events[q] # <<>> /\ s = Tail(events[q]))
        /\ \/ events'[q] = s
           \/ \E e \in Event : Holds(e) /\ e.type \notin Conn /\ events'[q] = Append(s, e)
  BY DEF Moved
<1>2. events[q] \in Seq(Event)
  BY DEF AnnounceTypeOK
<1>3. Current(s)
  BY <1>1, <1>2, CurrentTail
<1> QED BY <1>1, <1>3, CurrentAppend

\* Unless it takes a connection event off the queue, a step informs nobody.
LEMMA MovedInforms ==
  ASSUME AnnounceTypeOK, NEW q \in Phone, Moved(q), Quiet(events'[q])
  PROVE  Quiet(events[q]) \/ (events[q] # <<>> /\ Head(events[q]).type \in Conn)
<1>1. PICK s \in Seq(Event) :
        /\ s = events[q] \/ (events[q] # <<>> /\ s = Tail(events[q]))
        /\ \/ events'[q] = s
           \/ \E e \in Event : Holds(e) /\ e.type \notin Conn /\ events'[q] = Append(s, e)
  BY DEF Moved
<1>2. events[q] \in Seq(Event)
  BY DEF AnnounceTypeOK
<1>3. Quiet(s)
  BY <1>1, QuietAppend
<1> QED BY <1>1, <1>2, <1>3, QuietTail

\* What the hook takes off the queue, with no connection event behind it,
\* tells of the present link.
LEMMA TakenHolds ==
  ASSUME AnnounceTypeOK, NEW q \in Phone, Current(events[q]), events[q] # <<>>,
         \/ events'[q] = Tail(events[q])
         \/ \E e \in Event : events'[q] = Append(Tail(events[q]), e),
         Quiet(events'[q])
  PROVE  Holds(Head(events[q]))
<1>1. Tail(events[q]) \in Seq(Event) /\ events[q] \in Seq(Event)
  BY HeadEvent
<1>2. Quiet(Tail(events[q]))
  BY <1>1, QuietAppend
<1> QED BY <1>1, <1>2, CurrentTail

\* A new or a lost link puts a connection event behind all the others.
LEMMA LinkEvent ==
  ASSUME AnnounceTypeOK, LinkUp \/ LinkDown
  PROVE  /\ events' \in [Phone -> Seq(Event)]
         /\ link' \in 0 .. MaxEvents
         /\ EventsAreCurrent'
         /\ \A q \in Phone : ~Informed(q)'
<1>1. PICK e : /\ e \in Event /\ e.type \in Conn
               /\ e.type = "disconnected" => link' = 0
               /\ e.type # "disconnected" => e.link = link' /\ link' # 0
               /\ events' = [q \in Phone |-> Append(events[q], e)]
               /\ link' \in 0 .. MaxEvents
  <2>1. CASE LinkUp
    <3>1. links + 1 \in 0 .. MaxEvents /\ links + 1 # 0
      BY <2>1, AnnounceBounds DEF LinkUp, MayHappen, AnnounceTypeOK, AnnounceBounds
    <3>2. [type |-> "connected", link |-> links + 1] \in Event
      BY <3>1 DEF Event
    <3>3. /\ link' = links + 1
          /\ events' = [q \in Phone |-> Append(events[q], [type |-> "connected", link |-> links + 1])]
      BY <2>1 DEF LinkUp
    <3> QED BY <3>1, <3>2, <3>3 DEF Conn
  <2>2. CASE LinkDown
    <3>1. [type |-> "disconnected", link |-> link] \in Event /\ 0 \in 0 .. MaxEvents
      BY AnnounceBounds DEF Event, AnnounceTypeOK, AnnounceBounds
    <3>2. /\ link' = 0
          /\ events' = [q \in Phone |-> Append(events[q], [type |-> "disconnected", link |-> link])]
      BY <2>2 DEF LinkDown
    <3> QED BY <3>1, <3>2 DEF Conn
  <2> QED BY <2>1, <2>2
<1>2. ASSUME NEW q \in Phone
      PROVE  /\ events'[q] \in Seq(Event)
             /\ Len(events[q]) + 1 \in DOMAIN events'[q]
             /\ DOMAIN events'[q] = 1 .. Len(events[q]) + 1 /\ Len(events[q]) \in Nat
             /\ events'[q][Len(events[q]) + 1] = e
  <2>1. events[q] \in Seq(Event) /\ events'[q] = Append(events[q], e)
    BY <1>1 DEF AnnounceTypeOK
  <2> QED BY <1>1, <2>1, AppendAt
<1>3. \A q \in Phone : ~Informed(q)'
  BY <1>1, <1>2 DEF Informed, Conn
<1>4. ASSUME NEW q \in Phone, NEW i \in DOMAIN events'[q],
             \A j \in DOMAIN events'[q] : j > i => events'[q][j].type \notin Conn
      PROVE  /\ events'[q][i].type = "disconnected" => link' = 0
             /\ events'[q][i].type # "disconnected" => events'[q][i].link = link'
             /\ events'[q][i].type = "connected" => link' # 0
  <2>1. i = Len(events[q]) + 1
    BY <1>1, <1>2, <1>4
  <2> QED BY <1>1, <1>2, <2>1
<1>5. EventsAreCurrent'
  BY <1>4 DEF EventsAreCurrent, Current, Holds
<1>6. events' \in [Phone -> Seq(Event)]
  <2>1. events' = [q \in Phone |-> events'[q]]
    BY <1>1
  <2> QED BY <1>2, <2>1
<1> QED BY <1>1, <1>3, <1>5, <1>6

LEMMA CurrentStep ==
  ASSUME AnnounceTypeOK, EventsAreCurrent, [Next]_vars
  PROVE  EventsAreCurrent'
<1>1. CASE LinkUp \/ LinkDown
  BY <1>1, LinkEvent
<1>2. CASE ~LinkUp /\ ~LinkDown
  <2>1. link' = link /\ \A q \in Phone : Moved(q)
    BY <1>2, EventsMove
  <2>2. \A q \in Phone : Current(events'[q])
    BY <2>1, MovedIsCurrent DEF EventsAreCurrent
  <2> QED BY <2>1, <2>2 DEF EventsAreCurrent, Current, Holds
<1> QED BY <1>1, <1>2

\* How a phone comes to be without a connection event to handle.
LEMMA InformedStep ==
  ASSUME AnnounceTypeOK, [Next]_vars, NEW q \in Phone, Informed(q)'
  PROVE  /\ link' = link
         /\ ~LinkUp /\ ~LinkDown
         /\ Informed(q) \/ (events[q] # <<>> /\ Head(events[q]).type \in Conn)
<1>1. ~LinkUp /\ ~LinkDown
  BY LinkEvent
<1>2. link' = link /\ Moved(q)
  BY <1>1, EventsMove
<1>3. Quiet(events'[q])
  BY DEF Informed, Quiet, Conn
<1>4. Quiet(events[q]) => Informed(q)
  BY DEF Informed, Quiet, Conn
<1> QED BY <1>1, <1>2, <1>3, <1>4, MovedInforms

\* Only its three handlers take a connection event off a queue.
LEMMA HeadStays ==
  ASSUME AnnounceTypeOK, NEW q \in Phone, events[q] # <<>>, Head(events[q]).type \in Conn, [Next]_vars
  PROVE  OnConnected(q) \/ OnDisconnected(q) \/ Unheard(q)
         \/ events'[q] = events[q] \/ \E e \in Event : events'[q] = Append(events[q], e)
<1> DEFINE Goal ==
         OnConnected(q) \/ OnDisconnected(q) \/ Unheard(q)
         \/ events'[q] = events[q] \/ \E e \in Event : events'[q] = Append(events[q], e)
<1>1. ASSUME NEW p \in Phone, Mount(p)
      PROVE  Goal
  BY <1>1, ListEvent DEF Mount, Reconcile, WithList, AnnounceTypeOK
<1>2. ASSUME NEW p \in Phone, ToggleVoiceMode(p)
      PROVE  Goal
  BY <1>2, ListEvent DEF ToggleVoiceMode, Reconcile, WithList, AnnounceTypeOK
<1>3. ASSUME NEW p \in Phone, PttReconciles(p)
      PROVE  Goal
  BY <1>3, ListEvent DEF PttReconciles, Reconcile, WithList, AnnounceTypeOK
<1>4. ASSUME NEW p \in Phone, Unheard(p)
      PROVE  Goal
  <2>1. CASE p = q
    BY <1>4, <2>1
  <2>2. CASE p # q
    BY <1>4, <2>2 DEF Unheard, Handled, VoiceOff, AnnounceTypeOK
  <2> QED BY <2>1, <2>2
<1>5. ASSUME NEW p \in Phone, OnConnected(p)
      PROVE  Goal
  <2>1. CASE p = q
    BY <1>5, <2>1
  <2>2. CASE p # q
    BY <1>5, <2>2 DEF OnConnected, Handled, VoiceOff, AnnounceTypeOK
  <2> QED BY <2>1, <2>2
<1>6. ASSUME NEW p \in Phone, OnDisconnected(p)
      PROVE  Goal
  <2>1. CASE p = q
    BY <1>6, <2>1
  <2>2. CASE p # q
    BY <1>6, <2>2 DEF OnDisconnected, Handled, VoiceOff, AnnounceTypeOK
  <2> QED BY <2>1, <2>2
<1>7. ASSUME NEW p \in Phone, OnAnnounce(p)
      PROVE  Goal
  <2>1. CASE p = q
    BY <1>7, <2>1 DEF OnAnnounce, Takes, Conn
  <2>2. CASE p # q
    BY <1>7, <2>2 DEF OnAnnounce, Handled, AnnounceTypeOK
  <2> QED BY <2>1, <2>2
<1>8. ASSUME NEW p \in Phone, OnVoicePeer(p)
      PROVE  Goal
  <2>1. CASE p = q
    BY <1>8, <2>1 DEF OnVoicePeer, Takes, Conn
  <2>2. CASE p # q
    BY <1>8, <2>2 DEF OnVoicePeer, Handled, AnnounceTypeOK
  <2> QED BY <2>1, <2>2
<1>9. ASSUME NEW p \in Phone, OnList(p)
      PROVE  Goal
  <2>1. CASE p = q
    BY <1>9, <2>1 DEF OnList, Takes, Conn
  <2>2. CASE p # q
    BY <1>9, <2>2 DEF OnList, Handled, AnnounceTypeOK
  <2> QED BY <2>1, <2>2
<1>10. ASSUME NEW p \in Phone, AdapterCreated(p)
      PROVE  Goal
  BY <1>10 DEF AdapterCreated
<1>11. ASSUME NEW p \in Phone, RetryFires(p)
      PROVE  Goal
  BY <1>11 DEF RetryFires
<1>12. ASSUME NEW p \in Phone, Delivered(p)
      PROVE  Goal
  <2>1. Other(p) \in Phone
    BY OtherPhone
  <2> QED BY <1>12, <2>1, ListEvent DEF Delivered, AnnounceTypeOK
<1>13. ASSUME NEW p \in Phone, NEW ok \in BOOLEAN, SendSettles(p, ok)
      PROVE  Goal
  BY <1>13 DEF SendSettles
<1>14. ASSUME LinkUp
      PROVE  Goal
  <2>1. links + 1 \in 0 .. MaxEvents
    BY <1>14, AnnounceBounds DEF LinkUp, MayHappen, AnnounceTypeOK, AnnounceBounds
  <2>2. [type |-> "connected", link |-> links + 1] \in Event
    BY <2>1 DEF Event
  <2> QED BY <1>14, <2>2 DEF LinkUp
<1>15. ASSUME LinkDown
      PROVE  Goal
  <2>1. [type |-> "disconnected", link |-> link] \in Event
    BY DEF Event, AnnounceTypeOK
  <2> QED BY <1>15, <2>1 DEF LinkDown
<1>16. CASE UNCHANGED vars
  BY <1>16 DEF vars, hookVars
<1> QED
  BY <1>1, <1>2, <1>3, <1>4, <1>5, <1>6, <1>7, <1>8, <1>9, <1>10, <1>11, <1>12, <1>13, <1>14, <1>15, <1>16 DEF Next, Handle, Settle

LEMMA LearnsStep ==
  ASSUME AnnounceTypeOK, [Next]_vars, NEW q \in Phone, Informed(q)'
  PROVE  /\ link' = link
         /\ ~LinkUp /\ ~LinkDown
         /\ Informed(q) \/ OnConnected(q) \/ OnDisconnected(q) \/ Unheard(q)
<1>1. /\ link' = link
      /\ ~LinkUp /\ ~LinkDown
      /\ Informed(q) \/ (events[q] # <<>> /\ Head(events[q]).type \in Conn)
  BY InformedStep
<1>2. CASE events[q] # <<>> /\ Head(events[q]).type \in Conn
  <2>1. events[q] \in Seq(Event)
    BY DEF AnnounceTypeOK
  <2>2. Quiet(events'[q])
    BY DEF Informed, Quiet, Conn
  <2>3. ~Quiet(events[q])
    BY <1>2, <2>1, QuietTail
  <2>4. \/ OnConnected(q) \/ OnDisconnected(q) \/ Unheard(q)
        \/ events'[q] = events[q] \/ \E e \in Event : events'[q] = Append(events[q], e)
    BY <1>2, HeadStays
  <2>5. ASSUME NEW e \in Event, events'[q] = Append(events[q], e) PROVE FALSE
    BY <2>1, <2>2, <2>3, <2>5, QuietAppend
  <2>6. events'[q] # events[q]
    BY <2>2, <2>3
  <2>7. OnConnected(q) \/ OnDisconnected(q) \/ Unheard(q)
    BY <2>4, <2>5, <2>6
  <2> QED BY <1>1, <2>7
<1> QED BY <1>1, <1>2

-----------------------------------------------------------------------------
(* What a step does to what a phone knows.                                 *)

\* A mapping comes from an ANNOUNCE or goes; a connection event drops it.
LEMMA MappedMoves ==
  ASSUME AnnounceTypeOK, NEW q \in Phone, [Next]_vars
  PROVE  mapped'[q] \in {0, mapped[q]} \/ (OnAnnounce(q) /\ mapped'[q] = Head(events[q]).link)
<1> DEFINE Goal ==
         mapped'[q] \in {0, mapped[q]} \/ (OnAnnounce(q) /\ mapped'[q] = Head(events[q]).link)
<1>1. ASSUME NEW p \in Phone, Mount(p)
      PROVE  Goal
  BY <1>1 DEF Mount
<1>2. ASSUME NEW p \in Phone, ToggleVoiceMode(p)
      PROVE  Goal
  BY <1>2 DEF ToggleVoiceMode
<1>3. ASSUME NEW p \in Phone, PttReconciles(p)
      PROVE  Goal
  BY <1>3 DEF PttReconciles, hookVars
<1>4. ASSUME NEW p \in Phone, Unheard(p)
      PROVE  Goal
  BY <1>4 DEF Unheard, hookVars
<1>5. ASSUME NEW p \in Phone, OnConnected(p)
      PROVE  Goal
  BY <1>5 DEF OnConnected, AnnounceTypeOK
<1>6. ASSUME NEW p \in Phone, OnDisconnected(p)
      PROVE  Goal
  BY <1>6 DEF OnDisconnected, AnnounceTypeOK
<1>7. ASSUME NEW p \in Phone, OnAnnounce(p)
      PROVE  Goal
  BY <1>7 DEF OnAnnounce, AnnounceTypeOK
<1>8. ASSUME NEW p \in Phone, OnVoicePeer(p)
      PROVE  Goal
  BY <1>8 DEF OnVoicePeer
<1>9. ASSUME NEW p \in Phone, OnList(p)
      PROVE  Goal
  <2>1. Head(events[p]).link \in 0 .. MaxEvents /\ mapped[p] \in 0 .. MaxEvents
    BY <1>9, HeadEvent DEF OnList, Takes, AnnounceTypeOK
  <2>2. CASE adapter[p]
    <3>1. Apply(p, Head(events[p]).link # 0, mapped[p])
      BY <1>9, <2>2 DEF OnList
    <3> QED BY <2>1, <3>1, ApplyEffect
  <2>3. CASE ~adapter[p]
    BY <1>9, <2>3 DEF OnList
  <2> QED BY <2>2, <2>3
<1>10. ASSUME NEW p \in Phone, AdapterCreated(p)
      PROVE  Goal
  <2>1. Head(creations[p]) \in BOOLEAN /\ 0 \in 0 .. MaxEvents
    BY <1>10, AnnounceBounds, TailAt DEF AdapterCreated, AnnounceTypeOK, AnnounceBounds
  <2>2. Apply(p, Head(creations[p]), 0)
    BY <1>10 DEF AdapterCreated
  <2> QED BY <2>1, <2>2, ApplyEffect
<1>11. ASSUME NEW p \in Phone, RetryFires(p)
      PROVE  Goal
  BY <1>11 DEF RetryFires
<1>12. ASSUME NEW p \in Phone, Delivered(p)
      PROVE  Goal
  BY <1>12 DEF Delivered, hookVars
<1>13. ASSUME NEW p \in Phone, NEW ok \in BOOLEAN, SendSettles(p, ok)
      PROVE  Goal
  BY <1>13 DEF SendSettles
<1>14. ASSUME LinkUp
      PROVE  Goal
  BY <1>14 DEF LinkUp, hookVars
<1>15. ASSUME LinkDown
      PROVE  Goal
  BY <1>15 DEF LinkDown, hookVars
<1>16. CASE UNCHANGED vars
  BY <1>16 DEF vars, hookVars
<1> QED
  BY <1>1, <1>2, <1>3, <1>4, <1>5, <1>6, <1>7, <1>8, <1>9, <1>10, <1>11, <1>12, <1>13, <1>14, <1>15, <1>16 DEF Next, Handle, Settle

\* A connection becomes known by its event or by the native list.
LEMMA ConnectedMoves ==
  ASSUME AnnounceTypeOK, NEW q \in Phone, connected'[q], [Next]_vars
  PROVE  connected[q] \/ OnConnected(q)
         \/ ((OnList(q) \/ OnVoicePeer(q)) /\ Head(events[q]).link # 0)
<1> DEFINE Goal ==
         connected[q] \/ OnConnected(q)
         \/ ((OnList(q) \/ OnVoicePeer(q)) /\ Head(events[q]).link # 0)
<1>1. ASSUME NEW p \in Phone, Mount(p)
      PROVE  Goal
  BY <1>1 DEF Mount
<1>2. ASSUME NEW p \in Phone, ToggleVoiceMode(p)
      PROVE  Goal
  BY <1>2 DEF ToggleVoiceMode
<1>3. ASSUME NEW p \in Phone, PttReconciles(p)
      PROVE  Goal
  BY <1>3 DEF PttReconciles, hookVars
<1>4. ASSUME NEW p \in Phone, Unheard(p)
      PROVE  Goal
  BY <1>4 DEF Unheard, hookVars
<1>5. ASSUME NEW p \in Phone, OnConnected(p)
      PROVE  Goal
  BY <1>5 DEF OnConnected, AnnounceTypeOK
<1>6. ASSUME NEW p \in Phone, OnDisconnected(p)
      PROVE  Goal
  BY <1>6 DEF OnDisconnected, AnnounceTypeOK
<1>7. ASSUME NEW p \in Phone, OnAnnounce(p)
      PROVE  Goal
  BY <1>7 DEF OnAnnounce
<1>8. ASSUME NEW p \in Phone, OnVoicePeer(p)
      PROVE  Goal
  BY <1>8 DEF OnVoicePeer, AnnounceTypeOK
<1>9. ASSUME NEW p \in Phone, OnList(p)
      PROVE  Goal
  BY <1>9 DEF OnList, AnnounceTypeOK
<1>10. ASSUME NEW p \in Phone, AdapterCreated(p)
      PROVE  Goal
  BY <1>10 DEF AdapterCreated
<1>11. ASSUME NEW p \in Phone, RetryFires(p)
      PROVE  Goal
  BY <1>11 DEF RetryFires
<1>12. ASSUME NEW p \in Phone, Delivered(p)
      PROVE  Goal
  BY <1>12 DEF Delivered, hookVars
<1>13. ASSUME NEW p \in Phone, NEW ok \in BOOLEAN, SendSettles(p, ok)
      PROVE  Goal
  BY <1>13 DEF SendSettles
<1>14. ASSUME LinkUp
      PROVE  Goal
  BY <1>14 DEF LinkUp, hookVars
<1>15. ASSUME LinkDown
      PROVE  Goal
  BY <1>15 DEF LinkDown, hookVars
<1>16. CASE UNCHANGED vars
  BY <1>16 DEF vars, hookVars
<1> QED
  BY <1>1, <1>2, <1>3, <1>4, <1>5, <1>6, <1>7, <1>8, <1>9, <1>10, <1>11, <1>12, <1>13, <1>14, <1>15, <1>16 DEF Next, Handle, Settle

\* A peer becomes announced by a send that went well.
LEMMA AnnouncedMoves ==
  ASSUME AnnounceTypeOK, NEW q \in Phone, announced'[q], [Next]_vars
  PROVE  announced[q] \/ (sends[q] # <<>> /\ Head(sends[q]))
<1>1. ASSUME NEW p \in Phone, Mount(p)
      PROVE  announced[q] \/ (sends[q] # <<>> /\ Head(sends[q]))
  BY <1>1 DEF Mount
<1>2. ASSUME NEW p \in Phone, ToggleVoiceMode(p)
      PROVE  announced[q] \/ (sends[q] # <<>> /\ Head(sends[q]))
  BY <1>2 DEF ToggleVoiceMode
<1>3. ASSUME NEW p \in Phone, PttReconciles(p)
      PROVE  announced[q] \/ (sends[q] # <<>> /\ Head(sends[q]))
  BY <1>3 DEF PttReconciles, hookVars
<1>4. ASSUME NEW p \in Phone, Unheard(p)
      PROVE  announced[q] \/ (sends[q] # <<>> /\ Head(sends[q]))
  BY <1>4 DEF Unheard, hookVars
<1>5. ASSUME NEW p \in Phone, OnConnected(p)
      PROVE  announced[q] \/ (sends[q] # <<>> /\ Head(sends[q]))
  BY <1>5 DEF OnConnected, AnnounceTypeOK
<1>6. ASSUME NEW p \in Phone, OnDisconnected(p)
      PROVE  announced[q] \/ (sends[q] # <<>> /\ Head(sends[q]))
  BY <1>6 DEF OnDisconnected, AnnounceTypeOK
<1>7. ASSUME NEW p \in Phone, OnAnnounce(p)
      PROVE  announced[q] \/ (sends[q] # <<>> /\ Head(sends[q]))
  BY <1>7 DEF OnAnnounce
<1>8. ASSUME NEW p \in Phone, OnVoicePeer(p)
      PROVE  announced[q] \/ (sends[q] # <<>> /\ Head(sends[q]))
  BY <1>8 DEF OnVoicePeer
<1>9. ASSUME NEW p \in Phone, OnList(p)
      PROVE  announced[q] \/ (sends[q] # <<>> /\ Head(sends[q]))
  <2>1. Head(events[p]).link \in 0 .. MaxEvents /\ mapped[p] \in 0 .. MaxEvents
    BY <1>9, HeadEvent DEF OnList, Takes, AnnounceTypeOK
  <2>2. CASE adapter[p]
    <3>1. Apply(p, Head(events[p]).link # 0, mapped[p])
      BY <1>9, <2>2 DEF OnList
    <3> QED BY <2>1, <3>1, ApplyEffect
  <2>3. CASE ~adapter[p]
    BY <1>9, <2>3 DEF OnList
  <2> QED BY <2>2, <2>3
<1>10. ASSUME NEW p \in Phone, AdapterCreated(p)
      PROVE  announced[q] \/ (sends[q] # <<>> /\ Head(sends[q]))
  <2>1. Head(creations[p]) \in BOOLEAN /\ 0 \in 0 .. MaxEvents
    BY <1>10, AnnounceBounds, TailAt DEF AdapterCreated, AnnounceTypeOK, AnnounceBounds
  <2>2. Apply(p, Head(creations[p]), 0)
    BY <1>10 DEF AdapterCreated
  <2> QED BY <2>1, <2>2, ApplyEffect
<1>11. ASSUME NEW p \in Phone, RetryFires(p)
      PROVE  announced[q] \/ (sends[q] # <<>> /\ Head(sends[q]))
  BY <1>11 DEF RetryFires
<1>12. ASSUME NEW p \in Phone, Delivered(p)
      PROVE  announced[q] \/ (sends[q] # <<>> /\ Head(sends[q]))
  BY <1>12 DEF Delivered, hookVars
<1>13. ASSUME NEW p \in Phone, NEW ok \in BOOLEAN, SendSettles(p, ok)
      PROVE  announced[q] \/ (sends[q] # <<>> /\ Head(sends[q]))
  BY <1>13 DEF SendSettles, AnnounceTypeOK
<1>14. ASSUME LinkUp
      PROVE  announced[q] \/ (sends[q] # <<>> /\ Head(sends[q]))
  BY <1>14 DEF LinkUp, hookVars
<1>15. ASSUME LinkDown
      PROVE  announced[q] \/ (sends[q] # <<>> /\ Head(sends[q]))
  BY <1>15 DEF LinkDown, hookVars
<1>16. CASE UNCHANGED vars
  BY <1>16 DEF vars, hookVars
<1> QED
  BY <1>1, <1>2, <1>3, <1>4, <1>5, <1>6, <1>7, <1>8, <1>9, <1>10, <1>11, <1>12, <1>13, <1>14, <1>15, <1>16 DEF Next, Handle, Settle

\* The other phone hears an ANNOUNCE on the present link.
LEMMA HeardMoves ==
  ASSUME AnnounceTypeOK, NEW q \in Phone, [Next]_vars
  PROVE  heard'[q] = heard[q] \/ (heard'[q] = link /\ link # 0 /\ link' = link)
<1> DEFINE Goal ==
         heard'[q] = heard[q] \/ (heard'[q] = link /\ link # 0 /\ link' = link)
<1>1. ASSUME NEW p \in Phone, Mount(p)
      PROVE  Goal
  BY <1>1 DEF Mount
<1>2. ASSUME NEW p \in Phone, ToggleVoiceMode(p)
      PROVE  Goal
  BY <1>2 DEF ToggleVoiceMode
<1>3. ASSUME NEW p \in Phone, PttReconciles(p)
      PROVE  Goal
  BY <1>3 DEF PttReconciles, hookVars
<1>4. ASSUME NEW p \in Phone, Unheard(p)
      PROVE  Goal
  BY <1>4 DEF Unheard, hookVars
<1>5. ASSUME NEW p \in Phone, OnConnected(p)
      PROVE  Goal
  BY <1>5 DEF OnConnected, Takes
<1>6. ASSUME NEW p \in Phone, OnDisconnected(p)
      PROVE  Goal
  BY <1>6 DEF OnDisconnected, Takes
<1>7. ASSUME NEW p \in Phone, OnAnnounce(p)
      PROVE  Goal
  BY <1>7 DEF OnAnnounce, Takes
<1>8. ASSUME NEW p \in Phone, OnVoicePeer(p)
      PROVE  Goal
  BY <1>8 DEF OnVoicePeer, Takes
<1>9. ASSUME NEW p \in Phone, OnList(p)
      PROVE  Goal
  BY <1>9 DEF OnList, Takes
<1>10. ASSUME NEW p \in Phone, AdapterCreated(p)
      PROVE  Goal
  BY <1>10 DEF AdapterCreated
<1>11. ASSUME NEW p \in Phone, RetryFires(p)
      PROVE  Goal
  BY <1>11 DEF RetryFires
<1>12. ASSUME NEW p \in Phone, Delivered(p)
      PROVE  Goal
  BY <1>12 DEF Delivered, AnnounceTypeOK
<1>13. ASSUME NEW p \in Phone, NEW ok \in BOOLEAN, SendSettles(p, ok)
      PROVE  Goal
  BY <1>13 DEF SendSettles
<1>14. ASSUME LinkUp
      PROVE  Goal
  BY <1>14 DEF LinkUp, hookVars
<1>15. ASSUME LinkDown
      PROVE  Goal
  BY <1>15 DEF LinkDown, hookVars
<1>16. CASE UNCHANGED vars
  BY <1>16 DEF vars, hookVars
<1> QED
  BY <1>1, <1>2, <1>3, <1>4, <1>5, <1>6, <1>7, <1>8, <1>9, <1>10, <1>11, <1>12, <1>13, <1>14, <1>15, <1>16 DEF Next, Handle, Settle

-----------------------------------------------------------------------------
(* The invariants step by step.                                            *)

LEMMA RouteStep ==
  ASSUME RouteInv, [Next]_vars
  PROVE  RouteIsOfThisLink'
<1> SUFFICES ASSUME NEW q \in Phone, mapped'[q] # 0, Informed(q)'
             PROVE  mapped'[q] = link'
  BY DEF RouteIsOfThisLink
<1> USE DEF RouteInv
<1>1. link' = link /\ (Informed(q) \/ OnConnected(q) \/ OnDisconnected(q) \/ Unheard(q))
  BY LearnsStep
<1>2. mapped'[q] = mapped[q] \/ (OnAnnounce(q) /\ mapped'[q] = Head(events[q]).link)
  BY MappedMoves
<1>3. CASE OnAnnounce(q) /\ mapped'[q] = Head(events[q]).link
  <2>1. /\ events[q] # <<>> /\ Head(events[q]).type = "announce"
        /\ events'[q] = Tail(events[q])
    BY <1>3 DEF OnAnnounce, Takes, Handled, AnnounceTypeOK
  <2>2. Quiet(events'[q]) /\ Current(events[q])
    BY DEF Informed, Quiet, Conn, EventsAreCurrent
  <2>3. Holds(Head(events[q]))
    BY <2>1, <2>2, TakenHolds
  <2> QED BY <1>1, <1>3, <2>1, <2>3 DEF Holds
<1>4. CASE mapped'[q] = mapped[q]
  <2>1. CASE Informed(q)
    BY <1>1, <1>4, <2>1 DEF RouteIsOfThisLink
  <2>2. ~OnConnected(q) /\ ~OnDisconnected(q)
    BY DEF OnConnected, OnDisconnected, AnnounceTypeOK
  <2>3. ~Unheard(q)
    BY <1>4 DEF Unheard, UnmountedIsBlank
  <2> QED BY <1>1, <2>1, <2>2, <2>3
<1> QED BY <1>2, <1>3, <1>4

LEMMA ConnectedStep ==
  ASSUME RouteInv, [Next]_vars
  PROVE  ConnectedIsLinked'
<1> SUFFICES ASSUME NEW q \in Phone, connected'[q], Informed(q)'
             PROVE  link' # 0
  BY DEF ConnectedIsLinked
<1> USE DEF RouteInv
<1>1. link' = link /\ (Informed(q) \/ OnConnected(q) \/ OnDisconnected(q) \/ Unheard(q))
  BY LearnsStep
<1>2. connected[q] \/ OnConnected(q)
      \/ ((OnList(q) \/ OnVoicePeer(q)) /\ Head(events[q]).link # 0)
  BY ConnectedMoves
<1>3. Quiet(events'[q]) /\ Current(events[q])
  BY DEF Informed, Quiet, Conn, EventsAreCurrent
<1>4. CASE OnConnected(q)
  <2>1. /\ events[q] # <<>> /\ Head(events[q]).type = "connected"
        /\ events'[q] = Tail(events[q])
    BY <1>4 DEF OnConnected, Takes, Handled, AnnounceTypeOK
  <2> QED BY <1>1, <1>3, <2>1, TakenHolds DEF Holds
<1>5. CASE (OnList(q) \/ OnVoicePeer(q)) /\ Head(events[q]).link # 0
  <2>1. /\ events[q] # <<>> /\ Head(events[q]).type # "disconnected"
        /\ \/ events'[q] = Tail(events[q])
           \/ events'[q] = Append(Tail(events[q]), [type |-> "list", link |-> link])
    BY <1>5 DEF OnList, OnVoicePeer, Takes, Handled, WithList, AnnounceTypeOK
  <2>2. Holds(Head(events[q]))
    BY <1>3, <2>1, TakenHolds, ListEvent
  <2> QED BY <1>1, <1>5, <2>1, <2>2 DEF Holds
<1>6. CASE connected[q] /\ ~OnConnected(q)
  <2>1. CASE Informed(q)
    BY <1>1, <1>6, <2>1 DEF ConnectedIsLinked
  <2>2. ~OnDisconnected(q)
    BY DEF OnDisconnected, AnnounceTypeOK
  <2>3. ~Unheard(q)
    BY <1>6 DEF Unheard, UnmountedIsBlank
  <2> QED BY <1>1, <1>6, <2>1, <2>2, <2>3
<1> QED BY <1>2, <1>4, <1>5, <1>6

LEMMA AnnouncedStep ==
  ASSUME RouteInv, [Next]_vars
  PROVE  AnnouncedIsHeard'
<1> SUFFICES ASSUME NEW q \in Phone, announced'[q], Informed(q)', link' # 0
             PROVE  heard'[q] = link'
  BY DEF AnnouncedIsHeard
<1> USE DEF RouteInv
<1>1. link' = link /\ (Informed(q) \/ OnConnected(q) \/ OnDisconnected(q) \/ Unheard(q))
  BY LearnsStep
<1>2. announced[q] \/ (sends[q] # <<>> /\ Head(sends[q]))
  BY AnnouncedMoves
<1>3. heard'[q] = heard[q] \/ heard'[q] = link
  BY HeardMoves
<1>4. ~OnConnected(q) /\ ~OnDisconnected(q)
  BY DEF OnConnected, OnDisconnected, AnnounceTypeOK
<1>5. ~Unheard(q)
  BY DEF Unheard, UnmountedIsBlank, hookVars
<1>6. CASE sends[q] # <<>> /\ Head(sends[q])
  <2>1. sends[q] \in Seq(BOOLEAN)
    BY DEF AnnounceTypeOK
  <2>2. sends[q][1]
    BY <1>6, <2>1, TailAt
  <2> QED BY <1>1, <1>3, <1>6, <2>2 DEF AirIsHeard
<1>7. CASE announced[q]
  BY <1>1, <1>3, <1>4, <1>5, <1>7 DEF AnnouncedIsHeard
<1> QED BY <1>2, <1>6, <1>7

\* A send joins the end of the line, goes on the air or leaves.
LEMMA SendsMove ==
  ASSUME AnnounceTypeOK, [Next]_vars
  PROVE  /\ sends' \in [Phone -> Seq(BOOLEAN)]
         /\ \A q \in Phone :
              SendsGrow(q)
              \/ (sends[q] # <<>> /\ sends'[q] = Tail(sends[q]))
              \/ (sends[q] # <<>> /\ link # 0 /\ heard'[q] = link /\ sends'[q] = [sends[q] EXCEPT ![1] = TRUE])
<1> DEFINE Goal ==
         /\ sends' \in [Phone -> Seq(BOOLEAN)]
         /\ \A q \in Phone :
              SendsGrow(q)
              \/ (sends[q] # <<>> /\ sends'[q] = Tail(sends[q]))
              \/ (sends[q] # <<>> /\ link # 0 /\ heard'[q] = link /\ sends'[q] = [sends[q] EXCEPT ![1] = TRUE])
<1>1. ASSUME NEW p \in Phone, Mount(p)
      PROVE  Goal
  BY <1>1 DEF Mount, SendsGrow, AnnounceTypeOK
<1>2. ASSUME NEW p \in Phone, ToggleVoiceMode(p)
      PROVE  Goal
  BY <1>2 DEF ToggleVoiceMode, SendsGrow, AnnounceTypeOK
<1>3. ASSUME NEW p \in Phone, PttReconciles(p)
      PROVE  Goal
  BY <1>3 DEF PttReconciles, SendsGrow, AnnounceTypeOK, hookVars
<1>4. ASSUME NEW p \in Phone, Unheard(p)
      PROVE  Goal
  BY <1>4 DEF Unheard, SendsGrow, AnnounceTypeOK, hookVars
<1>5. ASSUME NEW p \in Phone, OnConnected(p)
      PROVE  Goal
  <2>1. Schedule(p, FALSE, 0, FALSE)
    BY <1>5 DEF OnConnected
  <2>2. 0 \in 0 .. Retries
    BY AnnounceBounds DEF AnnounceBounds
  <2>3. FALSE \in BOOLEAN
    OBVIOUS
  <2> QED BY <2>1, <2>2, <2>3, ScheduleEffect DEF SendsGrow
<1>6. ASSUME NEW p \in Phone, OnDisconnected(p)
      PROVE  Goal
  BY <1>6 DEF OnDisconnected, SendsGrow, AnnounceTypeOK
<1>7. ASSUME NEW p \in Phone, OnAnnounce(p)
      PROVE  Goal
  <2>1. sends' = sends \/ Schedule(p, announced[p], timer[p], TRUE)
    BY <1>7 DEF OnAnnounce
  <2>2. announced[p] \in BOOLEAN /\ timer[p] \in 0 .. Retries
    BY DEF AnnounceTypeOK
  <2>3. CASE sends' = sends
    BY <2>3 DEF SendsGrow, AnnounceTypeOK
  <2>4. CASE Schedule(p, announced[p], timer[p], TRUE)
    BY <2>2, <2>4, ScheduleEffect DEF SendsGrow
  <2> QED BY <2>1, <2>3, <2>4
<1>8. ASSUME NEW p \in Phone, OnVoicePeer(p)
      PROVE  Goal
  BY <1>8 DEF OnVoicePeer, SendsGrow, AnnounceTypeOK
<1>9. ASSUME NEW p \in Phone, OnList(p)
      PROVE  Goal
  <2>1. Head(events[p]).link \in 0 .. MaxEvents /\ mapped[p] \in 0 .. MaxEvents
    BY <1>9, HeadEvent DEF OnList, Takes, AnnounceTypeOK
  <2>2. CASE adapter[p]
    <3>1. Apply(p, Head(events[p]).link # 0, mapped[p])
      BY <1>9, <2>2 DEF OnList
    <3> QED BY <2>1, <3>1, ApplyEffect DEF SendsGrow
  <2>3. CASE ~adapter[p]
    BY <1>9, <2>3 DEF OnList, SendsGrow, AnnounceTypeOK
  <2> QED BY <2>2, <2>3
<1>10. ASSUME NEW p \in Phone, AdapterCreated(p)
      PROVE  Goal
  <2>1. Head(creations[p]) \in BOOLEAN /\ 0 \in 0 .. MaxEvents
    BY <1>10, AnnounceBounds, TailAt DEF AdapterCreated, AnnounceTypeOK, AnnounceBounds
  <2>2. Apply(p, Head(creations[p]), 0)
    BY <1>10 DEF AdapterCreated
  <2> QED BY <2>1, <2>2, ApplyEffect DEF SendsGrow
<1>11. ASSUME NEW p \in Phone, RetryFires(p)
      PROVE  Goal
  <2>1. sends' = sends \/ sends' = [sends EXCEPT ![p] = Append(@, FALSE)]
    BY <1>11 DEF RetryFires, SendAnnounce
  <2>2. sends[p] \in Seq(BOOLEAN) /\ sends \in [Phone -> Seq(BOOLEAN)]
    BY DEF AnnounceTypeOK
  <2>3. Append(sends[p], FALSE) \in Seq(BOOLEAN)
    BY <2>2, AppendAt
  <2> QED BY <2>1, <2>2, <2>3 DEF SendsGrow
<1>12. ASSUME NEW p \in Phone, Delivered(p)
      PROVE  Goal
  <2>1. /\ sends[p] # <<>> /\ link # 0 /\ heard'[p] = link
        /\ sends' = [sends EXCEPT ![p] = [sends[p] EXCEPT ![1] = TRUE]]
    BY <1>12 DEF Delivered, AnnounceTypeOK
  <2>2. sends[p] \in Seq(BOOLEAN) /\ sends \in [Phone -> Seq(BOOLEAN)]
    BY DEF AnnounceTypeOK
  <2>3. [sends[p] EXCEPT ![1] = TRUE] \in Seq(BOOLEAN)
    BY <2>1, <2>2
  <2> QED BY <2>1, <2>2, <2>3 DEF SendsGrow
<1>13. ASSUME NEW p \in Phone, NEW ok \in BOOLEAN, SendSettles(p, ok)
      PROVE  Goal
  <2>1. sends[p] # <<>> /\ sends' = [sends EXCEPT ![p] = Tail(sends[p])]
    BY <1>13 DEF SendSettles, AnnounceTypeOK
  <2>2. sends[p] \in Seq(BOOLEAN) /\ sends \in [Phone -> Seq(BOOLEAN)]
    BY DEF AnnounceTypeOK
  <2>3. Tail(sends[p]) \in Seq(BOOLEAN)
    BY <2>1, <2>2, TailAt
  <2> QED BY <2>1, <2>2, <2>3 DEF SendsGrow
<1>14. ASSUME LinkUp
      PROVE  Goal
  BY <1>14 DEF LinkUp, SendsGrow, AnnounceTypeOK, hookVars
<1>15. ASSUME LinkDown
      PROVE  Goal
  BY <1>15 DEF LinkDown, SendsGrow, AnnounceTypeOK, hookVars
<1>16. CASE UNCHANGED vars
  BY <1>16 DEF vars, hookVars, SendsGrow, AnnounceTypeOK
<1> QED
  BY <1>1, <1>2, <1>3, <1>4, <1>5, <1>6, <1>7, <1>8, <1>9, <1>10, <1>11, <1>12, <1>13, <1>14, <1>15, <1>16 DEF Next, Handle, Settle

LEMMA AirStep ==
  ASSUME RouteInv, [Next]_vars
  PROVE  AirIsHeard'
<1> USE DEF RouteInv
<1> SUFFICES ASSUME NEW q \in Phone
             PROVE  /\ \A i \in DOMAIN sends'[q] : sends'[q][i] => i = 1
                    /\ sends'[q] # <<>> /\ sends'[q][1] /\ link' # 0 => heard'[q] = link'
  BY DEF AirIsHeard
<1>1. /\ sends[q] \in Seq(BOOLEAN)
      /\ \A i \in DOMAIN sends[q] : sends[q][i] => i = 1
      /\ sends[q] # <<>> /\ sends[q][1] /\ link # 0 => heard[q] = link
  BY DEF AirIsHeard, AnnounceTypeOK
<1>2. CASE sends'[q] = sends[q]
  <2>1. heard'[q] = heard[q] \/ (heard'[q] = link /\ link # 0 /\ link' = link)
    BY HeardMoves
  <2>2. CASE LinkUp \/ LinkDown
    BY <1>1, <1>2, <2>2 DEF LinkUp, LinkDown
  <2>3. CASE ~LinkUp /\ ~LinkDown
    BY <1>1, <1>2, <2>1, <2>3, EventsMove
  <2> QED BY <2>2, <2>3
<1>3. CASE sends'[q] # sends[q]
  <2>1. link' = link
    <3>1. ~LinkUp /\ ~LinkDown
      BY <1>3 DEF LinkUp, LinkDown
    <3> QED BY <3>1, EventsMove
  <2>2. heard'[q] = heard[q] \/ heard'[q] = link
    BY HeardMoves
  <2>3. \/ sends'[q] = Append(sends[q], FALSE)
        \/ (sends[q] # <<>> /\ sends'[q] = Tail(sends[q]))
        \/ (sends[q] # <<>> /\ link # 0 /\ heard'[q] = link /\ sends'[q] = [sends[q] EXCEPT ![1] = TRUE])
    BY <1>3, SendsMove DEF SendsGrow
  <2>4. CASE sends'[q] = Append(sends[q], FALSE)
    <3>1. /\ DOMAIN sends[q] = 1 .. Len(sends[q]) /\ Len(sends[q]) \in Nat
          /\ DOMAIN sends'[q] = 1 .. Len(sends[q]) + 1
          /\ \A i \in DOMAIN sends[q] : sends'[q][i] = sends[q][i]
          /\ sends'[q][Len(sends[q]) + 1] = FALSE
      <4>1. PICK e \in BOOLEAN : e = FALSE
        OBVIOUS
      <4>2. /\ DOMAIN sends[q] = 1 .. Len(sends[q]) /\ Len(sends[q]) \in Nat
            /\ DOMAIN Append(sends[q], e) = 1 .. Len(sends[q]) + 1
            /\ \A i \in DOMAIN sends[q] : Append(sends[q], e)[i] = sends[q][i]
            /\ Append(sends[q], e)[Len(sends[q]) + 1] = e
        BY <1>1, AppendAt
      <4> QED BY <2>4, <4>1, <4>2
    <3>2. \A i \in DOMAIN sends'[q] : sends'[q][i] => i = 1 /\ i \in DOMAIN sends[q] /\ sends[q][1]
      BY <1>1, <3>1
    <3>3. 1 \in DOMAIN sends'[q]
      BY <3>1
    <3>4. 1 \in DOMAIN sends[q] => sends[q] # <<>>
      OBVIOUS
    <3> QED BY <1>1, <2>1, <2>2, <3>2, <3>3, <3>4
  <2>5. CASE sends[q] # <<>> /\ sends'[q] = Tail(sends[q])
    <3>1. \A i \in DOMAIN sends'[q] : i \in Nat /\ i + 1 \in DOMAIN sends[q] /\ sends'[q][i] = sends[q][i + 1]
      BY <1>1, <2>5, TailAt
    <3>2. \A i \in DOMAIN sends'[q] : i > 0
      BY <1>1, <2>5
    <3>3. \A i \in DOMAIN sends'[q] : ~sends'[q][i]
      BY <1>1, <3>1, <3>2
    <3>4. sends'[q] # <<>> => 1 \in DOMAIN sends'[q]
      BY <1>1, <2>5
    <3> QED BY <3>3, <3>4
  <2>6. CASE sends[q] # <<>> /\ link # 0 /\ heard'[q] = link /\ sends'[q] = [sends[q] EXCEPT ![1] = TRUE]
    <3>1. DOMAIN sends'[q] = DOMAIN sends[q] /\ \A i \in DOMAIN sends[q] : i # 1 => sends'[q][i] = sends[q][i]
      BY <2>6
    <3> QED BY <1>1, <2>1, <2>6, <3>1
  <2> QED BY <2>3, <2>4, <2>5, <2>6
<1> QED BY <1>2, <1>3

\* A step leaves the hook of one phone, which is mounted, to do as it likes.
LEMMA OnePhoneActs ==
  ASSUME AnnounceTypeOK, UnmountedIsBlank, hookVars' # hookVars \/ sends' # sends, [Next]_vars
  PROVE  mounted' \in [Phone -> BOOLEAN]
         /\ \E r \in Phone :
              /\ mounted'[r]
              /\ \A q \in Phone : q # r =>
                   /\ mounted'[q] = mounted[q] /\ connected'[q] = connected[q]
                   /\ announced'[q] = announced[q] /\ enabled'[q] = enabled[q]
                   /\ mapped'[q] = mapped[q] /\ timer'[q] = timer[q]
                   /\ creations'[q] = creations[q] /\ sends'[q] = sends[q]
<1> DEFINE Goal ==
         mounted' \in [Phone -> BOOLEAN]
         /\ \E r \in Phone :
              /\ mounted'[r]
              /\ \A q \in Phone : q # r =>
                   /\ mounted'[q] = mounted[q] /\ connected'[q] = connected[q]
                   /\ announced'[q] = announced[q] /\ enabled'[q] = enabled[q]
                   /\ mapped'[q] = mapped[q] /\ timer'[q] = timer[q]
                   /\ creations'[q] = creations[q] /\ sends'[q] = sends[q]
<1>1. ASSUME NEW p \in Phone, Mount(p)
      PROVE  Goal
  BY <1>1 DEF Mount, AnnounceTypeOK
<1>2. ASSUME NEW p \in Phone, ToggleVoiceMode(p)
      PROVE  Goal
  BY <1>2 DEF ToggleVoiceMode, AnnounceTypeOK
<1>3. ASSUME NEW p \in Phone, PttReconciles(p)
      PROVE  Goal
  BY <1>3 DEF PttReconciles, Idle, hookVars, UnmountedIsBlank, AnnounceTypeOK
<1>4. ASSUME NEW p \in Phone, OnConnected(p)
      PROVE  Goal
  <2>1. mounted[p] /\ mounted' = mounted
    BY <1>4 DEF OnConnected, Takes
  <2>2. \A q \in Phone : q # p => sends'[q] = sends[q] /\ timer'[q] = timer[q]
    <3>1. Schedule(p, FALSE, 0, FALSE)
      BY <1>4 DEF OnConnected
    <3>2. 0 \in 0 .. Retries
      BY AnnounceBounds DEF AnnounceBounds
    <3>3. FALSE \in BOOLEAN
      OBVIOUS
    <3> QED BY <3>1, <3>2, <3>3, ScheduleEffect
  <2>3. \A q \in Phone : q # p => /\ connected'[q] = connected[q] /\ announced'[q] = announced[q]
                                 /\ enabled'[q] = enabled[q] /\ mapped'[q] = mapped[q]
                                 /\ creations'[q] = creations[q]
    BY <1>4 DEF OnConnected, VoiceOff, AnnounceTypeOK
  <2> QED BY <2>1, <2>2, <2>3 DEF AnnounceTypeOK
<1>5. ASSUME NEW p \in Phone, OnDisconnected(p)
      PROVE  Goal
  BY <1>5 DEF OnDisconnected, Takes, VoiceOff, AnnounceTypeOK
<1>6. ASSUME NEW p \in Phone, OnAnnounce(p)
      PROVE  Goal
  <2>1. mounted[p] /\ mounted' = mounted
    BY <1>6 DEF OnAnnounce, Takes
  <2>2. \A q \in Phone : q # p => sends'[q] = sends[q] /\ timer'[q] = timer[q]
    <3>1. (sends' = sends /\ timer' = timer) \/ Schedule(p, announced[p], timer[p], TRUE)
      BY <1>6 DEF OnAnnounce
    <3>2. announced[p] \in BOOLEAN /\ timer[p] \in 0 .. Retries /\ TRUE \in BOOLEAN
      BY DEF AnnounceTypeOK
    <3>3. CASE Schedule(p, announced[p], timer[p], TRUE)
      BY <3>2, <3>3, ScheduleEffect
    <3> QED BY <3>1, <3>3
  <2>3. \A q \in Phone : q # p => /\ connected'[q] = connected[q] /\ announced'[q] = announced[q]
                                 /\ enabled'[q] = enabled[q] /\ mapped'[q] = mapped[q]
                                 /\ creations'[q] = creations[q]
    BY <1>6 DEF OnAnnounce, VoiceOff, AnnounceTypeOK
  <2> QED BY <2>1, <2>2, <2>3 DEF AnnounceTypeOK
<1>7. ASSUME NEW p \in Phone, OnVoicePeer(p)
      PROVE  Goal
  BY <1>7 DEF OnVoicePeer, Takes, AnnounceTypeOK
<1>8. ASSUME NEW p \in Phone, OnList(p)
      PROVE  Goal
  <2>1. mounted[p] /\ mounted' = mounted
    BY <1>8 DEF OnList, Takes
  <2>2. \A q \in Phone : q # p => /\ sends'[q] = sends[q] /\ timer'[q] = timer[q]
                                 /\ announced'[q] = announced[q] /\ mapped'[q] = mapped[q]
    <3>1. Head(events[p]).link \in 0 .. MaxEvents /\ mapped[p] \in 0 .. MaxEvents
      BY <1>8, HeadEvent DEF OnList, Takes, AnnounceTypeOK
    <3>2. CASE adapter[p]
      <4>1. Apply(p, Head(events[p]).link # 0, mapped[p])
        BY <1>8, <3>2 DEF OnList
      <4> QED BY <3>1, <4>1, ApplyEffect
    <3>3. CASE ~adapter[p]
      BY <1>8, <3>3 DEF OnList
    <3> QED BY <3>2, <3>3
  <2>3. \A q \in Phone : q # p => /\ connected'[q] = connected[q] /\ enabled'[q] = enabled[q]
                                 /\ creations'[q] = creations[q]
    BY <1>8 DEF OnList, AnnounceTypeOK
  <2> QED BY <2>1, <2>2, <2>3 DEF AnnounceTypeOK
<1>9. ASSUME NEW p \in Phone, AdapterCreated(p)
      PROVE  Goal
  <2>1. mounted[p] /\ mounted' = mounted
    BY <1>9 DEF AdapterCreated, UnmountedIsBlank
  <2>2. \A q \in Phone : q # p => /\ sends'[q] = sends[q] /\ timer'[q] = timer[q]
                                 /\ announced'[q] = announced[q] /\ mapped'[q] = mapped[q]
    <3>1. Head(creations[p]) \in BOOLEAN /\ 0 \in 0 .. MaxEvents
      BY <1>9, AnnounceBounds, TailAt DEF AdapterCreated, AnnounceTypeOK, AnnounceBounds
    <3>2. Apply(p, Head(creations[p]), 0)
      BY <1>9 DEF AdapterCreated
    <3> QED BY <3>1, <3>2, ApplyEffect
  <2>3. \A q \in Phone : q # p => /\ connected'[q] = connected[q] /\ enabled'[q] = enabled[q]
                                 /\ creations'[q] = creations[q]
    BY <1>9 DEF AdapterCreated, AnnounceTypeOK
  <2> QED BY <2>1, <2>2, <2>3 DEF AnnounceTypeOK
<1>10. ASSUME NEW p \in Phone, RetryFires(p)
      PROVE  Goal
  <2>1. mounted[p] /\ mounted' = mounted
    BY <1>10 DEF RetryFires, UnmountedIsBlank, AnnounceTypeOK
  <2>2. \A q \in Phone : q # p => sends'[q] = sends[q] /\ timer'[q] = timer[q]
    BY <1>10 DEF RetryFires, SendAnnounce, AnnounceTypeOK
  <2> QED BY <1>10, <2>1, <2>2 DEF RetryFires, AnnounceTypeOK
<1>11. ASSUME NEW p \in Phone, Delivered(p)
      PROVE  Goal
  BY <1>11 DEF Delivered, hookVars, UnmountedIsBlank, AnnounceTypeOK
<1>12. ASSUME NEW p \in Phone, NEW ok \in BOOLEAN, SendSettles(p, ok)
      PROVE  Goal
  BY <1>12 DEF SendSettles, UnmountedIsBlank, AnnounceTypeOK
<1>13. CASE UNCHANGED vars
  BY <1>13 DEF vars
<1> QED
  BY <1>1, <1>2, <1>3, <1>4, <1>5, <1>6, <1>7, <1>8, <1>9, <1>10, <1>11, <1>12, <1>13 DEF Next, Handle, Settle, Unheard, LinkUp, LinkDown

LEMMA BlankStep ==
  ASSUME RouteInv, [Next]_vars
  PROVE  UnmountedIsBlank'
<1> USE DEF RouteInv
<1>1. CASE hookVars' = hookVars /\ sends' = sends
  BY <1>1 DEF UnmountedIsBlank, hookVars
<1>2. CASE hookVars' # hookVars \/ sends' # sends
  <2>1. PICK p \in Phone :
          /\ mounted'[p]
          /\ \A q \in Phone : q # p =>
               /\ mounted'[q] = mounted[q] /\ connected'[q] = connected[q]
               /\ announced'[q] = announced[q] /\ enabled'[q] = enabled[q]
               /\ mapped'[q] = mapped[q] /\ timer'[q] = timer[q]
               /\ creations'[q] = creations[q] /\ sends'[q] = sends[q]
    BY <1>2, OnePhoneActs
  <2> QED BY <2>1 DEF UnmountedIsBlank
<1> QED BY <1>1, <1>2

\* The counters stay within their bound.
LEMMA CountersType ==
  ASSUME AnnounceTypeOK, [Next]_vars
  PROVE  /\ links' \in 0 .. MaxEvents /\ failures' \in 0 .. MaxEvents /\ toggles' \in 0 .. MaxEvents
         /\ early' \in BOOLEAN /\ heard' \in [Phone -> 0 .. MaxEvents]
<1> DEFINE Goal ==
         /\ links' \in 0 .. MaxEvents /\ failures' \in 0 .. MaxEvents /\ toggles' \in 0 .. MaxEvents
         /\ early' \in BOOLEAN /\ heard' \in [Phone -> 0 .. MaxEvents]
<1>1. ASSUME NEW p \in Phone, Mount(p)
      PROVE  Goal
  BY <1>1 DEF Mount, Takes, AnnounceTypeOK
<1>2. ASSUME NEW p \in Phone, ToggleVoiceMode(p)
      PROVE  Goal
  BY <1>2, AnnounceBounds DEF ToggleVoiceMode, MayHappen, AnnounceTypeOK, AnnounceBounds
<1>3. ASSUME NEW p \in Phone, PttReconciles(p)
      PROVE  Goal
  BY <1>3 DEF PttReconciles, AnnounceTypeOK
<1>4. ASSUME NEW p \in Phone, Unheard(p)
      PROVE  Goal
  BY <1>4 DEF Unheard, AnnounceTypeOK
<1>5. ASSUME NEW p \in Phone, OnConnected(p)
      PROVE  Goal
  BY <1>5 DEF OnConnected, Takes, AnnounceTypeOK
<1>6. ASSUME NEW p \in Phone, OnDisconnected(p)
      PROVE  Goal
  BY <1>6 DEF OnDisconnected, Takes, AnnounceTypeOK
<1>7. ASSUME NEW p \in Phone, OnAnnounce(p)
      PROVE  Goal
  BY <1>7 DEF OnAnnounce, Takes, AnnounceTypeOK
<1>8. ASSUME NEW p \in Phone, OnVoicePeer(p)
      PROVE  Goal
  BY <1>8 DEF OnVoicePeer, Takes, AnnounceTypeOK
<1>9. ASSUME NEW p \in Phone, OnList(p)
      PROVE  Goal
  BY <1>9 DEF OnList, Takes, AnnounceTypeOK
<1>10. ASSUME NEW p \in Phone, AdapterCreated(p)
      PROVE  Goal
  BY <1>10 DEF AdapterCreated, Takes, AnnounceTypeOK
<1>11. ASSUME NEW p \in Phone, RetryFires(p)
      PROVE  Goal
  BY <1>11 DEF RetryFires, Takes, AnnounceTypeOK
<1>12. ASSUME NEW p \in Phone, Delivered(p)
      PROVE  Goal
  BY <1>12, OtherPhone DEF Delivered, AnnounceTypeOK
<1>13. ASSUME NEW p \in Phone, NEW ok \in BOOLEAN, SendSettles(p, ok)
      PROVE  Goal
  <2>1. failures' = failures \/ (MayHappen /\ failures' = failures + 1)
    BY <1>13 DEF SendSettles
  <2>2. failures' \in 0 .. MaxEvents
    BY <2>1, AnnounceBounds DEF MayHappen, AnnounceTypeOK, AnnounceBounds
  <2> QED BY <1>13, <2>2 DEF SendSettles, AnnounceTypeOK
<1>14. ASSUME LinkUp
      PROVE  Goal
  <2>1. links' \in 0 .. MaxEvents
    BY <1>14, AnnounceBounds DEF LinkUp, MayHappen, AnnounceTypeOK, AnnounceBounds
  <2>2. early' \in BOOLEAN
    BY <1>14 DEF LinkUp
  <2> QED BY <1>14, <2>1, <2>2 DEF LinkUp, AnnounceTypeOK
<1>15. ASSUME LinkDown
      PROVE  Goal
  BY <1>15 DEF LinkDown, AnnounceTypeOK
<1>16. CASE UNCHANGED vars
  BY <1>16 DEF vars, hookVars, AnnounceTypeOK
<1> QED
  BY <1>1, <1>2, <1>3, <1>4, <1>5, <1>6, <1>7, <1>8, <1>9, <1>10, <1>11, <1>12, <1>13, <1>14, <1>15, <1>16 DEF Next, Handle, Settle

\* The flags of the hook are flags, and the storage reads a queue of them.
LEMMA FlagsType ==
  ASSUME AnnounceTypeOK, [Next]_vars
  PROVE  /\ mounted' \in [Phone -> BOOLEAN] /\ adapter' \in [Phone -> BOOLEAN]
         /\ connected' \in [Phone -> BOOLEAN] /\ enabled' \in [Phone -> BOOLEAN]
         /\ creations' \in [Phone -> Seq(BOOLEAN)]
<1> DEFINE Goal ==
         /\ mounted' \in [Phone -> BOOLEAN] /\ adapter' \in [Phone -> BOOLEAN]
         /\ connected' \in [Phone -> BOOLEAN] /\ enabled' \in [Phone -> BOOLEAN]
         /\ creations' \in [Phone -> Seq(BOOLEAN)]
<1>1. ASSUME NEW p \in Phone, Mount(p)
      PROVE  Goal
  BY <1>1 DEF Mount, AnnounceTypeOK
<1>2. ASSUME NEW p \in Phone, ToggleVoiceMode(p)
      PROVE  Goal
  BY <1>2 DEF ToggleVoiceMode, AnnounceTypeOK
<1>3. ASSUME NEW p \in Phone, PttReconciles(p)
      PROVE  Goal
  BY <1>3 DEF PttReconciles, AnnounceTypeOK, hookVars
<1>4. ASSUME NEW p \in Phone, Unheard(p)
      PROVE  Goal
  BY <1>4 DEF Unheard, AnnounceTypeOK, hookVars
<1>5. ASSUME NEW p \in Phone, OnConnected(p)
      PROVE  Goal
  BY <1>5 DEF OnConnected, AnnounceTypeOK, Takes
<1>6. ASSUME NEW p \in Phone, OnDisconnected(p)
      PROVE  Goal
  BY <1>6 DEF OnDisconnected, AnnounceTypeOK, Takes, VoiceOff
<1>7. ASSUME NEW p \in Phone, OnAnnounce(p)
      PROVE  Goal
  BY <1>7 DEF OnAnnounce, AnnounceTypeOK, Takes
<1>8. ASSUME NEW p \in Phone, OnVoicePeer(p)
      PROVE  Goal
  <2> DEFINE live == Head(events[p]).link # 0
  <2>1. /\ mounted' = mounted /\ adapter' = adapter /\ creations' = creations
        /\ connected' = [connected EXCEPT ![p] = connected[p] \/ live]
        /\ enabled' = [enabled EXCEPT ![p] = enabled[p] \/ live]
    BY <1>8 DEF OnVoicePeer, Takes, AnnounceTypeOK
  <2> HIDE DEF live
  <2>2. (connected[p] \/ live) \in BOOLEAN /\ (enabled[p] \/ live) \in BOOLEAN
    OBVIOUS
  <2> QED BY <2>1, <2>2 DEF AnnounceTypeOK
<1>9. ASSUME NEW p \in Phone, OnList(p)
      PROVE  Goal
  <2> DEFINE live == Head(events[p]).link # 0
  <2>1. /\ mounted' = mounted /\ adapter' = adapter /\ enabled' = enabled
        /\ connected' = [connected EXCEPT ![p] = live]
        /\ creations' = creations \/ creations' = [creations EXCEPT ![p] = Append(creations[p], live)]
    BY <1>9 DEF OnList, Takes, AnnounceTypeOK
  <2>2. live \in BOOLEAN
    OBVIOUS
  <2> HIDE DEF live
  <2>3. creations[p] \in Seq(BOOLEAN) /\ creations \in [Phone -> Seq(BOOLEAN)]
    BY DEF AnnounceTypeOK
  <2>4. Append(creations[p], live) \in Seq(BOOLEAN)
    BY <2>2, <2>3, AppendAt
  <2>5. creations' \in [Phone -> Seq(BOOLEAN)]
    BY <2>1, <2>3, <2>4
  <2> QED BY <2>1, <2>2, <2>5 DEF AnnounceTypeOK
<1>10. ASSUME NEW p \in Phone, AdapterCreated(p)
      PROVE  Goal
  <2>1. creations[p] \in Seq(BOOLEAN) /\ creations[p] # <<>>
    BY <1>10 DEF AdapterCreated, AnnounceTypeOK
  <2>2. Tail(creations[p]) \in Seq(BOOLEAN)
    BY <2>1, TailAt
  <2> QED BY <1>10, <2>2 DEF AdapterCreated, AnnounceTypeOK
<1>11. ASSUME NEW p \in Phone, RetryFires(p)
      PROVE  Goal
  BY <1>11 DEF RetryFires, AnnounceTypeOK
<1>12. ASSUME NEW p \in Phone, Delivered(p)
      PROVE  Goal
  BY <1>12 DEF Delivered, AnnounceTypeOK, hookVars
<1>13. ASSUME NEW p \in Phone, NEW ok \in BOOLEAN, SendSettles(p, ok)
      PROVE  Goal
  BY <1>13 DEF SendSettles, AnnounceTypeOK
<1>14. ASSUME LinkUp
      PROVE  Goal
  BY <1>14 DEF LinkUp, AnnounceTypeOK, hookVars
<1>15. ASSUME LinkDown
      PROVE  Goal
  BY <1>15 DEF LinkDown, AnnounceTypeOK, hookVars
<1>16. CASE UNCHANGED vars
  BY <1>16 DEF vars, hookVars, AnnounceTypeOK
<1> QED
  BY <1>1, <1>2, <1>3, <1>4, <1>5, <1>6, <1>7, <1>8, <1>9, <1>10, <1>11, <1>12, <1>13, <1>14, <1>15, <1>16 DEF Next, Handle, Settle

\* Mapping, announced flag and timer keep their types.
LEMMA KnowledgeType ==
  ASSUME AnnounceTypeOK, [Next]_vars
  PROVE  /\ mapped' \in [Phone -> 0 .. MaxEvents] /\ announced' \in [Phone -> BOOLEAN]
         /\ timer' \in [Phone -> 0 .. Retries]
<1> DEFINE Goal ==
         /\ mapped' \in [Phone -> 0 .. MaxEvents] /\ announced' \in [Phone -> BOOLEAN]
         /\ timer' \in [Phone -> 0 .. Retries]
<1>1. ASSUME NEW p \in Phone, Mount(p)
      PROVE  Goal
  BY <1>1 DEF Mount, AnnounceTypeOK
<1>2. ASSUME NEW p \in Phone, ToggleVoiceMode(p)
      PROVE  Goal
  <2>1. 0 \in 0 .. MaxEvents /\ 0 \in 0 .. Retries
    BY AnnounceBounds DEF AnnounceBounds
  <2>2. timer' = timer \/ timer' = [timer EXCEPT ![p] = 0]
    BY <1>2 DEF ToggleVoiceMode
  <2> QED BY <1>2, <2>1, <2>2 DEF ToggleVoiceMode, AnnounceTypeOK
<1>3. ASSUME NEW p \in Phone, PttReconciles(p)
      PROVE  Goal
  BY <1>3 DEF PttReconciles, AnnounceTypeOK, hookVars
<1>4. ASSUME NEW p \in Phone, Unheard(p)
      PROVE  Goal
  BY <1>4 DEF Unheard, AnnounceTypeOK, hookVars
<1>5. ASSUME NEW p \in Phone, OnConnected(p)
      PROVE  Goal
  <2>1. 0 \in 0 .. MaxEvents /\ 0 \in 0 .. Retries
    BY AnnounceBounds DEF AnnounceBounds
  <2>2. Schedule(p, FALSE, 0, FALSE)
    BY <1>5 DEF OnConnected
  <2>3. FALSE \in BOOLEAN
    OBVIOUS
  <2>4. timer' \in [Phone -> 0 .. Retries]
    BY <2>1, <2>2, <2>3, ScheduleEffect
  <2> QED BY <1>5, <2>1, <2>4 DEF OnConnected, AnnounceTypeOK
<1>6. ASSUME NEW p \in Phone, OnDisconnected(p)
      PROVE  Goal
  <2>1. 0 \in 0 .. MaxEvents /\ 0 \in 0 .. Retries
    BY AnnounceBounds DEF AnnounceBounds
  <2> QED BY <1>6, <2>1 DEF OnDisconnected, AnnounceTypeOK
<1>7. ASSUME NEW p \in Phone, OnAnnounce(p)
      PROVE  Goal
  <2>1. announced[p] \in BOOLEAN /\ timer[p] \in 0 .. Retries /\ TRUE \in BOOLEAN
    BY DEF AnnounceTypeOK
  <2>2. timer' = timer \/ Schedule(p, announced[p], timer[p], TRUE)
    BY <1>7 DEF OnAnnounce
  <2>3. timer' \in [Phone -> 0 .. Retries]
    <3>1. CASE timer' = timer
      BY <3>1 DEF AnnounceTypeOK
    <3>2. CASE Schedule(p, announced[p], timer[p], TRUE)
      BY <2>1, <3>2, ScheduleEffect
    <3> QED BY <2>2, <3>1, <3>2
  <2>4. Head(events[p]).link \in 0 .. MaxEvents
    BY <1>7, HeadEvent DEF OnAnnounce, Takes
  <2>5. mapped' = mapped \/ mapped' = [mapped EXCEPT ![p] = Head(events[p]).link]
    BY <1>7 DEF OnAnnounce
  <2> QED BY <1>7, <2>3, <2>4, <2>5 DEF OnAnnounce, AnnounceTypeOK
<1>8. ASSUME NEW p \in Phone, OnVoicePeer(p)
      PROVE  Goal
  <2>1. 0 \in 0 .. MaxEvents /\ 0 \in 0 .. Retries
    BY AnnounceBounds DEF AnnounceBounds
  <2>2. \E v \in 0 .. Retries : timer' = [timer EXCEPT ![p] = v]
    BY <1>8, <2>1 DEF OnVoicePeer, AnnounceTypeOK
  <2> QED BY <1>8, <2>2 DEF OnVoicePeer, AnnounceTypeOK
<1>9. ASSUME NEW p \in Phone, OnList(p)
      PROVE  Goal
  <2>1. Head(events[p]).link \in 0 .. MaxEvents /\ mapped[p] \in 0 .. MaxEvents
    BY <1>9, HeadEvent DEF OnList, Takes, AnnounceTypeOK
  <2>2. CASE adapter[p]
    <3>1. Apply(p, Head(events[p]).link # 0, mapped[p])
      BY <1>9, <2>2 DEF OnList
    <3> QED BY <2>1, <3>1, ApplyEffect
  <2>3. CASE ~adapter[p]
    BY <1>9, <2>3 DEF OnList, AnnounceTypeOK
  <2> QED BY <2>2, <2>3
<1>10. ASSUME NEW p \in Phone, AdapterCreated(p)
      PROVE  Goal
  <2>1. Head(creations[p]) \in BOOLEAN /\ 0 \in 0 .. MaxEvents
    BY <1>10, AnnounceBounds, TailAt DEF AdapterCreated, AnnounceTypeOK, AnnounceBounds
  <2>2. Apply(p, Head(creations[p]), 0)
    BY <1>10 DEF AdapterCreated
  <2> QED BY <2>1, <2>2, ApplyEffect
<1>11. ASSUME NEW p \in Phone, RetryFires(p)
      PROVE  Goal
  <2>1. 0 \in 0 .. MaxEvents /\ 0 \in 0 .. Retries
    BY AnnounceBounds DEF AnnounceBounds
  <2>2. \E v \in 0 .. Retries : timer' = [timer EXCEPT ![p] = v]
    <3>1. timer[p] \in 0 .. Retries /\ Retries \in Nat
      BY AnnounceBounds DEF AnnounceBounds, AnnounceTypeOK
    <3>2. (IF timer[p] < Retries THEN timer[p] + 1 ELSE 0) \in 0 .. Retries
      BY <3>1
    <3> QED BY <1>11, <2>1, <3>2 DEF RetryFires, AnnounceTypeOK
  <2> QED BY <1>11, <2>2 DEF RetryFires, AnnounceTypeOK
<1>12. ASSUME NEW p \in Phone, Delivered(p)
      PROVE  Goal
  BY <1>12 DEF Delivered, AnnounceTypeOK, hookVars
<1>13. ASSUME NEW p \in Phone, NEW ok \in BOOLEAN, SendSettles(p, ok)
      PROVE  Goal
  <2>1. (announced[p] \/ ok) \in BOOLEAN
    OBVIOUS
  <2> QED BY <1>13, <2>1 DEF SendSettles, AnnounceTypeOK
<1>14. ASSUME LinkUp
      PROVE  Goal
  BY <1>14 DEF LinkUp, AnnounceTypeOK, hookVars
<1>15. ASSUME LinkDown
      PROVE  Goal
  BY <1>15 DEF LinkDown, AnnounceTypeOK, hookVars
<1>16. CASE UNCHANGED vars
  BY <1>16 DEF vars, hookVars, AnnounceTypeOK
<1> QED
  BY <1>1, <1>2, <1>3, <1>4, <1>5, <1>6, <1>7, <1>8, <1>9, <1>10, <1>11, <1>12, <1>13, <1>14, <1>15, <1>16 DEF Next, Handle, Settle

LEMMA TypeStep ==
  ASSUME AnnounceTypeOK, [Next]_vars
  PROVE  AnnounceTypeOK'
<1>1. events' \in [Phone -> Seq(Event)] /\ link' \in 0 .. MaxEvents
  <2>1. CASE LinkUp \/ LinkDown
    BY <2>1, LinkEvent
  <2>2. CASE ~LinkUp /\ ~LinkDown
    BY <2>2, EventsMove DEF AnnounceTypeOK
  <2> QED BY <2>1, <2>2
<1>2. sends' \in [Phone -> Seq(BOOLEAN)]
  BY SendsMove
<1> QED BY <1>1, <1>2, CountersType, FlagsType, KnowledgeType DEF AnnounceTypeOK

-----------------------------------------------------------------------------
(* The theorems.                                                           *)

LEMMA InitRoute == Init => RouteInv
<1> SUFFICES ASSUME Init PROVE RouteInv
  OBVIOUS
<1>1. /\ 0 \in 0 .. MaxEvents /\ 0 \in 0 .. Retries
      /\ \A S : <<>> \in Seq(S)
  BY AnnounceBounds, EmptySeq DEF AnnounceBounds
<1>2. AnnounceTypeOK
  BY <1>1 DEF Init, AnnounceTypeOK
<1>3. UnmountedIsBlank /\ RouteIsOfThisLink /\ ConnectedIsLinked /\ AnnouncedIsHeard
  BY DEF Init, UnmountedIsBlank, RouteIsOfThisLink, ConnectedIsLinked, AnnouncedIsHeard
<1>4. EventsAreCurrent /\ AirIsHeard
  BY DEF Init, EventsAreCurrent, Current, AirIsHeard
<1> QED BY <1>2, <1>3, <1>4 DEF RouteInv

LEMMA StepRoute == RouteInv /\ [Next]_vars => RouteInv'
  BY TypeStep, BlankStep, CurrentStep, RouteStep, ConnectedStep, AnnouncedStep, AirStep
  DEF RouteInv

LEMMA RouteAlways == Spec => []RouteInv
  BY InitRoute, StepRoute, PTL DEF Spec

\* The state of the announce sender, of the queues between the layers and of
\* the link keeps its types for any number of retries and of events.
THEOREM TypeAlwaysOK == Spec => []AnnounceTypeOK
<1>1. RouteInv => AnnounceTypeOK
  BY DEF RouteInv
<1> QED BY <1>1, RouteAlways, PTL

\* A route learnt on an earlier link is never used on the present one, once
\* the connection events have been handled (useBLEVoiceMode.ts:1744).
THEOREM RouteAlwaysOfThisLink == Spec => []RouteIsOfThisLink
<1>1. RouteInv => RouteIsOfThisLink
  BY DEF RouteInv
<1> QED BY <1>1, RouteAlways, PTL

\* Nobody counts a connected peer as announced to whom it has not announced
\* itself on this link: a send that settles late does not stop the retries of
\* the next link (useBLEVoiceMode.ts:215).
THEOREM AlwaysAnnouncedOnThisLink == Spec => []AnnouncedOnThisLink
<1>1. RouteInv => AnnouncedOnThisLink
  BY DEF RouteInv, AnnouncedOnThisLink, ConnectedIsLinked, AnnouncedIsHeard
<1> QED BY <1>1, RouteAlways, PTL

-----------------------------------------------------------------------------
(* Both ends of a link get their route.  The invariant speaks of a link that *)
(* was made between two phones with their adapters and on which voice mode   *)
(* was left alone.                                                           *)

Fresh == link # 0 /\ ~early /\ toggles = 0

NoneOf(q, type) == \A i \in DOMAIN q : q[i].type # type

\* Nobody touched voice mode: it never went on, and no answer about it waits.
VoiceIsOff == toggles = 0 => \A p \in Phone : ~enabled[p] /\ NoneOf(events[p], "voice")

\* Then the native list was asked for once, when the hook mounted: it is waited
\* for, or the storage read that it led to is, or the adapter is there.
ListedOnce ==
  toggles = 0 => \A p \in Phone :
    /\ adapter[p] => mounted[p] /\ creations[p] = <<>> /\ NoneOf(events[p], "list")
    /\ creations[p] # <<>> => Len(creations[p]) = 1 /\ NoneOf(events[p], "list")
    /\ ~mounted[p] => NoneOf(events[p], "list")
    /\ \A i, j \in DOMAIN events[p] :
         events[p][i].type = "list" /\ events[p][j].type = "list" => i = j

HeardIsPast == link \in 0 .. links /\ \A p \in Phone : heard[p] \in 0 .. links

BothAreReady ==
  Fresh => \A p \in Phone : adapter[p] /\ (Informed(p) => connected[p])

\* The ANNOUNCE of the peer was taken, or it waits behind the connection event.
Learns(p) ==
  \/ Informed(p) /\ mapped[p] # 0
  \/ \E i \in DOMAIN events[p] :
       /\ events[p][i].type = "announce"
       /\ \A j \in DOMAIN events[p] : j > i => events[p][j].type \notin Conn

HeardIsLearnt == Fresh => \A p \in Phone : heard[p] = link => Learns(Other(p))

\* The ANNOUNCEs of the schedule up to retry number time (0: all are made), and
\* the one at least before it if the peer's own ANNOUNCE, now known, started it
\* again.
Attempts(time, known) ==
  (IF time = 0 THEN Retries + 1 ELSE time) + (IF known = 0 THEN 0 ELSE 1)

\* A share of the failed sends for each phone, that accounts for every ANNOUNCE
\* of a phone which no peer was given and which is not under way.
Shares(f) ==
  /\ \A p \in Phone : f[p] + f[Other(p)] <= failures
  /\ \A p \in Phone : Informed(p) /\ heard[p] # link =>
       Attempts(timer[p], mapped[p]) <= f[p] + Len(sends[p])

FailuresAreShared == Fresh => \E f \in [Phone -> Nat] : Shares(f)

ReadyInv ==
  /\ VoiceIsOff /\ ListedOnce /\ HeardIsPast /\ BothAreReady
  /\ HeardIsLearnt /\ FailuresAreShared

-----------------------------------------------------------------------------
(* What can happen while voice mode is left alone.                           *)

LEMMA TogglesGrow ==
  ASSUME AnnounceTypeOK, [Next]_vars, toggles' = 0
  PROVE  toggles = 0 /\ \A p \in Phone : ~ToggleVoiceMode(p)
<1>1. toggles \in Nat
  BY AnnounceBounds DEF AnnounceTypeOK, AnnounceBounds
<1>2. \A p \in Phone : ~ToggleVoiceMode(p)
  BY <1>1 DEF ToggleVoiceMode
<1>3. toggles' = toggles
  BY <1>2 DEF Next, Mount, PttReconciles, Handle, Unheard, OnConnected, OnDisconnected, OnAnnounce,
     OnVoicePeer, OnList, AdapterCreated, RetryFires, Delivered, Settle, SendSettles, LinkUp,
     LinkDown, Takes, vars
<1> QED BY <1>2, <1>3

LEMMA HeadIsNot ==
  ASSUME AnnounceTypeOK, NEW p \in Phone, NEW type, NoneOf(events[p], type), Takes(p, type)
  PROVE  FALSE
<1>1. events[p] \in Seq(Event) /\ events[p] # <<>> /\ Head(events[p]).type = type
  BY DEF Takes, AnnounceTypeOK
<1>2. 1 \in DOMAIN events[p] /\ Head(events[p]) = events[p][1]
  BY <1>1, TailAt
<1> QED BY <1>1, <1>2 DEF NoneOf

LEMMA NobodyPlays ==
  ASSUME AnnounceTypeOK, VoiceIsOff, toggles = 0, NEW p \in Phone
  PROVE  ~PttReconciles(p) /\ ~OnVoicePeer(p)
<1>1. ~enabled[p] /\ NoneOf(events[p], "voice")
  BY DEF VoiceIsOff
<1> QED BY <1>1, HeadIsNot DEF PttReconciles, OnVoicePeer

\* The queue of q: its head goes, or the link and the peer add to it, or the
\* hook asks for the list because it mounts.
Turns(q) ==
  \/ events'[q] = events[q]
  \/ events[q] # <<>> /\ events'[q] = Tail(events[q])
  \/ \E e \in Event : e.type \in Conn \cup {"announce"} /\ events'[q] = Append(events[q], e)
  \/ Mount(q) /\ \E e \in Event : e.type = "list" /\ events'[q] = Append(events[q], e)

LEMMA QueuesTurn ==
  ASSUME AnnounceTypeOK, VoiceIsOff, [Next]_vars, toggles' = 0
  PROVE  \A q \in Phone : Turns(q) /\ ~enabled'[q]
<1> USE TogglesGrow
<1>0. /\ \A q \in Phone : ~enabled[q]
      /\ enabled \in [Phone -> BOOLEAN] /\ events \in [Phone -> Seq(Event)]
  BY DEF VoiceIsOff, AnnounceTypeOK
<1> DEFINE Goal == \A q \in Phone : Turns(q) /\ ~enabled'[q]
<1>1. ASSUME NEW p \in Phone, Mount(p) PROVE Goal
  BY <1>0, <1>1, ListEvent DEF Mount, Reconcile, WithList, Turns
<1>2. ASSUME NEW p \in Phone, Unheard(p) PROVE Goal
  BY <1>0, <1>2 DEF Unheard, Handled, hookVars, Turns
<1>3. ASSUME NEW p \in Phone, OnConnected(p) PROVE Goal
  BY <1>0, <1>3 DEF OnConnected, Takes, Handled, Turns
<1>4. ASSUME NEW p \in Phone, OnDisconnected(p) PROVE Goal
  BY <1>0, <1>4 DEF OnDisconnected, VoiceOff, Takes, Turns
<1>5. ASSUME NEW p \in Phone, OnAnnounce(p) PROVE Goal
  BY <1>0, <1>5 DEF OnAnnounce, Takes, Handled, Turns
<1>6. ASSUME NEW p \in Phone, OnList(p) PROVE Goal
  BY <1>0, <1>6 DEF OnList, Takes, Handled, Turns
<1>7. ASSUME NEW p \in Phone, AdapterCreated(p) PROVE Goal
  BY <1>0, <1>7 DEF AdapterCreated, Turns
<1>8. ASSUME NEW p \in Phone, RetryFires(p) PROVE Goal
  BY <1>0, <1>8 DEF RetryFires, Turns
<1>9. ASSUME NEW p \in Phone, Delivered(p) PROVE Goal
  BY <1>0, <1>9, ListEvent, OtherPhone DEF Delivered, hookVars, Turns
<1>10. ASSUME NEW p \in Phone, NEW ok \in BOOLEAN, SendSettles(p, ok) PROVE Goal
  BY <1>0, <1>10 DEF SendSettles, Turns
<1>11. ASSUME LinkUp PROVE Goal
  <2>1. links + 1 \in 0 .. MaxEvents
    BY <1>11, AnnounceBounds DEF LinkUp, MayHappen, AnnounceTypeOK, AnnounceBounds
  <2>2. [type |-> "connected", link |-> links + 1] \in Event
    BY <2>1 DEF Event
  <2> QED BY <1>0, <1>11, <2>2 DEF LinkUp, hookVars, Turns, Conn
<1>12. ASSUME LinkDown PROVE Goal
  <2>1. [type |-> "disconnected", link |-> link] \in Event
    BY DEF Event, AnnounceTypeOK
  <2> QED BY <1>0, <1>12, <2>1 DEF LinkDown, hookVars, Turns, Conn
<1>13. CASE UNCHANGED vars
  BY <1>0, <1>13 DEF vars, hookVars, Turns
<1>14. \A p \in Phone : ~PttReconciles(p) /\ ~OnVoicePeer(p) /\ ~ToggleVoiceMode(p)
  BY NobodyPlays
<1> QED
  BY <1>1, <1>2, <1>3, <1>4, <1>5, <1>6, <1>7, <1>8, <1>9, <1>10, <1>11, <1>12, <1>13, <1>14
  DEF Next, Handle, Settle

LEMMA NoneOfTurns ==
  ASSUME AnnounceTypeOK, NEW q \in Phone, Turns(q), NEW type, NoneOf(events[q], type),
         type = "voice" \/ (type = "list" /\ ~Mount(q))
  PROVE  NoneOf(events'[q], type)
<1>1. events[q] \in Seq(Event)
  BY DEF AnnounceTypeOK
<1>2. CASE events[q] # <<>> /\ events'[q] = Tail(events[q])
  BY <1>1, <1>2, TailAt DEF NoneOf
<1>3. ASSUME NEW e \in Event, e.type # type, events'[q] = Append(events[q], e)
      PROVE  NoneOf(events'[q], type)
  BY <1>1, <1>3, AppendAt DEF NoneOf
<1> QED BY <1>2, <1>3 DEF Turns, Conn

LEMMA VoiceStep ==
  ASSUME AnnounceTypeOK, VoiceIsOff, [Next]_vars
  PROVE  VoiceIsOff'
<1> SUFFICES ASSUME toggles' = 0, NEW q \in Phone
             PROVE  ~enabled'[q] /\ NoneOf(events'[q], "voice")
  BY DEF VoiceIsOff, NoneOf
<1>1. NoneOf(events[q], "voice")
  BY TogglesGrow DEF VoiceIsOff
<1> QED BY <1>1, QueuesTurn, NoneOfTurns

\* Who changes what the adapter is made of.
LEMMA AdapterMoves ==
  ASSUME AnnounceTypeOK, [Next]_vars, NEW q \in Phone
  PROVE  \/ /\ adapter'[q] = adapter[q] /\ creations'[q] = creations[q]
            /\ mounted'[q] = mounted[q] \/ Mount(q)
         \/ OnList(q) \/ AdapterCreated(q)
<1> USE DEF AnnounceTypeOK
<1> DEFINE Goal ==
      \/ /\ adapter'[q] = adapter[q] /\ creations'[q] = creations[q]
         /\ mounted'[q] = mounted[q] \/ Mount(q)
      \/ OnList(q) \/ AdapterCreated(q)
<1>1. ASSUME NEW p \in Phone, Mount(p) PROVE Goal
  BY <1>1 DEF Mount
<1>2. ASSUME NEW p \in Phone, Unheard(p) \/ PttReconciles(p) \/ Delivered(p) PROVE Goal
  BY <1>2 DEF Unheard, PttReconciles, Delivered, hookVars
<1>3. ASSUME NEW p \in Phone, OnConnected(p) \/ OnDisconnected(p) \/ OnAnnounce(p) \/ OnVoicePeer(p)
      PROVE  Goal
  BY <1>3 DEF OnConnected, OnDisconnected, OnAnnounce, OnVoicePeer, Takes
<1>4. ASSUME NEW p \in Phone, OnList(p) PROVE Goal
  BY <1>4 DEF OnList, Takes
<1>5. ASSUME NEW p \in Phone, AdapterCreated(p) PROVE Goal
  BY <1>5 DEF AdapterCreated
<1>6. ASSUME NEW p \in Phone, RetryFires(p) \/ ToggleVoiceMode(p) PROVE Goal
  BY <1>6 DEF RetryFires, ToggleVoiceMode
<1>7. ASSUME NEW p \in Phone, NEW ok \in BOOLEAN, SendSettles(p, ok) PROVE Goal
  BY <1>7 DEF SendSettles
<1>8. CASE LinkUp \/ LinkDown \/ UNCHANGED vars
  BY <1>8 DEF LinkUp, LinkDown, hookVars, vars
<1> QED BY <1>1, <1>2, <1>3, <1>4, <1>5, <1>6, <1>7, <1>8 DEF Next, Handle, Settle

OneList(q) == \A i, j \in DOMAIN q : q[i].type = "list" /\ q[j].type = "list" => i = j

LEMMA OneListTurns ==
  ASSUME AnnounceTypeOK, NEW q \in Phone, Turns(q), OneList(events[q]),
         Mount(q) => NoneOf(events[q], "list")
  PROVE  OneList(events'[q])
<1>1. events[q] \in Seq(Event)
  BY DEF AnnounceTypeOK
<1>2. CASE events[q] # <<>> /\ events'[q] = Tail(events[q])
  <2>1. ASSUME NEW i \in DOMAIN events'[q], NEW j \in DOMAIN events'[q],
               events'[q][i].type = "list", events'[q][j].type = "list"
        PROVE  i = j
    <3>1. /\ i \in Nat /\ i + 1 \in DOMAIN events[q] /\ events[q][i + 1].type = "list"
          /\ j \in Nat /\ j + 1 \in DOMAIN events[q] /\ events[q][j + 1].type = "list"
      BY <1>1, <1>2, <2>1, TailAt
    <3>2. i + 1 = j + 1
      BY <3>1 DEF OneList
    <3> QED BY <3>1, <3>2
  <2> QED BY <2>1 DEF OneList
<1>3. ASSUME NEW e \in Event, e.type # "list" \/ NoneOf(events[q], "list"),
             events'[q] = Append(events[q], e)
      PROVE  OneList(events'[q])
  BY <1>1, <1>3, AppendAt DEF NoneOf, OneList
<1> QED BY <1>2, <1>3 DEF Turns, Conn, OneList

LEMMA ListStep ==
  ASSUME RouteInv, VoiceIsOff, ListedOnce, [Next]_vars
  PROVE  ListedOnce'
<1> USE DEF RouteInv
<1> SUFFICES ASSUME toggles' = 0, NEW q \in Phone
             PROVE  /\ adapter'[q] => mounted'[q] /\ creations'[q] = <<>> /\ NoneOf(events'[q], "list")
                    /\ creations'[q] # <<>> => Len(creations'[q]) = 1 /\ NoneOf(events'[q], "list")
                    /\ ~mounted'[q] => NoneOf(events'[q], "list")
                    /\ OneList(events'[q])
  BY DEF ListedOnce, NoneOf, OneList
<1>1. /\ adapter[q] => mounted[q] /\ creations[q] = <<>> /\ NoneOf(events[q], "list")
      /\ creations[q] # <<>> => Len(creations[q]) = 1 /\ NoneOf(events[q], "list") /\ mounted[q]
      /\ ~mounted[q] => NoneOf(events[q], "list")
      /\ OneList(events[q])
  BY TogglesGrow DEF ListedOnce, OneList, UnmountedIsBlank
<1>2. Turns(q) /\ events[q] \in Seq(Event) /\ creations[q] \in Seq(BOOLEAN)
  BY QueuesTurn DEF AnnounceTypeOK
<1>3. Mount(q) => ~mounted[q] /\ mounted'[q]
  BY DEF Mount, AnnounceTypeOK
<1>4. OneList(events'[q])
  BY <1>1, <1>2, <1>3, OneListTurns
<1>5. NoneOf(events[q], "list") /\ ~Mount(q) => NoneOf(events'[q], "list")
  BY <1>2, NoneOfTurns
<1>6. CASE /\ adapter'[q] = adapter[q] /\ creations'[q] = creations[q]
           /\ mounted'[q] = mounted[q] \/ Mount(q)
  BY <1>1, <1>3, <1>4, <1>5, <1>6
<1>7. CASE OnList(q)
  <2>1. /\ events[q] # <<>> /\ Head(events[q]).type = "list" /\ events'[q] = Tail(events[q])
        /\ mounted[q] /\ mounted'[q] /\ ~NoneOf(events[q], "list")
    BY <1>2, <1>7, HeadIsNot DEF OnList, Takes, Handled, AnnounceTypeOK
  <2>2. /\ ~adapter[q] /\ ~adapter'[q] /\ creations[q] = <<>>
        /\ \E live \in BOOLEAN : creations'[q] = Append(creations[q], live)
    BY <1>1, <1>7, <2>1 DEF OnList, AnnounceTypeOK
  <2>3. Len(creations'[q]) = 1
    BY <2>2
  <2>4. NoneOf(events'[q], "list")
    <3>1. ASSUME NEW i \in DOMAIN events'[q], events'[q][i].type = "list" PROVE FALSE
      <4>1. i \in Nat /\ i + 1 \in DOMAIN events[q] /\ events[q][i + 1].type = "list"
        BY <1>2, <2>1, <3>1, TailAt
      <4>2. 1 \in DOMAIN events[q] /\ events[q][1].type = "list"
        BY <1>2, <2>1, TailAt
      <4>3. \A k \in DOMAIN events[q] : k \in Nat /\ k > 0
        BY <1>2
      <4>4. i + 1 # 1
        <5>1. i \in DOMAIN Tail(events[q]) /\ Tail(events[q]) \in Seq(Event)
          BY <1>2, <2>1, <3>1, TailAt
        <5>2. i > 0
          BY <5>1
        <5> QED BY <4>1, <5>2
      <4> QED BY <1>1, <4>1, <4>2, <4>4 DEF OneList
    <3> QED BY <3>1 DEF NoneOf
  <2> QED BY <1>4, <2>1, <2>2, <2>3, <2>4
<1>8. CASE AdapterCreated(q)
  <2>1. /\ creations[q] # <<>> /\ creations'[q] = Tail(creations[q])
        /\ mounted'[q] = mounted[q] /\ events'[q] = events[q]
    BY <1>8 DEF AdapterCreated, AnnounceTypeOK
  <2>2. creations'[q] = <<>>
    <3> DEFINE c == creations[q]
    <3>1. c \in Seq(BOOLEAN) /\ Len(c) = 1
      BY <1>1, <1>2, <2>1
    <3> HIDE DEF c
    <3>2. Tail(c) \in Seq(BOOLEAN) /\ Len(Tail(c)) = 0
      BY <3>1, HeadTailProperties, EmptySeq
    <3>3. Tail(c) = <<>>
      BY <3>2, EmptySeq
    <3> QED BY <2>1, <3>3 DEF c
  <2> QED BY <1>1, <1>4, <2>1, <2>2
<1> QED BY <1>6, <1>7, <1>8, AdapterMoves

LEMMA HeardStep ==
  ASSUME AnnounceTypeOK, HeardIsPast, [Next]_vars
  PROVE  HeardIsPast'
<1>1. links \in Nat /\ \A p \in Phone : heard[p] \in Nat
  BY AnnounceBounds DEF AnnounceTypeOK, AnnounceBounds
<1>2. ASSUME NEW p \in Phone, Delivered(p) PROVE HeardIsPast'
  BY <1>2 DEF Delivered, HeardIsPast, AnnounceTypeOK
<1>3. CASE LinkUp
  BY <1>1, <1>3 DEF LinkUp, HeardIsPast
<1>4. CASE LinkDown
  BY <1>1, <1>4 DEF LinkDown, HeardIsPast
<1>5. CASE heard' = heard /\ link' = link /\ links' = links
  BY <1>5 DEF HeardIsPast
<1>6. \/ \E p \in Phone : Delivered(p)
      \/ LinkUp \/ LinkDown \/ (heard' = heard /\ link' = link /\ links' = links)
  BY DEF Next, Mount, ToggleVoiceMode, PttReconciles, Handle, Unheard, OnConnected, OnDisconnected,
     OnAnnounce, OnVoicePeer, OnList, AdapterCreated, RetryFires, Settle, SendSettles, Takes, vars
<1> QED BY <1>2, <1>3, <1>4, <1>5, <1>6

-----------------------------------------------------------------------------
(* On a fresh link.                                                          *)

LEMMA FreshStays ==
  ASSUME AnnounceTypeOK, [Next]_vars, Fresh'
  PROVE  LinkUp \/ (Fresh /\ link' = link /\ early' = early /\ ~LinkUp /\ ~LinkDown)
<1>1. toggles = 0
  BY TogglesGrow DEF Fresh
<1>2. ~LinkDown
  BY DEF LinkDown, Fresh
<1>3. LinkUp \/ (link' = link /\ early' = early)
  BY <1>2 DEF Next, Mount, ToggleVoiceMode, PttReconciles, Handle, Unheard, OnConnected,
     OnDisconnected, OnAnnounce, OnVoicePeer, OnList, AdapterCreated, RetryFires, Delivered, Settle,
     SendSettles, Takes, vars
<1> QED BY <1>1, <1>2, <1>3 DEF Fresh

\* Both hooks are mounted with their adapters, so a step of a phone handles a
\* connection event or an ANNOUNCE, or is one of the sender.
LEMMA FreshMoves ==
  ASSUME RouteInv, ReadyInv, [Next]_vars, Fresh, Fresh', ~LinkUp
  PROVE  \/ \E p \in Phone : \/ OnConnected(p) \/ OnDisconnected(p) \/ OnAnnounce(p) \/ RetryFires(p)
                             \/ Delivered(p) \/ \E ok \in BOOLEAN : SendSettles(p, ok)
         \/ UNCHANGED vars
<1> USE DEF RouteInv, ReadyInv
<1>1. \A p \in Phone : mounted[p] /\ creations[p] = <<>> /\ NoneOf(events[p], "list")
  BY DEF ListedOnce, BothAreReady, Fresh
<1>2. \A p \in Phone : ~ToggleVoiceMode(p) /\ ~PttReconciles(p) /\ ~OnVoicePeer(p)
  BY TogglesGrow, NobodyPlays DEF Fresh
<1>3. \A p \in Phone : ~Mount(p) /\ ~Unheard(p) /\ ~AdapterCreated(p)
  BY <1>1 DEF Mount, Unheard, AdapterCreated
<1>4. \A p \in Phone : ~OnList(p)
  BY <1>1, HeadIsNot DEF OnList
<1>5. ~LinkDown
  BY DEF LinkDown, Fresh
<1> QED BY <1>2, <1>3, <1>4, <1>5 DEF Next, Handle, Settle

\* No news of a loss waits while the link is up, unless more comes behind it.
LEMMA NoLossIsNews ==
  ASSUME RouteInv, NEW q \in Phone, OnDisconnected(q), Informed(q)', link # 0, ~enabled[q]
  PROVE  FALSE
<1>1. events[q] # <<>> /\ Head(events[q]).type = "disconnected" /\ events'[q] = Tail(events[q])
  BY DEF OnDisconnected, Takes, VoiceOff, RouteInv, AnnounceTypeOK
<1>2. Quiet(events'[q])
  BY DEF Informed, Quiet, Conn
<1>3. Holds(Head(events[q]))
  BY <1>1, <1>2, TakenHolds DEF RouteInv, EventsAreCurrent
<1> QED BY <1>1, <1>3 DEF Holds

\* How a phone comes to be informed on a fresh link.
LEMMA FreshNews ==
  ASSUME RouteInv, ReadyInv, [Next]_vars, Fresh, NEW q \in Phone, Informed(q)'
  PROVE  Informed(q) \/ OnConnected(q)
<1>1. ~Unheard(q)
  BY DEF Unheard, ReadyInv, BothAreReady, ListedOnce, Fresh
<1>2. ~OnDisconnected(q)
  BY NoLossIsNews DEF ReadyInv, VoiceIsOff, Fresh
<1> QED BY <1>1, <1>2, LearnsStep DEF RouteInv

\* The handlers of connection events have one to handle.
LEMMA NewsIsTaken ==
  ASSUME AnnounceTypeOK, NEW q \in Phone, OnConnected(q) \/ OnDisconnected(q)
  PROVE  ~Informed(q)
<1>1. events[q] \in Seq(Event) /\ events[q] # <<>> /\ Head(events[q]).type \in Conn
  BY DEF OnConnected, OnDisconnected, Takes, Conn, AnnounceTypeOK
<1>2. ~Quiet(events[q])
  BY <1>1, QuietTail
<1> QED BY <1>2 DEF Informed, Quiet, Conn

LEMMA BothStep ==
  ASSUME RouteInv, ReadyInv, [Next]_vars
  PROVE  BothAreReady'
<1> USE DEF RouteInv
<1> SUFFICES ASSUME Fresh', NEW q \in Phone
             PROVE  adapter'[q] /\ (Informed(q)' => connected'[q])
  BY DEF BothAreReady
<1>1. CASE LinkUp
  <2>1. adapter'[q]
    BY <1>1 DEF LinkUp, Fresh, hookVars
  <2>2. ~Informed(q)'
    BY <1>1, LinkEvent
  <2> QED BY <2>1, <2>2
<1>2. CASE Fresh /\ ~LinkUp
  <2>1. adapter[q] /\ (Informed(q) => connected[q])
    BY <1>2 DEF ReadyInv, BothAreReady
  <2>2. adapter'[q]
    BY <1>2, <2>1, FreshMoves DEF OnConnected, OnDisconnected, OnAnnounce, RetryFires, Delivered,
       SendSettles, hookVars, vars
  <2>3. ASSUME Informed(q)' PROVE connected'[q]
    <3>1. CASE OnConnected(q)
      BY <3>1 DEF OnConnected, AnnounceTypeOK
    <3>2. CASE Informed(q)
      <4>1. ~OnConnected(q) /\ ~OnDisconnected(q)
        BY <3>2, NewsIsTaken
      <4>2. connected'[q] = connected[q]
        BY <1>2, <4>1, FreshMoves DEF OnConnected, OnDisconnected, OnAnnounce, RetryFires, Delivered,
           SendSettles, hookVars, vars, AnnounceTypeOK
      <4> QED BY <2>1, <3>2, <4>2
    <3> QED BY <1>2, <2>3, <3>1, <3>2, FreshNews
  <2> QED BY <2>2, <2>3
<1> QED BY <1>1, <1>2, FreshStays

-----------------------------------------------------------------------------
(* What a phone was given it learns.                                         *)

\* An ANNOUNCE is queued, and no connection event behind it.
Comes(q) ==
  \E i \in DOMAIN q : q[i].type = "announce" /\ \A j \in DOMAIN q : j > i => q[j].type \notin Conn

LEMMA ComesAppend ==
  ASSUME NEW q \in Seq(Event), NEW e \in Event, e.type \notin Conn, Comes(q) \/ e.type = "announce"
  PROVE  Comes(Append(q, e))
<1> DEFINE s == Append(q, e)
<1>1. /\ DOMAIN q = 1 .. Len(q) /\ Len(q) \in Nat
      /\ DOMAIN s = 1 .. Len(q) + 1
      /\ \A i \in DOMAIN q : s[i] = q[i]
      /\ s[Len(q) + 1] = e
  BY AppendAt
<1> HIDE DEF s
<1>2. CASE Comes(q)
  <2>1. PICK i \in DOMAIN q :
          q[i].type = "announce" /\ \A j \in DOMAIN q : j > i => q[j].type \notin Conn
    BY <1>2 DEF Comes
  <2>2. i \in DOMAIN s /\ s[i].type = "announce" /\ \A j \in DOMAIN s : j > i => s[j].type \notin Conn
    BY <1>1, <2>1
  <2> QED BY <2>2 DEF Comes, s
<1>3. CASE e.type = "announce"
  <2>1. /\ Len(q) + 1 \in DOMAIN s /\ s[Len(q) + 1].type = "announce"
        /\ \A j \in DOMAIN s : j > Len(q) + 1 => s[j].type \notin Conn
    BY <1>1, <1>3
  <2> QED BY <2>1 DEF Comes, s
<1> QED BY <1>2, <1>3

\* Taking the head leaves it there, unless it is the ANNOUNCE itself.
LEMMA ComesTail ==
  ASSUME NEW q \in Seq(Event), q # <<>>, Comes(q)
  PROVE  Comes(Tail(q)) \/ (Head(q).type = "announce" /\ Quiet(Tail(q)))
<1>1. PICK i \in DOMAIN q :
        q[i].type = "announce" /\ \A j \in DOMAIN q : j > i => q[j].type \notin Conn
  BY DEF Comes
<1>2. CASE i = 1
  <2>1. ASSUME NEW j \in DOMAIN Tail(q) PROVE Tail(q)[j].type \notin Conn
    <3>1. j \in Nat /\ j + 1 \in DOMAIN q /\ Tail(q)[j] = q[j + 1] /\ j > 0
      BY TailAt
    <3> QED BY <1>1, <1>2, <3>1
  <2> QED BY <1>1, <1>2, <2>1, TailAt DEF Quiet
<1>3. CASE i # 1
  <2>1. i > 1 /\ i \in Nat
    BY <1>1, <1>3, TailAt
  <2>2. i - 1 \in DOMAIN Tail(q) /\ Tail(q)[i - 1] = q[i]
    BY <2>1, TailAt
  <2>3. ASSUME NEW j \in DOMAIN Tail(q), j > i - 1 PROVE Tail(q)[j].type \notin Conn
    <3>1. j \in Nat /\ j + 1 \in DOMAIN q /\ Tail(q)[j] = q[j + 1]
      BY TailAt
    <3> QED BY <1>1, <2>1, <2>3, <3>1
  <2> QED BY <1>1, <2>2, <2>3 DEF Comes
<1> QED BY <1>2, <1>3

LEMMA LearnsWhat == \A q \in Phone : Learns(q) <=> (Informed(q) /\ mapped[q] # 0) \/ Comes(events[q])
  BY DEF Learns, Comes

\* A phone that took the peer's ANNOUNCE with no connection event behind it has
\* a route.
LEMMA AnnounceIsLearnt ==
  ASSUME RouteInv, ReadyInv, Fresh, link' = link, NEW q \in Phone, OnAnnounce(q),
         Quiet(Tail(events[q]))
  PROVE  Informed(q)' /\ mapped'[q] # 0
<1>1. events[q] # <<>> /\ Head(events[q]).type = "announce" /\ events'[q] = Tail(events[q])
  BY DEF OnAnnounce, Takes, Handled, RouteInv, AnnounceTypeOK
<1>2. Holds(Head(events[q]))
  BY <1>1, TakenHolds DEF RouteInv, EventsAreCurrent
<1>3. adapter[q]
  BY DEF ReadyInv, BothAreReady
<1>4. mapped'[q] = Head(events[q]).link
  BY <1>3 DEF OnAnnounce, RouteInv, AnnounceTypeOK
<1>5. Informed(q)'
  BY <1>1 DEF Informed, Quiet, Conn
<1> QED BY <1>1, <1>2, <1>4, <1>5 DEF Holds, Fresh

LEMMA LearnsStays ==
  ASSUME RouteInv, ReadyInv, [Next]_vars, Fresh, Fresh', ~LinkUp, NEW q \in Phone, Learns(q)
  PROVE  Learns(q)'
<1> USE DEF RouteInv
<1>1. link' = link /\ ~LinkDown
  BY FreshStays
<1>2. /\ events[q] \in Seq(Event) /\ events \in [Phone -> Seq(Event)] /\ mapped \in [Phone -> 0 .. MaxEvents]
      /\ Other(q) \in Phone /\ \A p \in Phone : Other(p) \in Phone
  BY OtherPhone DEF AnnounceTypeOK
<1>3. \/ events'[q] = events[q] /\ mapped'[q] = mapped[q]
      \/ mapped'[q] = mapped[q]
           /\ \E e \in Event : e.type = "announce" /\ events'[q] = Append(events[q], e)
      \/ OnConnected(q) \/ OnDisconnected(q) \/ OnAnnounce(q)
  <2> DEFINE Goal ==
         \/ events'[q] = events[q] /\ mapped'[q] = mapped[q]
         \/ mapped'[q] = mapped[q]
              /\ \E e \in Event : e.type = "announce" /\ events'[q] = Append(events[q], e)
         \/ OnConnected(q) \/ OnDisconnected(q) \/ OnAnnounce(q)
  <2>1. ASSUME NEW p \in Phone, OnConnected(p) \/ OnDisconnected(p) \/ OnAnnounce(p) PROVE Goal
    <3>1. CASE p = q
      BY <2>1, <3>1
    <3>2. CASE p # q
      BY <1>2, <2>1, <3>2 DEF OnConnected, OnDisconnected, VoiceOff, OnAnnounce, Handled
    <3> QED BY <3>1, <3>2
  <2>2. ASSUME NEW p \in Phone, RetryFires(p) PROVE Goal
    BY <2>2 DEF RetryFires
  <2>3. ASSUME NEW p \in Phone, Delivered(p) PROVE Goal
    BY <1>2, <2>3, ListEvent DEF Delivered, hookVars
  <2>4. ASSUME NEW p \in Phone, NEW ok \in BOOLEAN, SendSettles(p, ok) PROVE Goal
    BY <2>4 DEF SendSettles
  <2>5. CASE UNCHANGED vars
    BY <2>5 DEF vars, hookVars
  <2> QED BY <2>1, <2>2, <2>3, <2>4, <2>5, FreshMoves
<1>4. CASE OnConnected(q) \/ OnDisconnected(q)
  <2>1. Comes(events[q])
    BY <1>4, NewsIsTaken, LearnsWhat
  <2>2. ~enabled[q]
    BY DEF ReadyInv, VoiceIsOff, Fresh
  <2>3. /\ events[q] # <<>> /\ Head(events[q]).type # "announce"
        /\ events'[q] = Tail(events[q])
    BY <1>2, <1>4, <2>2 DEF OnConnected, OnDisconnected, VoiceOff, Takes, Handled
  <2>4. Comes(events'[q])
    BY <1>2, <2>1, <2>3, ComesTail
  <2> QED BY <2>4 DEF Learns, Comes
<1>5. CASE OnAnnounce(q)
  <2>1. /\ events[q] # <<>> /\ Head(events[q]).type = "announce" /\ events'[q] = Tail(events[q])
    BY <1>2, <1>5 DEF OnAnnounce, Takes, Handled
  <2>2. CASE Quiet(Tail(events[q]))
    BY <1>1, <1>5, <2>2, AnnounceIsLearnt DEF Learns
  <2>3. CASE ~Quiet(Tail(events[q]))
    <3>1. ~Informed(q)
      BY <1>2, <2>1, <2>3, QuietTail DEF Informed, Quiet, Conn
    <3>2. Comes(events'[q])
      BY <1>2, <2>1, <2>3, <3>1, ComesTail, LearnsWhat
    <3> QED BY <3>2 DEF Learns, Comes
  <2> QED BY <2>2, <2>3
<1>6. CASE events'[q] = events[q] /\ mapped'[q] = mapped[q]
  BY <1>6 DEF Learns, Informed
<1>7. ASSUME mapped'[q] = mapped[q],
             NEW e \in Event, e.type = "announce", events'[q] = Append(events[q], e)
      PROVE  Learns(q)'
  <2>1. Comes(events'[q])
    BY <1>2, <1>7, ComesAppend DEF Conn
  <2> QED BY <2>1 DEF Learns, Comes
<1> QED BY <1>3, <1>4, <1>5, <1>6, <1>7

LEMMA LearntStep ==
  ASSUME RouteInv, ReadyInv, [Next]_vars
  PROVE  HeardIsLearnt'
<1> USE DEF RouteInv
<1> SUFFICES ASSUME Fresh', NEW p \in Phone, heard'[p] = link', NEW q \in Phone, q = Other(p)
             PROVE  Learns(q)'
  BY OtherPhone DEF HeardIsLearnt
<1>1. CASE LinkUp
  <2>1. heard'[p] = heard[p] /\ link' = links + 1 /\ heard[p] \in 0 .. links /\ links \in Nat
    BY <1>1, AnnounceBounds DEF LinkUp, ReadyInv, HeardIsPast, AnnounceTypeOK, AnnounceBounds
  <2>2. heard[p] # links + 1
    BY <2>1
  <2> QED BY <2>1, <2>2
<1>2. CASE Fresh /\ ~LinkUp
  <2>1. CASE heard[p] = link
    <3>1. Learns(q)
      BY <1>2, <2>1 DEF ReadyInv, HeardIsLearnt
    <3> QED BY <1>2, <3>1, LearnsStays
  <2>2. CASE heard[p] # link
    <3>1. link' = link
      BY <1>2, FreshStays
    <3>2. Delivered(p)
      BY <1>2, <2>2, <3>1, FreshMoves DEF OnConnected, OnDisconnected, OnAnnounce, RetryFires, Delivered,
         SendSettles, Takes, vars, AnnounceTypeOK
    <3>3. /\ events[q] \in Seq(Event)
          /\ events'[q] = Append(events[q], [type |-> "announce", link |-> link])
          /\ [type |-> "announce", link |-> link] \in Event
      BY <3>2, OtherPhone, ListEvent DEF Delivered, AnnounceTypeOK
    <3>4. Comes(events'[q])
      BY <3>3, ComesAppend DEF Conn
    <3> QED BY <3>4 DEF Learns, Comes
  <2> QED BY <2>1, <2>2
<1> QED BY <1>1, <1>2, FreshStays

-----------------------------------------------------------------------------
(* The failures are shared.                                                  *)

LEMMA AttemptsCount ==
  \A t \in 0 .. Retries, m \in 0 .. MaxEvents :
    /\ Attempts(t, m) \in Nat \ {0}
    /\ Attempts(IF Retries > 0 THEN 1 ELSE 0, m) = IF m = 0 THEN 1 ELSE 2
    /\ t > 0 => Attempts(IF t < Retries THEN t + 1 ELSE 0, m) = Attempts(t, m) + 1
BY AnnounceBounds DEF AnnounceBounds, Attempts

Fails(p) == SendSettles(p, FALSE)

\* One ANNOUNCE more under way costs one attempt, and a failed send one share.
LEMMA AttemptsPaid ==
  ASSUME RouteInv, ReadyInv, [Next]_vars, Fresh, Fresh', ~LinkUp,
         NEW q \in Phone, Informed(q), heard'[q] # link'
  PROVE  /\ heard[q] # link
         /\ \/ Attempts(timer'[q], mapped'[q]) - Len(sends'[q])
                 <= Attempts(timer[q], mapped[q]) - Len(sends[q])
            \/ /\ Fails(q)
               /\ Attempts(timer'[q], mapped'[q]) - Len(sends'[q])
                    <= Attempts(timer[q], mapped[q]) - Len(sends[q]) + 1
<1> USE AnnounceBounds DEF RouteInv, AnnounceBounds
<1>0. /\ timer \in [Phone -> 0 .. Retries] /\ mapped \in [Phone -> 0 .. MaxEvents]
      /\ sends \in [Phone -> Seq(BOOLEAN)] /\ events \in [Phone -> Seq(Event)]
      /\ adapter \in [Phone -> BOOLEAN] /\ announced \in [Phone -> BOOLEAN]
      /\ heard \in [Phone -> 0 .. MaxEvents]
      /\ Len(sends[q]) \in Nat /\ Retries \in Nat
  BY DEF AnnounceTypeOK
<1>1. link' = link /\ link # 0
  BY FreshStays DEF Fresh
<1>2. heard[q] # link
  BY <1>0, <1>1, FreshMoves DEF OnConnected, OnDisconnected, OnAnnounce, RetryFires, Delivered,
     SendSettles, Takes, vars
<1>3. /\ adapter[q] /\ connected[q] /\ ~announced[q]
      /\ sends[q] # <<>> => ~sends[q][1]
  BY <1>1, <1>2 DEF ReadyInv, BothAreReady, AnnouncedIsHeard, AirIsHeard
<1>4. \A b \in BOOLEAN : Len(Append(sends[q], b)) = Len(sends[q]) + 1
  BY <1>0
<1>5. Attempts(timer[q], mapped[q]) \in Nat \ {0}
  BY <1>0, AttemptsCount
<1> DEFINE Paid ==
      \/ Attempts(timer'[q], mapped'[q]) - Len(sends'[q])
           <= Attempts(timer[q], mapped[q]) - Len(sends[q])
      \/ /\ Fails(q)
         /\ Attempts(timer'[q], mapped'[q]) - Len(sends'[q])
              <= Attempts(timer[q], mapped[q]) - Len(sends[q]) + 1
<1>6. ASSUME timer'[q] = timer[q], mapped'[q] = mapped[q], sends'[q] = sends[q]
      PROVE  Paid
  <2>1. Attempts(timer'[q], mapped'[q]) = Attempts(timer[q], mapped[q])
    BY <1>6
  <2> QED BY <1>0, <1>5, <1>6, <2>1
<1>7. ASSUME NEW p \in Phone, OnConnected(p) \/ OnDisconnected(p) PROVE Paid
  <2>1. p # q
    BY <1>7, NewsIsTaken
  <2>2. CASE OnConnected(p)
    <3>1. Schedule(p, FALSE, 0, FALSE) /\ 0 \in 0 .. Retries /\ FALSE \in BOOLEAN
      <4>1. 0 \in 0 .. Retries /\ FALSE \in BOOLEAN
        BY <1>0
      <4> QED BY <2>2, <4>1 DEF OnConnected
    <3>2. sends'[q] = sends[q] /\ timer'[q] = timer[q]
      BY <2>1, <3>1, ScheduleEffect
    <3>3. mapped'[q] = mapped[q]
      BY <1>0, <2>1, <2>2 DEF OnConnected
    <3> QED BY <1>6, <3>2, <3>3
  <2>3. CASE OnDisconnected(p)
    BY <1>0, <1>6, <2>1, <2>3 DEF OnDisconnected
  <2> QED BY <1>7, <2>2, <2>3
<1>8. ASSUME NEW p \in Phone, OnAnnounce(p) PROVE Paid
  <2>1. CASE p # q
    <3>1. mapped'[q] = mapped[q]
      BY <1>0, <1>8, <2>1 DEF OnAnnounce
    <3>2. sends'[q] = sends[q] /\ timer'[q] = timer[q]
      <4>1. UNCHANGED <<timer, sends>> \/ Schedule(p, announced[p], timer[p], TRUE)
        BY <1>8 DEF OnAnnounce
      <4>2. announced[p] \in BOOLEAN /\ timer[p] \in 0 .. Retries /\ TRUE \in BOOLEAN
        BY <1>0
      <4> QED BY <2>1, <4>1, <4>2, ScheduleEffect
    <3> QED BY <1>6, <3>1, <3>2
  <2>2. CASE p = q
    <3>1. Quiet(Tail(events[q]))
      <4>1. events[q] # <<>>
        BY <1>8, <2>2 DEF OnAnnounce, Takes
      <4> QED BY <1>0, <4>1, QuietTail DEF Informed, Quiet, Conn
    <3>2. mapped'[q] # 0
      BY <1>1, <1>8, <2>2, <3>1, AnnounceIsLearnt
    <3>3. CASE mapped[q] = 0
      <4>1. /\ sends' = [sends EXCEPT ![q] = Append(@, FALSE)]
            /\ timer' = [timer EXCEPT ![q] = IF Retries > 0 THEN 1 ELSE 0]
        BY <1>0, <1>3, <1>8, <2>2, <3>3 DEF OnAnnounce, Schedule, SendAnnounce
      <4>2. Attempts(timer'[q], mapped'[q]) = 2
        <5>1. timer'[q] = IF Retries > 0 THEN 1 ELSE 0
          BY <1>0, <4>1
        <5>2. mapped'[q] \in 0 .. MaxEvents
          BY TypeStep DEF AnnounceTypeOK
        <5> QED BY <3>2, <5>1, <5>2, AttemptsCount
      <4>3. Len(sends'[q]) = Len(sends[q]) + 1
        BY <1>0, <1>4, <4>1
      <4> QED BY <1>0, <1>5, <4>2, <4>3
    <3>4. CASE mapped[q] # 0
      <4>1. UNCHANGED <<timer, sends>>
        BY <1>3, <1>8, <2>2, <3>4 DEF OnAnnounce
      <4>2. Attempts(timer'[q], mapped'[q]) = Attempts(timer[q], mapped[q])
        <5>1. mapped'[q] \in 0 .. MaxEvents
          BY TypeStep DEF AnnounceTypeOK
        <5> QED BY <1>0, <3>2, <3>4, <4>1, <5>1 DEF Attempts
      <4> QED BY <1>0, <1>5, <4>1, <4>2
    <3> QED BY <3>3, <3>4
  <2> QED BY <2>1, <2>2
<1>9. ASSUME NEW p \in Phone, RetryFires(p) PROVE Paid
  <2>1. CASE p # q
    BY <1>0, <1>6, <1>9, <2>1 DEF RetryFires, SendAnnounce
  <2>2. CASE p = q
    <3>1. /\ timer[q] > 0
          /\ sends' = [sends EXCEPT ![q] = Append(@, FALSE)]
          /\ timer' = [timer EXCEPT ![q] = IF @ < Retries THEN @ + 1 ELSE 0]
          /\ mapped' = mapped
      BY <1>3, <1>9, <2>2 DEF RetryFires, SendAnnounce
    <3>2. Attempts(timer'[q], mapped'[q]) = Attempts(timer[q], mapped[q]) + 1
      <4>1. timer'[q] = IF timer[q] < Retries THEN timer[q] + 1 ELSE 0
        BY <1>0, <3>1
      <4> QED BY <1>0, <3>1, <4>1, AttemptsCount
    <3>3. Len(sends'[q]) = Len(sends[q]) + 1
      BY <1>0, <1>4, <3>1
    <3> QED BY <1>0, <1>5, <3>2, <3>3
  <2> QED BY <2>1, <2>2
<1>10. ASSUME NEW p \in Phone, Delivered(p) PROVE Paid
  <2>1. p # q
    BY <1>0, <1>1, <1>10 DEF Delivered
  <2> QED BY <1>0, <1>6, <1>10, <2>1 DEF Delivered, hookVars
<1>11. ASSUME NEW p \in Phone, NEW ok \in BOOLEAN, SendSettles(p, ok) PROVE Paid
  <2>1. CASE p # q
    BY <1>0, <1>6, <1>11, <2>1 DEF SendSettles
  <2>2. CASE p = q
    <3>1. sends[q] # <<>> /\ sends' = [sends EXCEPT ![q] = Tail(@)]
      BY <1>11, <2>2 DEF SendSettles
    <3>2. ~ok
      BY <1>0, <1>3, <1>11, <2>2, <3>1, TailAt DEF SendSettles
    <3>3. Len(sends'[q]) = Len(sends[q]) - 1
      BY <1>0, <3>1
    <3>4. Attempts(timer'[q], mapped'[q]) = Attempts(timer[q], mapped[q])
      BY <1>11 DEF SendSettles
    <3>5. Fails(q)
      BY <1>11, <2>2, <3>2 DEF Fails
    <3> QED BY <1>0, <1>5, <3>3, <3>4, <3>5
  <2> QED BY <2>1, <2>2
<1>12. CASE UNCHANGED vars
  BY <1>6, <1>12 DEF vars, hookVars
<1>13. Paid
  BY <1>7, <1>8, <1>9, <1>10, <1>11, <1>12, FreshMoves
<1> QED BY <1>2, <1>13

LEMMA ShareStep ==
  ASSUME RouteInv, ReadyInv, [Next]_vars
  PROVE  FailuresAreShared'
<1> USE AnnounceBounds DEF RouteInv, AnnounceBounds
<1> SUFFICES ASSUME Fresh' PROVE \E f \in [Phone -> Nat] : Shares(f)'
  BY DEF FailuresAreShared
<1>0. failures \in Nat /\ \A p \in Phone : Other(p) \in Phone /\ Other(p) # p
  BY OtherPhone DEF AnnounceTypeOK
<1>1. CASE LinkUp
  <2> DEFINE f == [p \in Phone |-> 0]
  <2>1. \A p \in Phone : ~Informed(p)'
    BY <1>1, LinkEvent
  <2>2. failures' = failures
    BY <1>1 DEF LinkUp
  <2>3. f \in [Phone -> Nat] /\ \A p \in Phone : f[p] = 0
    OBVIOUS
  <2>4. Shares(f)'
    BY <1>0, <2>1, <2>2, <2>3 DEF Shares
  <2> QED BY <2>3, <2>4
<1>2. CASE Fresh /\ ~LinkUp
  <2>1. PICK f \in [Phone -> Nat] : Shares(f)
    BY <1>2 DEF ReadyInv, FailuresAreShared
  <2>2. link' = link /\ link # 0
    BY <1>2, FreshStays DEF Fresh
  <2>3. AnnounceTypeOK'
    BY TypeStep
  <2>4. \A q \in Phone : /\ Len(sends[q]) \in Nat /\ Len(sends'[q]) \in Nat
                         /\ Attempts(timer[q], mapped[q]) \in Nat
                         /\ Attempts(timer'[q], mapped'[q]) \in Nat
    <3>1. ASSUME NEW q \in Phone
          PROVE  /\ Len(sends[q]) \in Nat /\ Len(sends'[q]) \in Nat
                 /\ timer[q] \in 0 .. Retries /\ mapped[q] \in 0 .. MaxEvents
                 /\ timer'[q] \in 0 .. Retries /\ mapped'[q] \in 0 .. MaxEvents
      <4>1. /\ timer \in [Phone -> 0 .. Retries] /\ mapped \in [Phone -> 0 .. MaxEvents]
            /\ sends \in [Phone -> Seq(BOOLEAN)]
        BY DEF AnnounceTypeOK
      <4>2. /\ timer' \in [Phone -> 0 .. Retries] /\ mapped' \in [Phone -> 0 .. MaxEvents]
            /\ sends' \in [Phone -> Seq(BOOLEAN)]
        BY <2>3 DEF AnnounceTypeOK
      <4> QED BY <4>1, <4>2
    <3> QED BY <3>1, AttemptsCount
  \* A phone that has just handled the connection event has made one attempt.
  <2>5. ASSUME NEW q \in Phone, OnConnected(q)
        PROVE  Attempts(timer'[q], mapped'[q]) <= Len(sends'[q])
    <3>1. adapter[q] /\ timer[q] \in 0 .. Retries /\ sends[q] \in Seq(BOOLEAN)
          /\ timer \in [Phone -> 0 .. Retries] /\ sends \in [Phone -> Seq(BOOLEAN)]
          /\ mapped \in [Phone -> 0 .. MaxEvents]
      BY <1>2 DEF ReadyInv, BothAreReady, AnnounceTypeOK
    <3>2. /\ sends' = [sends EXCEPT ![q] = Append(@, FALSE)]
          /\ timer' = [timer EXCEPT ![q] = IF Retries > 0 THEN 1 ELSE 0]
          /\ mapped' = [mapped EXCEPT ![q] = 0]
      <4>1. adapter' = adapter /\ Schedule(q, FALSE, 0, FALSE) /\ mapped' = [mapped EXCEPT ![q] = 0]
        BY <2>5 DEF OnConnected
      <4>2. SendAnnounce(q) /\ timer' = [timer EXCEPT ![q] = IF Retries > 0 THEN 1 ELSE 0]
        BY <3>1, <4>1 DEF Schedule
      <4> QED BY <3>1, <4>1, <4>2 DEF SendAnnounce
    <3>3. Attempts(timer'[q], mapped'[q]) = 1
      <4>1. timer'[q] = (IF Retries > 0 THEN 1 ELSE 0) /\ mapped'[q] = 0
        BY <3>1, <3>2
      <4> QED BY <4>1, AttemptsCount
    <3>4. Len(sends'[q]) = Len(sends[q]) + 1
      BY <3>1, <3>2
    <3> QED BY <2>4, <3>3, <3>4
  <2>6. ASSUME NEW q \in Phone, Informed(q)', heard'[q] # link'
        PROVE  \/ Attempts(timer'[q], mapped'[q]) <= f[q] + Len(sends'[q])
               \/ /\ Fails(q)
                  /\ Attempts(timer'[q], mapped'[q]) <= f[q] + 1 + Len(sends'[q])
    <3>1. f[q] \in Nat
      OBVIOUS
    <3>2. CASE OnConnected(q)
      BY <2>4, <2>5, <3>1, <3>2
    <3>3. CASE Informed(q)
      <4>1. Attempts(timer[q], mapped[q]) <= f[q] + Len(sends[q])
        BY <1>2, <2>1, <2>6, <3>3, AttemptsPaid DEF Shares
      <4>2. \/ Attempts(timer'[q], mapped'[q]) - Len(sends'[q])
                 <= Attempts(timer[q], mapped[q]) - Len(sends[q])
            \/ /\ Fails(q)
               /\ Attempts(timer'[q], mapped'[q]) - Len(sends'[q])
                    <= Attempts(timer[q], mapped[q]) - Len(sends[q]) + 1
        BY <1>2, <2>6, <3>3, AttemptsPaid
      <4> QED BY <2>4, <3>1, <4>1, <4>2
    <3> QED BY <1>2, <2>6, <3>2, <3>3, FreshNews
  <2>7. ASSUME NEW p \in Phone, Fails(p) PROVE \E g \in [Phone -> Nat] : Shares(g)'
    <3> DEFINE g == [f EXCEPT ![p] = f[p] + 1]
    <3>1. /\ g \in [Phone -> Nat] /\ g[p] = f[p] + 1
          /\ \A q \in Phone : q # p => g[q] = f[q]
      OBVIOUS
    <3> HIDE DEF g
    <3>2. failures' = failures + 1
      BY <2>2, <2>7 DEF Fails, SendSettles
    <3>3. \A q \in Phone : f[q] \in Nat /\ f[q] + f[Other(q)] <= failures
      BY <2>1 DEF Shares
    <3>4. ASSUME NEW q \in Phone PROVE g[q] + g[Other(q)] <= failures'
      BY <1>0, <3>1, <3>2, <3>3
    <3>5. ASSUME NEW q \in Phone, Informed(q)', heard'[q] # link'
          PROVE  Attempts(timer'[q], mapped'[q]) <= g[q] + Len(sends'[q])
      <4>1. CASE q = p
        <5>1. Attempts(timer'[q], mapped'[q]) <= f[q] + 1 + Len(sends'[q])
          BY <2>4, <2>6, <3>3, <3>5
        <5>2. g[q] = f[q] + 1
          BY <3>1, <4>1
        <5> QED BY <5>1, <5>2
      <4>2. CASE q # p
        <5>1. ~Fails(q)
          <6>1. sends' = [sends EXCEPT ![p] = Tail(@)] /\ sends \in [Phone -> Seq(BOOLEAN)]
            BY <2>7 DEF Fails, SendSettles, AnnounceTypeOK
          <6>2. ASSUME Fails(q) PROVE FALSE
            <7>1. sends[q] # <<>> /\ sends'[q] = Tail(sends[q]) /\ sends[q] \in Seq(BOOLEAN)
              BY <6>1, <6>2 DEF Fails, SendSettles
            <7>2. Tail(sends[q]) = sends[q]
              BY <4>2, <6>1, <7>1
            <7>3. Len(Tail(sends[q])) = Len(sends[q]) - 1 /\ Len(sends[q]) \in Nat
              BY <7>1, HeadTailProperties
            <7>4. Len(Tail(sends[q])) = Len(sends[q])
              BY <7>2
            <7> DEFINE n == Len(sends[q])
            <7>5. n \in Nat /\ n = n - 1
              BY <7>3, <7>4
            <7> HIDE DEF n
            <7> QED BY <7>5
          <6> QED BY <6>2
        <5> QED BY <2>6, <3>1, <3>5, <4>2, <5>1
      <4> QED BY <4>1, <4>2
    <3>6. Shares(g)'
      BY <3>4, <3>5 DEF Shares
    <3> QED BY <3>1, <3>6
  <2>8. CASE \A p \in Phone : ~Fails(p)
    <3>1. failures' = failures
      BY <1>2, <2>8, FreshMoves DEF Fails, OnConnected, OnDisconnected, OnAnnounce, RetryFires, Delivered,
         SendSettles, Takes, vars
    <3>2. Shares(f)'
      BY <2>1, <2>6, <2>8, <3>1 DEF Shares
    <3> QED BY <3>2
  <2> QED BY <2>7, <2>8
<1> QED BY <1>1, <1>2, FreshStays

LEMMA InitReady == Init => ReadyInv
<1> SUFFICES ASSUME Init PROVE ReadyInv
  OBVIOUS
<1>1. VoiceIsOff /\ ListedOnce
  BY DEF Init, VoiceIsOff, ListedOnce, NoneOf
<1>2. HeardIsPast
  BY DEF Init, HeardIsPast
<1>3. BothAreReady /\ HeardIsLearnt /\ FailuresAreShared
  BY DEF Init, Fresh, BothAreReady, HeardIsLearnt, FailuresAreShared
<1> QED BY <1>1, <1>2, <1>3 DEF ReadyInv

LEMMA StepReady == RouteInv /\ ReadyInv /\ [Next]_vars => ReadyInv'
  BY VoiceStep, ListStep, HeardStep, BothStep, LearntStep, ShareStep DEF ReadyInv, RouteInv

\* When all is said both ends of a link have their route, if no more sends
\* failed than a schedule holds (useBLEVoiceMode.ts:1739-1740).  A phone without
\* a route was given no ANNOUNCE, so every attempt of its peer failed; and the
\* peer either made one attempt more, as it has a route itself, or has none,
\* and then a second schedule failed as well.
THEOREM RoutesAlwaysReadyAtRest == Spec => []RoutesReadyAtRest
<1>1. RouteInv /\ ReadyInv => RoutesReadyAtRest
  <2> SUFFICES ASSUME RouteInv, ReadyInv, AtRest, Fresh, failures <= Retries + 1, NEW q \in Phone
               PROVE  RouteReady(q)
    BY DEF RoutesReadyAtRest, Fresh
  <2> DEFINE p == Other(q)
  <2>1. /\ p \in Phone /\ p # q /\ Other(p) = q /\ Retries \in Nat /\ failures \in Nat
    BY TwoPhones, OtherPhone, AnnounceBounds DEF TwoPhones, AnnounceBounds, RouteInv, AnnounceTypeOK
  <2>2. ASSUME NEW r \in Phone
        PROVE  /\ events[r] = <<>> /\ sends[r] = <<>> /\ timer[r] = 0 /\ Informed(r)
               /\ connected[r] /\ Len(sends[r]) = 0
    BY DEF AtRest, Idle, Informed, ReadyInv, BothAreReady
  <2>3. ASSUME NEW r \in Phone, heard[r] = link PROVE mapped[Other(r)] # 0
    BY <2>2, <2>3, OtherPhone DEF ReadyInv, HeardIsLearnt, Learns
  <2>4. PICK f \in [Phone -> Nat] : Shares(f)
    BY DEF ReadyInv, FailuresAreShared
  <2>5. f[p] \in Nat /\ f[q] \in Nat /\ f[p] + f[q] <= failures
    BY <2>1, <2>4 DEF Shares
  <2>6. ASSUME NEW r \in Phone, heard[r] # link
        PROVE  Retries + 1 + (IF mapped[r] = 0 THEN 0 ELSE 1) <= f[r]
    BY <2>1, <2>2, <2>4, <2>6 DEF Shares, Attempts
  <2>7. ASSUME mapped[q] = 0 PROVE FALSE
    <3> HIDE DEF p
    <3>1. heard[p] # link
      BY <2>1, <2>3, <2>7
    <3>2. CASE mapped[p] = 0
      <4>1. heard[q] # link
        BY <2>3, <3>2 DEF p
      <4> QED BY <2>1, <2>5, <2>6, <2>7, <3>1, <3>2, <4>1
    <3>3. CASE mapped[p] # 0
      BY <2>1, <2>5, <2>6, <3>1, <3>3
    <3> QED BY <3>2, <3>3
  <2> QED BY <2>2, <2>7 DEF RouteReady
<1>2. Spec => []ReadyInv
  BY InitReady, StepReady, RouteAlways, PTL DEF Spec
<1> QED BY <1>1, <1>2, RouteAlways, PTL
==============================================================================
