-------------------------- MODULE AnnounceHandshake --------------------------
(***************************************************************************)
(* How the two ends of a BLE link learn each other's BITCHAT identity: the *)
(* ANNOUNCE sender of useBLEVoiceMode with its bounded retries, the        *)
(* connection events that reset it, the reconciliation with the native     *)
(* peer list, and the adapter's processAnnounce that registers the peer.   *)
(*                                                                         *)
(* A direct route is what push-to-talk and chat wait for.  Handlers run to *)
(* completion on the JavaScript thread; between them lie the native send   *)
(* of an ANNOUNCE (`sends`), the events queued for the hook (`events`),    *)
(* the storage read before the adapter exists (`creations`) and the timer. *)
(* An app whose hook is not mounted hears nothing, though its GATT server  *)
(* keeps the link.                                                         *)
(***************************************************************************)
EXTENDS Naturals, Sequences

CONSTANTS
  Phone,       \* the two ends of the link
  Retries,     \* Len(ANNOUNCE_RETRY_DELAYS_MS)
  MaxEvents    \* bound: links made, sends that fail on a healthy link and changes
               \* of voice mode, all together

ASSUME TwoPhones == \E p, q \in Phone : p # q /\ Phone = {p, q}
ASSUME AnnounceBounds == {Retries, MaxEvents} \subseteq Nat

VARIABLES
  mounted,    \* the hook is mounted
  adapter,    \* bitchatAdapterRef is set
  creations,  \* getOrCreateAdapter calls awaiting storage: the list each saw
  connected,  \* connectedPeersRef has the peer
  announced,  \* announcedPeersRef has the peer
  timer,      \* retry number the pending timer stands for, 0 if none
  enabled,    \* voice mode is on
  mapped,     \* link whose ANNOUNCE the adapter's mapping came from, or 0
  events,     \* events and native replies queued for the hook
  sends,      \* ANNOUNCEs given to NativeBLE.send: was it on the air yet
  link,       \* number of the current link, 0 while there is none
  links, failures, toggles,
  early,      \* history: the link was made before both adapters existed
  heard       \* history: last link on which the peer was given our ANNOUNCE

hookVars == <<mounted, adapter, creations, connected, announced, timer, enabled,
              mapped>>
vars == <<hookVars, events, sends, link, links, failures, toggles, early, heard>>

MayHappen == links + failures + toggles < MaxEvents

Other(p) == CHOOSE q \in Phone : q # p

Event ==
  [type: {"connected", "disconnected", "announce", "list", "voice"}, link: 0..MaxEvents]

AnnounceTypeOK ==
  /\ mounted \in [Phone -> BOOLEAN]
  /\ adapter \in [Phone -> BOOLEAN]
  /\ creations \in [Phone -> Seq(BOOLEAN)]
  /\ connected \in [Phone -> BOOLEAN]
  /\ announced \in [Phone -> BOOLEAN]
  /\ timer \in [Phone -> 0..Retries]
  /\ enabled \in [Phone -> BOOLEAN]
  /\ mapped \in [Phone -> 0..MaxEvents]
  /\ events \in [Phone -> Seq(Event)]
  /\ sends \in [Phone -> Seq(BOOLEAN)]
  /\ link \in 0..MaxEvents
  /\ links \in 0..MaxEvents
  /\ failures \in 0..MaxEvents
  /\ toggles \in 0..MaxEvents
  /\ early \in BOOLEAN
  /\ heard \in [Phone -> 0..MaxEvents]

Init ==
  /\ mounted   = [p \in Phone |-> FALSE]
  /\ adapter   = [p \in Phone |-> FALSE]
  /\ creations = [p \in Phone |-> <<>>]
  /\ connected = [p \in Phone |-> FALSE]
  /\ announced = [p \in Phone |-> FALSE]
  /\ timer     = [p \in Phone |-> 0]
  /\ enabled   = [p \in Phone |-> FALSE]
  /\ mapped    = [p \in Phone |-> 0]
  /\ events    = [p \in Phone |-> <<>>]
  /\ sends     = [p \in Phone |-> <<>>]
  /\ link = 0 /\ links = 0 /\ failures = 0 /\ toggles = 0 /\ early = FALSE
  /\ heard     = [p \in Phone |-> 0]

-----------------------------------------------------------------------------
(* The sender. *)

\* sendAnnounceToPeer, past its test of announcedPeersRef: without an adapter
\* it does nothing.
SendAnnounce(p) ==
  IF adapter'[p]
  THEN sends' = [sends EXCEPT ![p] = Append(@, FALSE)]
  ELSE UNCHANGED sends

\* Mutation: only the first attempt is scheduled.
MutSchedule(p, done, pending, force) ==
  IF done \/ (pending > 0 /\ ~force)
  THEN /\ timer' = [timer EXCEPT ![p] = pending]
       /\ UNCHANGED sends
  ELSE /\ SendAnnounce(p)
       /\ timer' = [timer EXCEPT ![p] = 0]

\* scheduleAnnounceToPeer, with `done` for the announced flag, `pending` for
\* the timer: an announced peer is left alone, a running schedule is replaced
\* only by force.
Schedule(p, done, pending, force) ==
  IF done \/ (pending > 0 /\ ~force)
  THEN /\ timer' = [timer EXCEPT ![p] = pending]
       /\ UNCHANGED sends
  ELSE /\ SendAnnounce(p)
       /\ timer' = [timer EXCEPT ![p] = IF Retries > 0 THEN 1 ELSE 0]

\* The timer of retry number timer[p] fires.
RetryFires(p) ==
  /\ timer[p] > 0
  /\ UNCHANGED <<mounted, adapter, creations, connected, announced, enabled,
                 mapped, events, link, links, failures, toggles, early, heard>>
  /\ IF announced[p] \/ ~adapter[p] \/ ~connected[p]
     THEN /\ timer' = [timer EXCEPT ![p] = 0]
          /\ UNCHANGED sends
     ELSE /\ SendAnnounce(p)
          /\ timer' = [timer EXCEPT ![p] = IF @ < Retries THEN @ + 1 ELSE 0]

\* The native layer hands the ANNOUNCE at the head to the peer.
Delivered(p) ==
  /\ sends[p] # <<>> /\ ~Head(sends[p])
  /\ link # 0
  /\ sends' = [sends EXCEPT ![p][1] = TRUE]
  /\ heard' = [heard EXCEPT ![p] = link]
  /\ events' = [events EXCEPT ![Other(p)] = Append(@, [type |-> "announce", link |-> link])]
  /\ UNCHANGED <<hookVars, link, links, failures, toggles, early>>

\* NativeBLE.send settles.  It may fail on a healthy link, because the peer
\* has not enabled notifications yet or because the wait timed out.
SendSettles(p, ok) ==
  /\ sends[p] # <<>>
  /\ IF ok THEN Head(sends[p]) /\ UNCHANGED failures
     ELSE IF link = 0 THEN UNCHANGED failures
     ELSE MayHappen /\ failures' = failures + 1
  /\ sends' = [sends EXCEPT ![p] = Tail(@)]
  /\ announced' = [announced EXCEPT ![p] = @ \/ ok]
  /\ UNCHANGED <<mounted, adapter, creations, connected, timer, enabled, mapped,
                 events, link, links, toggles, early, heard>>

-----------------------------------------------------------------------------
(* Events of the native layer, in the order in which they were posted. *)

Takes(p, type) ==
  /\ events[p] # <<>>
  /\ Head(events[p]).type = type
  /\ mounted[p]
  /\ UNCHANGED <<mounted, link, links, failures, toggles, early, heard>>

Handled(p) == events' = [events EXCEPT ![p] = Tail(@)]

\* No listener: the event is gone.
Unheard(p) ==
  /\ events[p] # <<>>
  /\ ~mounted[p]
  /\ Handled(p)
  /\ UNCHANGED <<hookVars, sends, link, links, failures, toggles, early, heard>>

\* Mutation: the announce state of the link before is kept.
MutOnConnected(p) ==
  /\ Takes(p, "connected") /\ Handled(p)
  /\ mapped' = [mapped EXCEPT ![p] = 0]
  /\ connected' = [connected EXCEPT ![p] = TRUE]
  /\ UNCHANGED <<adapter, creations, announced, enabled>>
  /\ Schedule(p, announced[p], timer[p], FALSE)

\* BLE_CONNECTED: "a fresh connection-scoped route", then the first ANNOUNCE.
OnConnected(p) ==
  /\ Takes(p, "connected") /\ Handled(p)
  /\ mapped' = [mapped EXCEPT ![p] = 0]
  /\ announced' = [announced EXCEPT ![p] = FALSE]
  /\ connected' = [connected EXCEPT ![p] = TRUE]
  /\ UNCHANGED <<adapter, creations, enabled>>
  /\ Schedule(p, FALSE, 0, FALSE)

\* The native list as it is now goes to the end of the events q.
WithList(q) == Append(q, [type |-> "list", link |-> link])

VoiceOff(p) ==
  /\ enabled' = [enabled EXCEPT ![p] = FALSE]
  /\ events' = [events EXCEPT ![p] = IF enabled[p] THEN WithList(Tail(@)) ELSE Tail(@)]

\* Mutation: the peer is not unregistered.
MutOnDisconnected(p) ==
  /\ Takes(p, "disconnected")
  /\ VoiceOff(p)
  /\ connected' = [connected EXCEPT ![p] = FALSE]
  /\ announced' = [announced EXCEPT ![p] = FALSE]
  /\ timer' = [timer EXCEPT ![p] = 0]
  /\ UNCHANGED <<adapter, creations, mapped, sends>>

\* BLE_DISCONNECTED: unregisterPeer and resetAnnounceState.  Voice mode goes
\* off, so that the effect runs again and reconciles.
OnDisconnected(p) ==
  /\ Takes(p, "disconnected")
  /\ VoiceOff(p)
  /\ mapped' = [mapped EXCEPT ![p] = 0]
  /\ connected' = [connected EXCEPT ![p] = FALSE]
  /\ announced' = [announced EXCEPT ![p] = FALSE]
  /\ timer' = [timer EXCEPT ![p] = 0]
  /\ UNCHANGED <<adapter, creations, sends>>

\* processAnnounce: register the peer; if it was unknown, answer at once.
\* Without an adapter the frame is dropped.
OnAnnounce(p) ==
  /\ Takes(p, "announce") /\ Handled(p)
  /\ UNCHANGED <<adapter, creations, connected, announced, enabled>>
  /\ IF adapter[p]
     THEN /\ mapped' = [mapped EXCEPT ![p] = Head(events[p]).link]
          /\ IF mapped[p] = 0
             THEN Schedule(p, announced[p], timer[p], TRUE)
             ELSE UNCHANGED <<timer, sends>>
     ELSE UNCHANGED <<mapped, timer, sends>>

\* reconcileConnectedPeers once the adapter is there: drop the route of a peer
\* the list did not name, announce to a listed one that has no route.
Apply(p, live, known) ==
  LET gone == ~live /\ known # 0 IN
  /\ announced' = [announced EXCEPT ![p] = @ /\ ~gone]
  /\ mapped' = [mapped EXCEPT ![p] = IF gone THEN 0 ELSE known]
  /\ IF live /\ ~(connected'[p] /\ known # 0)
     THEN Schedule(p, announced[p], timer[p], FALSE)
     ELSE /\ timer' = [timer EXCEPT ![p] = IF gone THEN 0 ELSE @]
          /\ UNCHANGED sends

\* The answer for toggleVoiceMode: with a peer, voice mode goes on.  The
\* effect that depends on it runs again: its cleanup clears the retry timers,
\* its body reconciles.
OnVoicePeer(p) ==
  LET live == Head(events[p]).link # 0
      rerun == live /\ ~enabled[p] IN
  /\ Takes(p, "voice")
  /\ connected' = [connected EXCEPT ![p] = @ \/ live]
  /\ enabled' = [enabled EXCEPT ![p] = @ \/ live]
  /\ timer' = [timer EXCEPT ![p] = IF rerun THEN 0 ELSE @]
  /\ events' = [events EXCEPT ![p] = IF rerun THEN WithList(Tail(@)) ELSE Tail(@)]
  /\ UNCHANGED <<adapter, creations, announced, mapped, sends>>

\* The native peer list arrives: connectedPeersRef follows it.  Without an
\* adapter the rest waits for one, with the list as it was.
OnList(p) ==
  LET live == Head(events[p]).link # 0 IN
  /\ Takes(p, "list") /\ Handled(p)
  /\ connected' = [connected EXCEPT ![p] = live]
  /\ UNCHANGED <<adapter, enabled>>
  /\ IF adapter[p]
     THEN Apply(p, live, mapped[p]) /\ UNCHANGED creations
     ELSE /\ creations' = [creations EXCEPT ![p] = Append(@, live)]
          /\ UNCHANGED <<announced, timer, mapped, sends>>

\* The stored node id was read: a new adapter, which replaces one that a
\* concurrent call has created meanwhile.
AdapterCreated(p) ==
  /\ creations[p] # <<>>
  /\ creations' = [creations EXCEPT ![p] = Tail(@)]
  /\ adapter' = [adapter EXCEPT ![p] = TRUE]
  /\ UNCHANGED <<mounted, connected, enabled, events, link, links, failures, toggles, early, heard>>
  /\ Apply(p, Head(creations[p]), 0)

-----------------------------------------------------------------------------
(* The app and the link. *)

\* reconcileConnectedPeers asks for the native peer list.
Reconcile(p) == events' = [events EXCEPT ![p] = WithList(@)]

\* The hook mounts with fresh refs and reconciles.
Mount(p) ==
  /\ ~mounted[p]
  /\ mounted' = [mounted EXCEPT ![p] = TRUE]
  /\ Reconcile(p)
  /\ UNCHANGED <<adapter, creations, connected, announced, timer, enabled, mapped,
                 sends, link, links, failures, toggles, early, heard>>

\* toggleVoiceMode: off at once, on when the native layer names a connected
\* peer.
ToggleVoiceMode(p) ==
  /\ mounted[p]
  /\ MayHappen
  /\ toggles' = toggles + 1
  /\ UNCHANGED <<mounted, adapter, creations, connected, announced, mapped, sends,
                 link, links, failures, early, heard>>
  /\ IF enabled[p]
     THEN /\ enabled' = [enabled EXCEPT ![p] = FALSE]
          /\ timer' = [timer EXCEPT ![p] = 0]
          /\ Reconcile(p)
     ELSE /\ events' = [events EXCEPT ![p] = Append(@, [type |-> "voice", link |-> link])]
          /\ UNCHANGED <<enabled, timer>>

\* Nothing is under way on p: no event, send, timer or storage read.
Idle(p) ==
  mounted[p] /\ events[p] = <<>> /\ sends[p] = <<>> /\ timer[p] = 0 /\ creations[p] = <<>>

\* beginPttTurn reconciles too (bound: with nothing else under way).
PttReconciles(p) ==
  /\ enabled[p]
  /\ Idle(p)
  /\ Reconcile(p)
  /\ UNCHANGED <<hookVars, sends, link, links, failures, toggles, early, heard>>

\* A link is made.  The sends of the one before have settled by then: the
\* native layer fails them when it sees the disconnect.
LinkUp ==
  /\ link = 0
  /\ MayHappen
  /\ early' = (\E p \in Phone : ~adapter[p] \/ creations[p] # <<>>)
  /\ \A p \in Phone : sends[p] = <<>>
  /\ links' = links + 1
  /\ link' = links + 1
  /\ events' = [p \in Phone |->
                  Append(events[p], [type |-> "connected", link |-> links + 1])]
  /\ UNCHANGED <<hookVars, sends, failures, toggles, heard>>

LinkDown ==
  /\ link # 0
  /\ MayHappen
  /\ link' = 0
  /\ events' = [p \in Phone |->
                  Append(events[p], [type |-> "disconnected", link |-> link])]
  /\ UNCHANGED <<hookVars, sends, links, failures, toggles, early, heard>>

-----------------------------------------------------------------------------
Handle(p) ==
  \/ Unheard(p) \/ OnConnected(p) \/ OnDisconnected(p)
  \/ OnAnnounce(p) \/ OnVoicePeer(p) \/ OnList(p)

Settle(p) == \E ok \in BOOLEAN : SendSettles(p, ok)

Next ==
  \/ \E p \in Phone :
       \/ Mount(p) \/ ToggleVoiceMode(p) \/ PttReconciles(p)
       \/ Handle(p) \/ AdapterCreated(p)
       \/ RetryFires(p) \/ Delivered(p) \/ Settle(p)
  \/ LinkUp
  \/ LinkDown

Spec == Init /\ [][Next]_vars

-----------------------------------------------------------------------------
(* Properties. *)

\* No connection event is waiting for the hook.
Informed(p) ==
  \A i \in DOMAIN events[p] : events[p][i].type \notin {"connected", "disconnected"}

\* A direct route belongs to the connection: once the hook has handled the
\* connection events, a mapping comes from an ANNOUNCE of the link that is up
\* (useBLEVoiceMode.ts:1744-1745, "Do not reuse a mapping from an earlier
\* reconnect").
RouteIsOfThisLink == \A p \in Phone : mapped[p] # 0 /\ Informed(p) => mapped[p] = link

\* A connected peer counts as announced only if it was given our ANNOUNCE on
\* the current link (useBLEVoiceMode.ts:215-216), though a send may settle
\* after the link it was made on: else nothing would announce us any more.
AnnouncedOnThisLink ==
  \A p \in Phone :
    announced[p] /\ connected[p] /\ Informed(p) => link # 0 /\ heard[p] = link

RouteReady(p) == connected[p] /\ mapped[p] # 0

AtRest == \A p \in Phone : Idle(p)

\* "Bounded retries make the exchange survive a lost/too-early first send"
\* (useBLEVoiceMode.ts:1739-1740): both ends of a link have their route when
\* all is said, if no more sends fail than a schedule holds: the peer's
\* ANNOUNCE starts a phone's schedule again.  Voice mode must be left alone:
\* its toggling clears the retries of a phone that has its own route already,
\* and the reconciliation does not renew them.
RoutesReadyAtRest ==
  AtRest /\ link # 0 /\ ~early /\ toggles = 0 /\ failures <= Retries + 1 =>
    \A p \in Phone : RouteReady(p)
=============================================================================
