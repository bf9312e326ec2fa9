------------------------ MODULE PeerDirectory_proofs ------------------------
(***************************************************************************)
(* The direct map of the adapter, for any number of BLE keys and nodes, any *)
(* capacity of the discovery registry and any number of events and faults.  *)
(***************************************************************************)
EXTENDS PeerDirectory, SequenceTheorems, WellFoundedInduction, TLAPS

\* The part of the type invariant the direct map rests on: the indexes, the
\* registry and the events that feed them.
MapsTyped ==
  /\ peerMap \in [Ble -> Node \cup {None}]
  /\ reverse \in [Node -> Ble \cup {None}]
  /\ state \in [Node -> {"ABSENT", "DISCOVERED", "CONNECTED"}]
  /\ live \in [Ble -> Node \cup {None}]
  /\ events \in Seq(Event)

DirectMap == MapsTyped /\ Bijective /\ ConnectedIffMapped

\* A handled event is one of those the native layer posts.
LEMMA HandledEvent ==
  ASSUME NEW t, MapsTyped, Takes(t)
  PROVE  /\ Head(events) \in Event /\ Head(events).type = t
         /\ events' \in Seq(Event) /\ live' = live
BY DEF MapsTyped, Takes, native

LEMMA EventFields ==
  ASSUME NEW e \in Event
  PROVE  /\ e.type \in {"connected", "disconnected"} => e.ble \in Ble
         /\ e.type = "announce" => e.ble \in Ble /\ e.node \in Node
         /\ e.type = "list" => e.ids \subseteq Ble
BY DEF Event

\* Registering keeps the indexes converse and the registry beside them.
LEMMA RegisterKeepsMap ==
  ASSUME DirectMap, NEW b \in Ble, NEW n \in Node, RegisterPeer(b, n)
  PROVE  /\ peerMap' \in [Ble -> Node \cup {None}]
         /\ reverse' \in [Node -> Ble \cup {None}]
         /\ state' \in [Node -> {"ABSENT", "DISCOVERED", "CONNECTED"}]
         /\ Bijective' /\ ConnectedIffMapped'
<1>1. /\ peerMap' \in [Ble -> Node \cup {None}]
      /\ reverse' \in [Node -> Ble \cup {None}]
      /\ state' \in [Node -> {"ABSENT", "DISCOVERED", "CONNECTED"}]
  BY DEF DirectMap, MapsTyped, RegisterPeer
<1>2. ASSUME NEW c \in Ble, peerMap'[c] # None PROVE reverse'[peerMap'[c]] = c
  <2>1. CASE c = b
    BY <2>1 DEF DirectMap, MapsTyped, RegisterPeer
  <2>2. CASE c # b
    <3>1. c # reverse[n] /\ peerMap'[c] = peerMap[c] /\ peerMap[c] \in Node
      BY <1>2, <2>2 DEF DirectMap, MapsTyped, RegisterPeer
    <3>2. reverse[peerMap[c]] = c
      BY <1>2, <3>1 DEF DirectMap, Bijective
    <3>3. peerMap[c] # n /\ peerMap[c] # peerMap[b]
      BY <2>2, <3>1, <3>2, DirectoryAssumption DEF DirectMap, Bijective, DirectoryAssumption
    <3> QED BY <3>1, <3>2, <3>3 DEF RegisterPeer
  <2> QED BY <2>1, <2>2
<1>3. ASSUME NEW m \in Node, reverse'[m] # None PROVE peerMap'[reverse'[m]] = m
  <2>1. CASE m = n
    BY <2>1 DEF DirectMap, MapsTyped, RegisterPeer
  <2>2. CASE m # n
    <3>1. m # peerMap[b] /\ reverse'[m] = reverse[m] /\ reverse[m] \in Ble
      BY <1>3, <2>2 DEF DirectMap, MapsTyped, RegisterPeer
    <3>2. peerMap[reverse[m]] = m
      BY <1>3, <3>1 DEF DirectMap, Bijective
    <3>3. reverse[m] # b /\ reverse[m] # reverse[n]
      BY <2>2, <3>1, <3>2, DirectoryAssumption DEF DirectMap, Bijective, DirectoryAssumption
    <3> QED BY <3>1, <3>2, <3>3 DEF RegisterPeer
  <2> QED BY <2>1, <2>2
<1>4. ConnectedIffMapped'
  BY DirectoryAssumption DEF DirectMap, MapsTyped, ConnectedIffMapped, RegisterPeer, DirectoryAssumption
<1> QED BY <1>1, <1>2, <1>3, <1>4 DEF Bijective

\* So does unregistering any set of keys.
LEMMA UnregisterKeepsMap ==
  ASSUME DirectMap, NEW gone \in SUBSET Ble, UnregisterPeers(gone)
  PROVE  /\ peerMap' \in [Ble -> Node \cup {None}]
         /\ reverse' \in [Node -> Ble \cup {None}]
         /\ state' \in [Node -> {"ABSENT", "DISCOVERED", "CONNECTED"}]
         /\ Bijective' /\ ConnectedIffMapped'
<1> DEFINE lost == {peerMap[b] : b \in gone} \ {None}
<1>0. /\ peerMap' = [b \in Ble |-> IF b \in gone THEN None ELSE peerMap[b]]
      /\ reverse' = [n \in Node |-> IF n \in lost /\ reverse[n] \in gone THEN None ELSE reverse[n]]
      /\ state' = [n \in Node |-> IF n \in lost THEN "DISCOVERED" ELSE state[n]]
  BY DEF UnregisterPeers
<1>1. /\ peerMap' \in [Ble -> Node \cup {None}]
      /\ reverse' \in [Node -> Ble \cup {None}]
      /\ state' \in [Node -> {"ABSENT", "DISCOVERED", "CONNECTED"}]
  BY <1>0 DEF DirectMap, MapsTyped
<1>2. \A n \in Node : reverse[n] # None => (n \in lost <=> reverse[n] \in gone)
  <2>1. ASSUME NEW n \in Node, reverse[n] # None, n \in lost PROVE reverse[n] \in gone
    <3>1. PICK b \in gone : peerMap[b] = n
      BY <2>1
    <3> QED BY <2>1, <3>1 DEF DirectMap, MapsTyped, Bijective
  <2>2. ASSUME NEW n \in Node, reverse[n] # None, reverse[n] \in gone PROVE n \in lost
    BY <2>2, DirectoryAssumption DEF DirectMap, MapsTyped, Bijective, DirectoryAssumption
  <2> QED BY <2>1, <2>2
<1>3. ASSUME NEW c \in Ble, peerMap'[c] # None PROVE reverse'[peerMap'[c]] = c
  <2>1. c \notin gone /\ peerMap'[c] = peerMap[c] /\ peerMap[c] \in Node
    BY <1>0, <1>3 DEF DirectMap, MapsTyped
  <2>2. reverse[peerMap[c]] = c
    BY <2>1, <1>3 DEF DirectMap, Bijective
  <2> QED BY <1>0, <2>1, <2>2
<1>4. ASSUME NEW m \in Node, reverse'[m] # None PROVE peerMap'[reverse'[m]] = m
  <2>1. reverse'[m] = reverse[m] /\ reverse[m] \in Ble /\ reverse[m] \notin gone
    BY <1>0, <1>2, <1>4 DEF DirectMap, MapsTyped
  <2> QED BY <1>0, <1>4, <2>1 DEF DirectMap, Bijective
<1>5. ASSUME NEW n \in Node PROVE state'[n] = "CONNECTED" <=> reverse'[n] # None
  <2>1. CASE n \in lost
    <3>1. PICK b \in gone : peerMap[b] = n
      BY <2>1
    <3>2. reverse[n] = b
      BY <3>1, <2>1 DEF DirectMap, MapsTyped, Bijective
    <3> QED BY <1>0, <2>1, <3>2
  <2>2. CASE n \notin lost
    BY <1>0, <2>2 DEF DirectMap, ConnectedIffMapped
  <2> QED BY <2>1, <2>2
<1> QED BY <1>1, <1>3, <1>4, <1>5 DEF Bijective, ConnectedIffMapped

LEMMA DirectMapInit == Init => DirectMap
<1> SUFFICES ASSUME Init PROVE DirectMap
  OBVIOUS
<1>1. <<[type |-> "list", ids |-> LiveIds]>> \in Seq(Event)
  BY DEF Event, LiveIds
<1>2. MapsTyped
  BY <1>1 DEF Init, MapsTyped
<1> QED BY <1>2 DEF Init, DirectMap, Bijective, ConnectedIffMapped

\* What is posted keeps the maps and is an event.
LEMMA PostKeepsMap ==
  ASSUME DirectMap, NEW e \in Event, Post(e), live' \in [Ble -> Node \cup {None}]
  PROVE  DirectMap'
<1>1. events' \in Seq(Event) /\ UNCHANGED maps
  BY DEF DirectMap, MapsTyped, Post
<1> QED BY <1>1 DEF DirectMap, MapsTyped, Bijective, ConnectedIffMapped, maps

LEMMA DirectMapStep == DirectMap /\ [Next]_vars => DirectMap'
<1> SUFFICES ASSUME DirectMap, [Next]_vars PROVE DirectMap'
  OBVIOUS
<1> DEFINE e == Head(events)
<1>1. CASE OnConnected
  <2>1. e.ble \in Ble /\ events' \in Seq(Event) /\ live' = live
    BY <1>1, HandledEvent, EventFields DEF OnConnected, DirectMap
  <2> QED BY <1>1, <2>1, UnregisterKeepsMap DEF OnConnected, DirectMap, MapsTyped
<1>2. CASE OnDisconnected
  <2>1. e.ble \in Ble /\ events' \in Seq(Event) /\ live' = live
    BY <1>2, HandledEvent, EventFields DEF OnDisconnected, DirectMap
  <2> QED BY <1>2, <2>1, UnregisterKeepsMap DEF OnDisconnected, DirectMap, MapsTyped
<1>3. CASE OnAnnounce
  <2>1. e.ble \in Ble /\ e.node \in Node /\ events' \in Seq(Event) /\ live' = live
    BY <1>3, HandledEvent, EventFields DEF OnAnnounce, DirectMap
  <2> QED BY <1>3, <2>1, RegisterKeepsMap DEF OnAnnounce, DirectMap, MapsTyped
<1>4. CASE OnDiscovery
  <2>1. events' \in Seq(Event) /\ live' = live /\ UNCHANGED maps
    BY <1>4, HandledEvent DEF OnDiscovery, DirectMap
  <2> QED BY <2>1 DEF DirectMap, MapsTyped, Bijective, ConnectedIffMapped, maps
<1>5. CASE OnList
  <2>1. events' \in Seq(Event) /\ live' = live
    BY <1>5, HandledEvent DEF OnList, DirectMap
  <2> QED BY <1>5, <2>1, UnregisterKeepsMap DEF OnList, DirectMap, MapsTyped
<1>6. CASE \E b \in Ble, n \in Node :
             LinkUp(b, n) \/ Relink(b, n) \/ PeerRenamed(b, n) \/ PeerFloods(b, n)
  <2> PICK b \in Ble, n \in Node :
         LinkUp(b, n) \/ Relink(b, n) \/ PeerRenamed(b, n) \/ PeerFloods(b, n)
    BY <1>6
  <2>1. live' \in [Ble -> Node \cup {None}]
    BY DEF LinkUp, Relink, PeerRenamed, PeerFloods, DirectMap, MapsTyped
  <2>2. /\ [type |-> "connected", ble |-> b] \in Event
        /\ [type |-> "announce", ble |-> b, node |-> n] \in Event
        /\ [type |-> "discovery", ble |-> b, node |-> n] \in Event
    BY DEF Event
  <2> QED BY <2>1, <2>2, PostKeepsMap DEF LinkUp, Relink, PeerRenamed, PeerFloods
<1>7. CASE \E b \in Ble : LinkDown(b) \/ PeerAnnounces(b)
  <2> PICK b \in Ble : LinkDown(b) \/ PeerAnnounces(b)
    BY <1>7
  <2>1. live' \in [Ble -> Node \cup {None}] /\ live[b] \in Node
    BY DEF LinkDown, PeerAnnounces, DirectMap, MapsTyped
  <2>2. /\ [type |-> "disconnected", ble |-> b] \in Event
        /\ [type |-> "announce", ble |-> b, node |-> live[b]] \in Event
    BY <2>1 DEF Event
  <2> QED BY <2>1, <2>2, PostKeepsMap DEF LinkDown, PeerAnnounces
<1>8. CASE \E b \in Ble : SilentLoss(b)
  BY <1>8 DEF SilentLoss, DirectMap, MapsTyped, Bijective, ConnectedIffMapped, maps
<1>9. CASE AskList
  <2>1. [type |-> "list", ids |-> LiveIds] \in Event /\ live' \in [Ble -> Node \cup {None}]
    BY <1>9 DEF AskList, Event, LiveIds, DirectMap, MapsTyped
  <2> QED BY <1>9, <2>1, PostKeepsMap DEF AskList
<1>10. CASE \/ Tick \/ OpenScreen \/ CloseScreen \/ UNCHANGED vars
            \/ \E n \in Node : ChatAsks(n)
  <2>1. UNCHANGED <<maps, live, events>>
    BY <1>10 DEF Tick, OpenScreen, CloseScreen, ChatAsks, vars, native
  <2> QED BY <2>1 DEF DirectMap, MapsTyped, Bijective, ConnectedIffMapped, maps
<1> QED
  BY <1>1, <1>2, <1>3, <1>4, <1>5, <1>6, <1>7, <1>8, <1>9, <1>10
  DEF Next, Handle, Native

\* The two indexes and the registry stay in step in every state.
THEOREM DirectMapAlways == Spec => []DirectMap
<1> QED BY DirectMapInit, DirectMapStep, PTL DEF Spec

\* Whatever comes back under another key or another id, the two indexes of the
\* adapter stay converse ("Keep both indexes bijective").
THEOREM BijectiveAlways == Spec => []Bijective
<1>1. DirectMap => Bijective
  BY DEF DirectMap
<1> QED BY <1>1, DirectMapAlways, PTL

\* The relay set is exactly the set of nodes that sendToPeer can resolve.
THEOREM ConnectedIffMappedAlways == Spec => []ConnectedIffMapped
<1>1. DirectMap => ConnectedIffMapped
  BY DEF DirectMap
<1> QED BY <1>1, DirectMapAlways, PTL

\* So a mapped key is a ready direct peer: isDirectPeerReady asks three things
\* of which the first already gives the others.
THEOREM MappedIsReady == Spec => [](\A b \in Ble : IsDirectPeerReady(b) <=> peerMap[b] # None)
<1>1. DirectMap => \A b \in Ble : IsDirectPeerReady(b) <=> peerMap[b] # None
  BY DirectoryAssumption
  DEF DirectMap, MapsTyped, Bijective, ConnectedIffMapped, IsDirectPeerReady, DirectoryAssumption
<1> QED BY <1>1, DirectMapAlways, PTL

-----------------------------------------------------------------------------
\* A handler takes away only the routes its event is about.
LEMMA HandlerIsolated ==
  ASSUME DirectMap, Next, NEW c \in Ble, peerMap[c] # None, peerMap'[c] = None
  PROVE  LET e == Head(events) IN
         \/ e.type \in {"connected", "disconnected"} /\ e.ble = c
         \/ e.type = "announce" /\ e.ble # c /\ e.node = peerMap[c]
         \/ e.type = "list" /\ c \notin e.ids
<1> DEFINE e == Head(events)
<1>1. CASE OnConnected \/ OnDisconnected
  BY <1>1 DEF OnConnected, OnDisconnected, Takes, UnregisterPeers
<1>2. CASE OnAnnounce
  <2>1. e.type = "announce" /\ e.ble \in Ble /\ e.node \in Node /\ RegisterPeer(e.ble, e.node)
    BY <1>2, HandledEvent, EventFields DEF OnAnnounce, DirectMap
  <2>2. c # e.ble /\ c = reverse[e.node]
    BY <2>1, DirectoryAssumption DEF RegisterPeer, DirectoryAssumption
  <2>3. e.node = peerMap[c]
    BY <2>1, <2>2, DirectoryAssumption DEF DirectMap, Bijective, DirectoryAssumption
  <2> QED BY <2>1, <2>2, <2>3
<1>3. CASE OnList
  BY <1>3 DEF OnList, Takes, UnregisterPeers
<1>4. CASE OnDiscovery \/ Native \/ OpenScreen \/ CloseScreen \/ \E n \in Node : ChatAsks(n)
  <2>1. UNCHANGED maps
    BY <1>4 DEF OnDiscovery, Native, OpenScreen, CloseScreen, ChatAsks, LinkUp, Relink,
       PeerRenamed, PeerFloods, LinkDown, SilentLoss, PeerAnnounces, AskList, Tick, Post
  <2> QED BY <2>1 DEF maps
<1> QED BY <1>1, <1>2, <1>3, <1>4 DEF Next, Handle

\* The fate of one link does not touch the routes over the others.
THEOREM OthersUntouchedAlways == Spec => OthersUntouched
<1>1. DirectMap /\ [Next]_vars =>
        [\A c \in Ble :
           peerMap[c] # None /\ peerMap'[c] = None =>
             LET e == Head(events) IN
             \/ e.type \in {"connected", "disconnected"} /\ e.ble = c
             \/ e.type = "announce" /\ e.ble # c /\ e.node = peerMap[c]
             \/ e.type = "list" /\ c \notin e.ids]_vars
  BY HandlerIsolated
<1> QED BY <1>1, DirectMapAlways, PTL DEF Spec, OthersUntouched
-----------------------------------------------------------------------------
(* The screens.  A handler that takes routes away without telling them is the *)
(* only thing that sets what is shown apart from the indexes, and what it took *)
(* is remembered in unsaid.                                                   *)

ListTyped == unsaid \subseteq Node /\ \A d \in shown : d.node \in Node

\* A list just built shows the routes there are.
LEMMA BuiltListIsTrue ==
  ASSUME NEW list, MapsTyped', ConnectedIffMapped', shown' = Destinations(state', reverse', list)
  PROVE  /\ {n \in Node : reverse'[n] # None} \subseteq {d.node : d \in {e \in shown' : e.direct}}
         /\ \A d \in shown' : d.direct => d.ble = reverse'[d.node] /\ d.ble # None
         /\ \A d \in shown' : d.node \in Node
<1> DEFINE direct == {[node |-> n, direct |-> TRUE, ble |-> reverse'[n]] : n \in {m \in Node : state'[m] = "CONNECTED"}}
           others == {[node |-> n, direct |-> reverse'[n] # None, ble |-> reverse'[n]] :
                        n \in {m \in Node : state'[m] # "CONNECTED" /\ m \in Range(list)}}
<1>1. shown' = direct \cup others
  BY DEF Destinations
<1>2. ASSUME NEW n \in Node, reverse'[n] # None
      PROVE  n \in {d.node : d \in {e \in shown' : e.direct}}
  <2> DEFINE d == [node |-> n, direct |-> TRUE, ble |-> reverse'[n]]
  <2>1. d \in direct /\ d.direct /\ d.node = n
    BY <1>2 DEF ConnectedIffMapped
  <2> QED BY <1>1, <2>1
<1>3. ASSUME NEW d \in shown', d.direct
      PROVE  d.ble = reverse'[d.node] /\ d.ble # None
  <2>1. CASE d \in direct
    BY <2>1 DEF ConnectedIffMapped
  <2>2. CASE d \in others
    <3>1. PICK n \in Node : d = [node |-> n, direct |-> reverse'[n] # None, ble |-> reverse'[n]]
      BY <2>2
    <3>2. d.node = n /\ d.ble = reverse'[n] /\ (d.direct <=> reverse'[n] # None)
      BY <3>1
    <3> QED BY <1>3, <3>2
  <2> QED BY <1>1, <1>3, <2>1, <2>2
<1>4. \A d \in shown' : d.node \in Node
  BY <1>1
<1> QED BY <1>2, <1>3, <1>4

\* Telling the screens, and opening one, builds the list anew.
LEMMA ToldIsTrue ==
  ASSUME MapsTyped', ConnectedIffMapped', unsaid' = {}, NEW list,
         shown' = Destinations(state', reverse', list)
  PROVE  ShownRoutes' /\ ListTyped'
BY BuiltListIsTrue DEF ShownRoutes, DirectShown, ListTyped

\* What is taken away untold is in unsaid.
LEMMA UntoldIsRemembered ==
  ASSUME DirectMap, ShownRoutes, ListTyped, NEW gone \in SUBSET Ble,
         UnregisterPeers(gone), Untold(gone)
  PROVE  ShownRoutes' /\ ListTyped'
<1> DEFINE lost == {peerMap[b] : b \in gone} \ {None}
<1>1. /\ reverse' = [n \in Node |-> IF n \in lost /\ reverse[n] \in gone THEN None ELSE reverse[n]]
      /\ UNCHANGED <<screen, shown>>
      /\ unsaid' = IF screen THEN unsaid \cup lost ELSE unsaid
  BY DEF UnregisterPeers, Untold
<1>2. lost \subseteq Node
  BY DEF DirectMap, MapsTyped
<1>3. ListTyped'
  BY <1>1, <1>2 DEF ListTyped
<1>4. ASSUME screen PROVE {n \in Node : reverse'[n] # None} \subseteq DirectShown'
  BY <1>1, <1>4 DEF ShownRoutes, DirectShown
<1>5. ASSUME screen, NEW d \in shown, d.direct, d.node \notin unsaid \cup lost
      PROVE  d.ble = reverse'[d.node] /\ d.ble # None
  <2>1. d.ble = reverse[d.node] /\ d.ble # None
    BY <1>5 DEF ShownRoutes
  <2>2. d.node \in Node /\ d.node \notin lost
    BY <1>5 DEF ListTyped
  <2>3. reverse'[d.node] = reverse[d.node]
    BY <1>1, <2>2
  <2> QED BY <2>1, <2>3
<1>6. ASSUME screen PROVE unsaid' = unsaid \cup lost /\ shown' = shown /\ screen' = screen
  BY <1>1, <1>6
<1>7. CASE screen
  BY <1>3, <1>4, <1>5, <1>6, <1>7 DEF ShownRoutes
<1>8. CASE ~screen
  BY <1>1, <1>3, <1>8 DEF ShownRoutes
<1> QED BY <1>7, <1>8

\* Every notifying handler leaves a true list, and no list while no screen is up.
LEMMA NotifiedIsTrue ==
  ASSUME ShownRoutes, ListTyped, MapsTyped', ConnectedIffMapped', NEW list, Notify(list)
  PROVE  ShownRoutes' /\ ListTyped'
<1>1. CASE screen
  BY <1>1, ToldIsTrue DEF Notify
<1>2. CASE ~screen
  <2>1. UNCHANGED <<screen, shown, unsaid>>
    BY <1>2 DEF Notify, screens
  <2> QED BY <1>2, <2>1 DEF ShownRoutes, ListTyped
<1> QED BY <1>1, <1>2

ShownInv == DirectMap /\ ListTyped /\ ShownRoutes

\* One step per handler.
LEMMA ShownInvStep == ShownInv /\ [Next]_vars => ShownInv'
<1> SUFFICES ASSUME ShownInv, [Next]_vars PROVE ShownInv'
  OBVIOUS
<1> DEFINE e == Head(events)
<1>0. DirectMap'
  BY DirectMapStep DEF ShownInv
<1>1. CASE OnConnected
  <2>1. {e.ble} \in SUBSET Ble
    BY <1>1, HandledEvent, EventFields DEF OnConnected, DirectMap, ShownInv
  <2> QED BY <1>0, <1>1, <2>1, UntoldIsRemembered DEF OnConnected, ShownInv
<1>2. CASE OnList
  <2> DEFINE gone == {b \in Ble : peerMap[b] # None} \ e.ids
  <2>1. gone \in SUBSET Ble /\ UnregisterPeers(gone) /\ Untold(gone)
    BY <1>2 DEF OnList
  <2> QED BY <1>0, <2>1, UntoldIsRemembered DEF ShownInv
<1>3. CASE OnDisconnected \/ OnAnnounce
  <2>1. Notify(discovered)
    BY <1>3 DEF OnDisconnected, OnAnnounce
  <2> QED BY <1>0, <2>1, NotifiedIsTrue DEF ShownInv, DirectMap
<1>4. CASE OnDiscovery
  <2>1. Notify(Recorded(e.node, heardAt'))
    BY <1>4 DEF OnDiscovery
  <2> QED BY <1>0, <2>1, NotifiedIsTrue DEF ShownInv, DirectMap
<1>5. CASE OpenScreen
  <2>1. unsaid' = {} /\ shown' = Destinations(state', reverse', discovered')
    BY <1>5 DEF OpenScreen, maps
  <2> QED BY <1>0, <2>1, ToldIsTrue DEF ShownInv, DirectMap
<1>6. CASE CloseScreen
  BY <1>0, <1>6 DEF CloseScreen, ShownInv, ListTyped, ShownRoutes
<1>7. CASE Native \/ (\E n \in Node : ChatAsks(n)) \/ UNCHANGED vars
  <2>1. UNCHANGED <<maps, screens>>
    BY <1>7 DEF Native, ChatAsks, LinkUp, Relink, PeerRenamed, PeerFloods, LinkDown, SilentLoss,
       PeerAnnounces, AskList, Tick, Post, vars
  <2> QED BY <1>0, <2>1 DEF ShownInv, ListTyped, ShownRoutes, DirectShown, maps, screens
<1> QED BY <1>1, <1>2, <1>3, <1>4, <1>5, <1>6, <1>7 DEF Next, Handle

\* A subscribed screen misses no direct route, and shows none that is gone
\* unless a handler took it away without telling the screens.
THEOREM ShownRoutesAlways == Spec => []ShownRoutes
<1>1. Init => ShownInv
  BY DirectMapInit DEF Init, ShownInv, ListTyped, ShownRoutes
<1>2. ShownInv => ShownRoutes
  BY DEF ShownInv
<1> QED BY <1>1, <1>2, ShownInvStep, PTL DEF Spec
-----------------------------------------------------------------------------
(* Routes and links.  The hook is always behind the links by the events that *)
(* wait for it, so what is true of its maps depends on that queue: an ANNOUNCE *)
(* waits only while the hook will count its link as connected when it comes   *)
(* to it, and the last event about a link that is up agrees with the link.    *)

\* The hook counts b as connected, and as not connected, on handling e.
Up(e, b) ==
  \/ e.type = "connected" /\ e.ble = b
  \/ e.type = "list" /\ b \in e.ids
Down(e, b) ==
  \/ e.type = "disconnected" /\ e.ble = b
  \/ e.type = "list" /\ b \notin e.ids

\* e changes the route of b: it is one of the events Informed excludes.
Touches(e, b) ==
  \/ e.type \in {"connected", "disconnected", "announce"} /\ e.ble = b
  \/ e.type = "list" /\ b \notin e.ids

\* With c in connectedPeersRef, the hook counts b when it has handled what
\* stands in q before i.
Counts(q, c, b, i) ==
  /\ b \in c \/ \E j \in 1 .. i - 1 : Up(q[j], b)
  /\ \A k \in 1 .. i - 1 : Down(q[k], b) => \E j \in k + 1 .. i - 1 : Up(q[j], b)

QueueInv ==
  /\ \A b \in silent : b \in Ble /\ live[b] = None
  /\ \A b \in Ble : live[b] # None => Counts(events, connected, b, Len(events) + 1)
  /\ \A i \in 1 .. Len(events) :
       events[i].type = "announce" =>
         LET b == events[i].ble IN
         /\ Counts(events, connected, b, i)
         /\ (\A j \in i + 1 .. Len(events) : ~Touches(events[j], b)) /\ b \notin silent
              => live[b] = events[i].node

LEMMA InformedIsUntouched ==
  ASSUME NEW q \in Seq(Event), NEW b \in Ble
  PROVE  (\A i \in DOMAIN q :
            CASE q[i].type = "list"      -> b \in q[i].ids
              [] q[i].type = "discovery" -> TRUE
              [] OTHER                   -> q[i].ble # b)
         <=> \A i \in 1 .. Len(q) : ~Touches(q[i], b)
<1>1. DOMAIN q = 1 .. Len(q)
  OBVIOUS
<1>2. ASSUME NEW i \in DOMAIN q
      PROVE  (CASE q[i].type = "list"      -> b \in q[i].ids
                [] q[i].type = "discovery" -> TRUE
                [] OTHER                   -> q[i].ble # b) <=> ~Touches(q[i], b)
  <2> DEFINE e == q[i]
  <2>1. e.type \in {"connected", "disconnected", "announce", "discovery", "list"}
    BY <1>1 DEF Event
  <2>2. CASE e.type = "list"
    BY <2>2 DEF Touches
  <2>3. CASE e.type = "discovery"
    BY <2>3 DEF Touches
  <2>4. CASE e.type \notin {"list", "discovery"}
    BY <2>1, <2>4 DEF Touches
  <2> QED BY <2>2, <2>3, <2>4
<1> QED BY <1>1, <1>2

\* Appending an event changes nothing before it.
LEMMA CountsAppend ==
  ASSUME NEW q \in Seq(Event), NEW e \in Event, NEW c, NEW b \in Ble,
         NEW i \in 1 .. Len(q) + 1, Counts(q, c, b, i)
  PROVE  Counts(Append(q, e), c, b, i)
<1>1. \A j \in 1 .. i - 1 : Append(q, e)[j] = q[j]
  OBVIOUS
<1> QED BY <1>1 DEF Counts

LEMMA CountsAppended ==
  ASSUME NEW q \in Seq(Event), NEW e \in Event, NEW c, NEW b \in Ble,
         Up(e, b) \/ (Counts(q, c, b, Len(q) + 1) /\ ~Down(e, b))
  PROVE  Counts(Append(q, e), c, b, Len(q) + 2)
<1> DEFINE p == Append(q, e)
<1>0. /\ \A j \in 1 .. Len(q) : p[j] = q[j]
      /\ p[Len(q) + 1] = e /\ Len(q) \in Nat
  OBVIOUS
<1>1. CASE Up(e, b)
  <2>1. Up(p[Len(q) + 1], b) /\ Len(q) + 1 \in 1 .. (Len(q) + 2) - 1
    BY <1>0, <1>1
  <2>2. ASSUME NEW k \in 1 .. (Len(q) + 2) - 1, Down(p[k], b)
        PROVE  \E j \in k + 1 .. (Len(q) + 2) - 1 : Up(p[j], b)
    <3>1. ~Down(e, b)
      BY <1>1 DEF Up, Down
    <3>2. k # Len(q) + 1
      BY <1>0, <2>2, <3>1
    <3>3. Len(q) + 1 \in k + 1 .. (Len(q) + 2) - 1
      BY <1>0, <3>2
    <3> QED BY <2>1, <3>3
  <2> QED BY <2>1, <2>2 DEF Counts
<1>2. CASE Counts(q, c, b, Len(q) + 1) /\ ~Down(e, b)
  <2>1. b \in c \/ \E j \in 1 .. (Len(q) + 2) - 1 : Up(p[j], b)
    BY <1>0, <1>2 DEF Counts
  <2>2. ASSUME NEW k \in 1 .. (Len(q) + 2) - 1, Down(p[k], b)
        PROVE  \E j \in k + 1 .. (Len(q) + 2) - 1 : Up(p[j], b)
    <3>1. k # Len(q) + 1
      BY <1>0, <1>2, <2>2
    <3>2. k \in 1 .. (Len(q) + 1) - 1 /\ Down(q[k], b)
      BY <1>0, <2>2, <3>1
    <3>3. PICK j \in k + 1 .. (Len(q) + 1) - 1 : Up(q[j], b)
      BY <1>2, <3>2 DEF Counts
    <3> QED BY <1>0, <3>2, <3>3
  <2> QED BY <2>1, <2>2 DEF Counts
<1> QED BY <1>1, <1>2

\* Handling the first event moves what it says into connectedPeersRef.
LEMMA CountsTail ==
  ASSUME NEW q \in Seq(Event), q # <<>>, NEW c, NEW d, NEW b \in Ble,
         NEW i \in 2 .. Len(q) + 1, Counts(q, c, b, i),
         Up(Head(q), b) => b \in d,
         ~Up(Head(q), b) /\ ~Down(Head(q), b) /\ b \in c => b \in d
  PROVE  Counts(Tail(q), d, b, i - 1)
<1>0. /\ Len(q) \in Nat /\ Len(q) > 0 /\ Len(Tail(q)) = Len(q) - 1
      /\ \A j \in 1 .. Len(q) - 1 : Tail(q)[j] = q[j + 1]
      /\ Head(q) = q[1]
  OBVIOUS
<1>1. ASSUME NEW j \in 2 .. i - 1, Up(q[j], b)
      PROVE  j - 1 \in 1 .. (i - 1) - 1 /\ Up(Tail(q)[j - 1], b)
  <2>1. j - 1 \in 1 .. Len(q) - 1 /\ j - 1 \in 1 .. (i - 1) - 1 /\ (j - 1) + 1 = j
    BY <1>0
  <2>2. Tail(q)[j - 1] = q[j]
    BY <1>0, <2>1
  <2> QED BY <1>1, <2>1, <2>2
<1>2. b \in d \/ \E j \in 1 .. (i - 1) - 1 : Up(Tail(q)[j], b)
  <2>1. CASE Down(q[1], b)
    <3>1. PICK j \in 2 .. i - 1 : Up(q[j], b)
      BY <2>1 DEF Counts
    <3> QED BY <1>1, <3>1
  <2>2. CASE ~Down(q[1], b) /\ \E j \in 2 .. i - 1 : Up(q[j], b)
    BY <1>1, <2>2
  <2>3. CASE ~Down(q[1], b) /\ ~\E j \in 2 .. i - 1 : Up(q[j], b)
    <3>1. b \in c \/ Up(q[1], b)
      <4>1. b \in c \/ \E j \in 1 .. i - 1 : Up(q[j], b)
        BY DEF Counts
      <4>2. \A j \in 1 .. i - 1 : j = 1 \/ j \in 2 .. i - 1
        OBVIOUS
      <4> QED BY <2>3, <4>1, <4>2
    <3> QED BY <1>0, <2>3, <3>1
  <2> QED BY <2>1, <2>2, <2>3
<1>3. ASSUME NEW k \in 1 .. (i - 1) - 1, Down(Tail(q)[k], b)
      PROVE  \E j \in k + 1 .. (i - 1) - 1 : Up(Tail(q)[j], b)
  <2>1. k + 1 \in 1 .. i - 1 /\ k \in 1 .. Len(q) - 1 /\ Down(q[k + 1], b)
    BY <1>0, <1>3
  <2>2. PICK j \in (k + 1) + 1 .. i - 1 : Up(q[j], b)
    BY <2>1 DEF Counts
  <2>3. j \in 2 .. i - 1 /\ j - 1 \in k + 1 .. (i - 1) - 1
    BY <2>1
  <2> QED BY <1>1, <2>2, <2>3
<1> QED BY <1>2, <1>3 DEF Counts

\* A handler takes the first event and leaves the links alone.
LEMMA HandledKeepsQueue ==
  ASSUME MapsTyped, QueueInv, events # <<>>, events' = Tail(events),
         UNCHANGED <<live, silent>>,
         \A b \in Ble : /\ Up(Head(events), b) => b \in connected'
                        /\ ~Up(Head(events), b) /\ ~Down(Head(events), b) /\ b \in connected
                             => b \in connected'
  PROVE  QueueInv'
<1>0. /\ events \in Seq(Event) /\ Len(events) \in Nat /\ Len(events) > 0
      /\ Len(events') = Len(events) - 1
      /\ \A j \in 1 .. Len(events) - 1 : events'[j] = events[j + 1]
  BY DEF MapsTyped
<1>1. ASSUME NEW b \in Ble, live[b] # None
      PROVE  Counts(events', connected', b, Len(events') + 1)
  <2>1. Counts(events, connected, b, Len(events) + 1)
    BY <1>1 DEF QueueInv
  <2>2. Len(events) + 1 \in 2 .. Len(events) + 1 /\ (Len(events) + 1) - 1 = Len(events') + 1
    BY <1>0
  <2> QED BY <1>0, <2>1, <2>2, CountsTail
<1>2. ASSUME NEW i \in 1 .. Len(events'), events'[i].type = "announce"
      PROVE  LET b == events'[i].ble IN
             /\ Counts(events', connected', b, i)
             /\ (\A j \in i + 1 .. Len(events') : ~Touches(events'[j], b)) /\ b \notin silent
                  => live[b] = events'[i].node
  <2> DEFINE b == events'[i].ble
  <2>1. /\ i + 1 \in 2 .. Len(events) /\ i + 1 \in 1 .. Len(events) /\ events'[i] = events[i + 1]
        /\ i + 1 \in 2 .. Len(events) + 1 /\ (i + 1) - 1 = i
    BY <1>0, <1>2
  <2>2. b \in Ble
    BY <1>0, <1>2, <2>1, EventFields
  <2>3. Counts(events, connected, b, i + 1)
    BY <1>2, <2>1 DEF QueueInv
  <2>4. Counts(events', connected', b, i)
    BY <1>0, <2>1, <2>2, <2>3, CountsTail
  <2>5. ASSUME \A j \in i + 1 .. Len(events') : ~Touches(events'[j], b), b \notin silent
        PROVE  live[b] = events'[i].node
    <3>1. ASSUME NEW j \in (i + 1) + 1 .. Len(events) PROVE ~Touches(events[j], b)
      <4>1. j - 1 \in i + 1 .. Len(events') /\ j - 1 \in 1 .. Len(events) - 1 /\ (j - 1) + 1 = j
        BY <1>0, <1>2
      <4> QED BY <1>0, <2>5, <4>1
    <3> QED BY <1>2, <2>1, <2>5, <3>1 DEF QueueInv
  <2> QED BY <2>4, <2>5
<1> QED BY <1>1, <1>2 DEF QueueInv

\* The route of a link that the first event does not touch stays true.
LEMMA UntouchedRoute ==
  ASSUME MapsTyped, MapsTyped', RouteIsLive, events # <<>>, events' = Tail(events),
         UNCHANGED <<live, silent>>, NEW b \in Ble,
         ~Touches(Head(events), b), peerMap'[b] # None => peerMap'[b] = peerMap[b],
         peerMap'[b] # None /\ b \in connected => b \in connected'
  PROVE  /\ peerMap'[b] # None => b \in connected'
         /\ peerMap'[b] # None /\ Informed(b)' /\ b \notin silent' => live'[b] = peerMap'[b]
<1>1. ASSUME Informed(b)' PROVE Informed(b)
  <2>0. /\ events \in Seq(Event) /\ Len(events) \in Nat /\ Len(events) > 0
        /\ Len(events') = Len(events) - 1 /\ events' \in Seq(Event)
        /\ \A j \in 1 .. Len(events) - 1 : events'[j] = events[j + 1]
        /\ Head(events) = events[1]
    BY DEF MapsTyped
  <2>1. \A i \in 1 .. Len(events') : ~Touches(events'[i], b)
    BY <1>1, <2>0, InformedIsUntouched DEF Informed
  <2>2. ASSUME NEW i \in 1 .. Len(events), i # 1 PROVE ~Touches(events[i], b)
    <3>1. i - 1 \in 1 .. Len(events') /\ i - 1 \in 1 .. Len(events) - 1 /\ (i - 1) + 1 = i
      BY <2>0, <2>2
    <3> QED BY <2>0, <2>1, <3>1
  <2>3. \A i \in 1 .. Len(events) : ~Touches(events[i], b)
    BY <2>0, <2>2
  <2> QED BY <2>0, <2>3, InformedIsUntouched DEF Informed
<1> QED BY <1>1 DEF RouteIsLive

\* The native layer posts an event that agrees with the links.
LEMMA PostedKeepsRoutes ==
  ASSUME DirectMap, DirectMap', QueueInv, RouteIsLive, NEW e \in Event,
         events' = Append(events, e), UNCHANGED <<maps, connected>>,
         \A b \in silent' : b \in Ble /\ live'[b] = None,
         \A b \in Ble : live'[b] # None => Up(e, b) \/ (live[b] # None /\ ~Down(e, b)),
         \A b \in Ble : ~Touches(e, b) /\ b \notin silent' => b \notin silent /\ live'[b] = live[b],
         e.type = "announce" => live[e.ble] # None /\ live'[e.ble] = e.node
  PROVE  QueueInv' /\ RouteIsLive'
<1>0. /\ events \in Seq(Event) /\ Len(events) \in Nat /\ Len(events') = Len(events) + 1
      /\ \A j \in 1 .. Len(events) : events'[j] = events[j]
      /\ events'[Len(events) + 1] = e
  BY DEF DirectMap, MapsTyped
<1>1. ASSUME NEW b \in Ble, live'[b] # None
      PROVE  Counts(events', connected', b, Len(events') + 1)
  <2>1. Up(e, b) \/ (Counts(events, connected, b, Len(events) + 1) /\ ~Down(e, b))
    BY <1>1 DEF QueueInv
  <2>2. Len(events') + 1 = Len(events) + 2
    BY <1>0
  <2> QED BY <1>0, <2>1, <2>2, CountsAppended
<1>2. ASSUME NEW i \in 1 .. Len(events'), events'[i].type = "announce"
      PROVE  LET b == events'[i].ble IN
             /\ Counts(events', connected', b, i)
             /\ (\A j \in i + 1 .. Len(events') : ~Touches(events'[j], b)) /\ b \notin silent'
                  => live'[b] = events'[i].node
  <2> DEFINE b == events'[i].ble
  <2>1. CASE i = Len(events) + 1
    <3>1. events'[i] = e /\ b = e.ble /\ e.type = "announce" /\ b \in Ble
      BY <1>0, <1>2, <2>1, EventFields
    <3>2. Counts(events, connected, b, Len(events) + 1)
      BY <3>1 DEF QueueInv
    <3>3. Counts(events', connected', b, i)
      BY <1>0, <2>1, <3>1, <3>2, CountsAppend
    <3> QED BY <3>1, <3>3
  <2>2. CASE i \in 1 .. Len(events)
    <3>1. /\ events'[i] = events[i] /\ events[i].type = "announce" /\ events[i].ble = b
          /\ b \in Ble /\ i \in 1 .. Len(events) + 1
      BY <1>0, <1>2, <2>2, EventFields
    <3>2. Counts(events, connected, b, i)
      BY <2>2, <3>1 DEF QueueInv
    <3>3. Counts(events', connected', b, i)
      BY <1>0, <3>1, <3>2, CountsAppend
    <3>4. ASSUME \A j \in i + 1 .. Len(events') : ~Touches(events'[j], b), b \notin silent'
          PROVE  live'[b] = events'[i].node
      <4>1. ~Touches(e, b) /\ \A j \in i + 1 .. Len(events) : ~Touches(events[j], b)
        BY <1>0, <2>2, <3>4
      <4>2. b \notin silent /\ live'[b] = live[b]
        BY <3>1, <3>4, <4>1
      <4> QED BY <2>2, <3>1, <4>1, <4>2 DEF QueueInv
    <3> QED BY <3>3, <3>4
  <2> QED BY <1>0, <2>1, <2>2
<1>3. QueueInv'
  BY <1>1, <1>2 DEF QueueInv
<1>4. ASSUME NEW b \in Ble, peerMap[b] # None
      PROVE  b \in connected /\ (Informed(b)' /\ b \notin silent' => live'[b] = peerMap[b])
  <2>1. ASSUME Informed(b)', b \notin silent' PROVE live'[b] = peerMap[b]
    <3>1. \A i \in 1 .. Len(events') : ~Touches(events'[i], b)
      BY <2>1, InformedIsUntouched DEF DirectMap, MapsTyped, Informed
    <3>2. ~Touches(e, b) /\ \A i \in 1 .. Len(events) : ~Touches(events[i], b)
      BY <1>0, <3>1
    <3>3. Informed(b)
      BY <1>0, <3>2, InformedIsUntouched DEF Informed
    <3> QED BY <1>4, <2>1, <3>2, <3>3 DEF RouteIsLive
  <2> QED BY <1>4, <2>1 DEF RouteIsLive
<1>5. RouteIsLive'
  BY <1>4 DEF RouteIsLive, maps
<1> QED BY <1>3, <1>5

RouteInv == DirectMap /\ QueueInv /\ RouteIsLive

LEMMA RouteInvInit == Init => RouteInv
<1> SUFFICES ASSUME Init PROVE RouteInv
  OBVIOUS
<1>1. DirectMap
  BY DirectMapInit
<1>2. /\ Len(events) = 1 /\ events[1].type = "list" /\ events[1].ids = LiveIds
      /\ silent = {} /\ \A b \in Ble : peerMap[b] = None
  BY DEF Init
<1>3. ASSUME NEW b \in Ble, live[b] # None PROVE Counts(events, connected, b, Len(events) + 1)
  <2>1. Up(events[1], b) /\ ~Down(events[1], b)
    BY <1>2, <1>3 DEF Up, Down, LiveIds
  <2> QED BY <1>2, <2>1 DEF Counts
<1>4. QueueInv
  BY <1>2, <1>3 DEF QueueInv
<1> QED BY <1>1, <1>2, <1>4 DEF RouteInv, RouteIsLive

\* The five handlers.
LEMMA HandlersKeepRoutes == RouteInv /\ DirectMap' /\ Handle => QueueInv' /\ RouteIsLive'
<1> SUFFICES ASSUME RouteInv, DirectMap', Handle PROVE QueueInv' /\ RouteIsLive'
  OBVIOUS
<1> DEFINE e == Head(events)
<1>0. /\ events # <<>> /\ events' = Tail(events) /\ UNCHANGED <<live, silent>>
      /\ e \in Event /\ e = events[1] /\ Len(events) \in Nat /\ Len(events) > 0
      /\ MapsTyped /\ MapsTyped'
  BY DEF Handle, OnConnected, OnDisconnected, OnAnnounce, OnDiscovery, OnList, Takes, native,
     RouteInv, DirectMap, MapsTyped
<1>1. CASE OnConnected \/ OnDisconnected
  <2>1. /\ e.type \in {"connected", "disconnected"} /\ e.ble \in Ble
        /\ connected' = IF e.type = "connected" THEN connected \cup {e.ble} ELSE connected \ {e.ble}
        /\ \A b \in Ble : peerMap'[b] = IF b = e.ble THEN None ELSE peerMap[b]
    BY <1>0, <1>1, EventFields DEF OnConnected, OnDisconnected, Takes, UnregisterPeers
  <2>2. \A b \in Ble : /\ Up(e, b) => b \in connected'
                       /\ ~Up(e, b) /\ ~Down(e, b) /\ b \in connected => b \in connected'
    BY <2>1 DEF Up, Down
  <2>3. QueueInv'
    BY <1>0, <2>2, HandledKeepsQueue DEF RouteInv
  <2>4. ASSUME NEW b \in Ble
        PROVE  /\ peerMap'[b] # None => b \in connected'
               /\ peerMap'[b] # None /\ Informed(b)' /\ b \notin silent' => live'[b] = peerMap'[b]
    <3>1. CASE b = e.ble
      BY <2>1, <3>1
    <3>2. CASE b # e.ble
      <4>1. ~Touches(e, b) /\ peerMap'[b] = peerMap[b] /\ (b \in connected => b \in connected')
        BY <2>1, <3>2 DEF Touches
      <4> QED BY <1>0, <4>1, UntouchedRoute DEF RouteInv
    <3> QED BY <3>1, <3>2
  <2> QED BY <2>3, <2>4 DEF RouteIsLive
<1>2. CASE OnList
  <2>1. /\ e.type = "list" /\ connected' = e.ids
        /\ \A b \in Ble : peerMap'[b] = IF b \in e.ids THEN peerMap[b] ELSE None
    BY <1>0, <1>2 DEF OnList, Takes, UnregisterPeers
  <2>2. \A b \in Ble : /\ Up(e, b) => b \in connected'
                       /\ ~Up(e, b) /\ ~Down(e, b) /\ b \in connected => b \in connected'
    BY <2>1 DEF Up, Down
  <2>3. QueueInv'
    BY <1>0, <2>2, HandledKeepsQueue DEF RouteInv
  <2>4. ASSUME NEW b \in Ble
        PROVE  /\ peerMap'[b] # None => b \in connected'
               /\ peerMap'[b] # None /\ Informed(b)' /\ b \notin silent' => live'[b] = peerMap'[b]
    <3>1. CASE b \notin e.ids
      BY <2>1, <3>1
    <3>2. CASE b \in e.ids
      <4>1. ~Touches(e, b) /\ peerMap'[b] = peerMap[b] /\ b \in connected'
        BY <2>1, <3>2 DEF Touches
      <4> QED BY <1>0, <4>1, UntouchedRoute DEF RouteInv
    <3> QED BY <3>1, <3>2
  <2> QED BY <2>3, <2>4 DEF RouteIsLive
<1>3. CASE OnAnnounce
  <2>1. /\ e.type = "announce" /\ e.ble \in Ble /\ e.node \in Node /\ connected' = connected
        /\ peerMap'[e.ble] = e.node
        /\ \A b \in Ble \ {e.ble} : peerMap'[b] # None => peerMap'[b] = peerMap[b]
    BY <1>0, <1>3, EventFields DEF OnAnnounce, Takes, RegisterPeer, MapsTyped
  <2>2. \A b \in Ble : /\ Up(e, b) => b \in connected'
                       /\ ~Up(e, b) /\ ~Down(e, b) /\ b \in connected => b \in connected'
    BY <2>1 DEF Up, Down
  <2>3. QueueInv'
    BY <1>0, <2>2, HandledKeepsQueue DEF RouteInv
  <2>4. ASSUME NEW b \in Ble
        PROVE  /\ peerMap'[b] # None => b \in connected'
               /\ peerMap'[b] # None /\ Informed(b)' /\ b \notin silent' => live'[b] = peerMap'[b]
    <3>1. CASE b # e.ble
      <4>1. ~Touches(e, b)
        BY <2>1, <3>1 DEF Touches
      <4> QED BY <1>0, <2>1, <3>1, <4>1, UntouchedRoute DEF RouteInv
    <3>2. CASE b = e.ble
      <4>1. /\ Counts(events, connected, b, 1)
            /\ (\A j \in 2 .. Len(events) : ~Touches(events[j], b)) /\ b \notin silent
                 => live[b] = e.node
        BY <1>0, <2>1, <3>2 DEF RouteInv, QueueInv
      <4>2. b \in connected
        BY <4>1 DEF Counts
      <4>3. ASSUME Informed(b)', b \notin silent PROVE live[b] = e.node
        <5>1. \A i \in 1 .. Len(events') : ~Touches(events'[i], b)
          BY <1>0, <4>3, InformedIsUntouched DEF MapsTyped, Informed
        <5>2. ASSUME NEW j \in 2 .. Len(events) PROVE ~Touches(events[j], b)
          <6>1. /\ j - 1 \in 1 .. Len(events') /\ j - 1 \in 1 .. Len(events) - 1
                /\ (j - 1) + 1 = j /\ events'[j - 1] = events[(j - 1) + 1]
            BY <1>0 DEF MapsTyped
          <6> QED BY <5>1, <6>1
        <5> QED BY <4>1, <4>3, <5>2
      <4> QED BY <1>0, <2>1, <3>2, <4>2, <4>3
    <3> QED BY <3>1, <3>2
  <2> QED BY <2>3, <2>4 DEF RouteIsLive
<1>4. CASE OnDiscovery
  <2>1. e.type = "discovery" /\ connected' = connected /\ peerMap' = peerMap
    BY <1>0, <1>4 DEF OnDiscovery, Takes, maps
  <2>2. \A b \in Ble : /\ Up(e, b) => b \in connected'
                       /\ ~Up(e, b) /\ ~Down(e, b) /\ b \in connected => b \in connected'
                       /\ ~Touches(e, b)
    BY <2>1 DEF Up, Down, Touches
  <2>3. QueueInv'
    BY <1>0, <2>2, HandledKeepsQueue DEF RouteInv
  <2> QED BY <1>0, <2>1, <2>2, <2>3, UntouchedRoute DEF RouteInv, RouteIsLive
<1> QED BY <1>1, <1>2, <1>3, <1>4 DEF Handle

\* One step per action of the native layer; the rest leaves routes and queue alone.
LEMMA RouteInvStep == RouteInv /\ [Next]_vars => RouteInv'
<1> SUFFICES ASSUME RouteInv, [Next]_vars PROVE RouteInv'
  OBVIOUS
<1>0. DirectMap /\ DirectMap' /\ QueueInv /\ RouteIsLive
  BY DirectMapStep DEF RouteInv
<1>a. live \in [Ble -> Node \cup {None}] /\ None \notin Node
  BY <1>0, DirectoryAssumption DEF DirectMap, MapsTyped, DirectoryAssumption
<1>b. \A b \in silent : b \in Ble /\ live[b] = None
  BY <1>0 DEF QueueInv
<1>1. CASE Handle
  BY <1>0, <1>1, HandlersKeepRoutes DEF RouteInv
<1>2. ASSUME NEW b \in Ble, NEW n \in Node, LinkUp(b, n) \/ Relink(b, n) PROVE RouteInv'
  <2> DEFINE e == [type |-> "connected", ble |-> b]
  <2>1. /\ e \in Event /\ events' = Append(events, e) /\ UNCHANGED <<maps, connected>>
        /\ live' = [live EXCEPT ![b] = n] /\ silent' = silent \ {b}
    BY <1>2, <1>a, <1>b DEF LinkUp, Relink, Post, Event
  <2>2. \A c \in Ble : live'[c] # None => Up(e, c) \/ (live[c] # None /\ ~Down(e, c))
    BY <1>a, <2>1 DEF Up, Down
  <2>3. \A c \in Ble : ~Touches(e, c) /\ c \notin silent' => c \notin silent /\ live'[c] = live[c]
    BY <1>a, <2>1 DEF Touches
  <2>4. \A c \in silent' : c \in Ble /\ live'[c] = None
    BY <1>a, <1>b, <2>1
  <2>5. e.type # "announce"
    OBVIOUS
  <2>6. QueueInv' /\ RouteIsLive'
    BY <1>0, <2>1, <2>2, <2>3, <2>4, <2>5, PostedKeepsRoutes
  <2> QED BY <1>0, <2>6 DEF RouteInv
<1>3. ASSUME NEW b \in Ble, LinkDown(b) PROVE RouteInv'
  <2> DEFINE e == [type |-> "disconnected", ble |-> b]
  <2>1. /\ e \in Event /\ events' = Append(events, e) /\ UNCHANGED <<maps, connected>>
        /\ live' = [live EXCEPT ![b] = None] /\ silent' = silent
    BY <1>3 DEF LinkDown, Post, Event
  <2>2. \A c \in Ble : live'[c] # None => Up(e, c) \/ (live[c] # None /\ ~Down(e, c))
    BY <1>a, <2>1 DEF Up, Down
  <2>3. \A c \in Ble : ~Touches(e, c) /\ c \notin silent' => c \notin silent /\ live'[c] = live[c]
    BY <1>a, <2>1 DEF Touches
  <2>4. \A c \in silent' : c \in Ble /\ live'[c] = None
    BY <1>a, <1>b, <2>1
  <2>5. e.type # "announce"
    OBVIOUS
  <2>6. QueueInv' /\ RouteIsLive'
    BY <1>0, <2>1, <2>2, <2>3, <2>4, <2>5, PostedKeepsRoutes
  <2> QED BY <1>0, <2>6 DEF RouteInv
<1>4. ASSUME NEW b \in Ble, NEW n \in Node,
             \/ PeerRenamed(b, n)
             \/ PeerAnnounces(b) /\ n = live[b]
      PROVE  RouteInv'
  <2> DEFINE e == [type |-> "announce", ble |-> b, node |-> n]
  <2>1. /\ e \in Event /\ events' = Append(events, e) /\ UNCHANGED <<maps, connected>>
        /\ live[b] # None /\ live' = [live EXCEPT ![b] = n] /\ silent' = silent
    BY <1>4, <1>a DEF PeerRenamed, PeerAnnounces, Post, Event
  <2>2. \A c \in Ble : live'[c] # None => Up(e, c) \/ (live[c] # None /\ ~Down(e, c))
    BY <1>a, <2>1 DEF Up, Down
  <2>3. \A c \in Ble : ~Touches(e, c) /\ c \notin silent' => c \notin silent /\ live'[c] = live[c]
    BY <1>a, <2>1 DEF Touches
  <2>4. \A c \in silent' : c \in Ble /\ live'[c] = None
    BY <1>a, <1>b, <2>1
  <2>5. live[e.ble] # None /\ live'[e.ble] = e.node
    BY <1>a, <2>1
  <2>6. QueueInv' /\ RouteIsLive'
    BY <1>0, <2>1, <2>2, <2>3, <2>4, <2>5, PostedKeepsRoutes
  <2> QED BY <1>0, <2>6 DEF RouteInv
<1>5. ASSUME NEW b \in Ble, NEW n \in Node, PeerFloods(b, n) PROVE RouteInv'
  <2> DEFINE e == [type |-> "discovery", ble |-> b, node |-> n]
  <2>1. /\ e \in Event /\ events' = Append(events, e) /\ UNCHANGED <<maps, connected, live, silent>>
    BY <1>5 DEF PeerFloods, Post, Event
  <2>2. \A c \in Ble : live'[c] # None => Up(e, c) \/ (live[c] # None /\ ~Down(e, c))
    BY <2>1 DEF Up, Down
  <2>3. e.type # "announce"
    OBVIOUS
  <2>4. QueueInv' /\ RouteIsLive'
    BY <1>0, <1>b, <2>1, <2>2, <2>3, PostedKeepsRoutes
  <2> QED BY <1>0, <2>4 DEF RouteInv
<1>6. CASE AskList
  <2> DEFINE e == [type |-> "list", ids |-> LiveIds]
  <2>1. /\ e \in Event /\ events' = Append(events, e) /\ UNCHANGED <<maps, connected, live>>
        /\ silent' = {}
    BY <1>6 DEF AskList, Post, Event, LiveIds
  <2>2. \A c \in Ble : live'[c] # None => Up(e, c)
    BY <2>1 DEF Up, LiveIds
  <2>3. \A c \in Ble : ~Touches(e, c) => c \notin silent /\ live'[c] = live[c]
    BY <1>b, <2>1 DEF Touches, LiveIds
  <2>4. e.type # "announce"
    OBVIOUS
  <2>5. QueueInv' /\ RouteIsLive'
    BY <1>0, <2>1, <2>2, <2>3, <2>4, PostedKeepsRoutes
  <2> QED BY <1>0, <2>5 DEF RouteInv
<1>7. ASSUME NEW b \in Ble, SilentLoss(b) PROVE RouteInv'
  <2>1. /\ live' = [live EXCEPT ![b] = None] /\ silent' = silent \cup {b}
        /\ UNCHANGED <<maps, connected, events>>
    BY <1>7 DEF SilentLoss
  <2>2. QueueInv'
    BY <1>0, <1>a, <1>b, <2>1 DEF QueueInv, DirectMap, MapsTyped
  <2>3. RouteIsLive'
    BY <1>0, <1>a, <2>1 DEF RouteIsLive, Informed, maps
  <2> QED BY <1>0, <2>2, <2>3 DEF RouteInv
<1>8. CASE Tick \/ OpenScreen \/ CloseScreen \/ UNCHANGED vars \/ \E n \in Node : ChatAsks(n)
  <2>1. UNCHANGED <<maps, connected, live, events, silent>>
    BY <1>8 DEF Tick, OpenScreen, CloseScreen, ChatAsks, vars, native
  <2>2. QueueInv'
    BY <1>0, <2>1 DEF QueueInv
  <2>3. RouteIsLive'
    BY <1>0, <2>1 DEF RouteIsLive, Informed, maps
  <2> QED BY <1>0, <2>2, <2>3 DEF RouteInv
<1>9. ASSUME NEW b \in Ble, PeerAnnounces(b) PROVE RouteInv'
  <2>1. live[b] \in Node
    BY <1>9, <1>a DEF PeerAnnounces
  <2> QED BY <1>4, <1>9, <2>1
<1> QED BY <1>1, <1>2, <1>3, <1>4, <1>5, <1>6, <1>7, <1>8, <1>9 DEF Next, Native

\* A direct route is over a link the hook counts as connected, and once the hook
\* has heard of everything about that link, it leads to the phone at its far end.
THEOREM RouteAlwaysLive == Spec => []RouteIsLive
<1>1. RouteInv => RouteIsLive
  BY DEF RouteInv
<1> QED BY <1>1, RouteInvInit, RouteInvStep, PTL DEF Spec

-----------------------------------------------------------------------------
(* The discovery registry.  What pruneExpired leaves is defined by recursion *)
(* over the list; facts about it come from the least number at which they    *)
(* would fail.                                                               *)

\* A set of numbers has a least element.
LEMMA LeastNumber ==
  ASSUME NEW T \in SUBSET Nat, T # {}
  PROVE  \E x \in T : \A y \in T : ~(y < x)
<1> DEFINE R == OpToRel(<, Nat)
<1>1. IsWellFoundedOn(R, Nat)
  BY NatLessThanWellFounded
<1>2. T \subseteq Nat
  OBVIOUS
<1> HIDE DEF R
<1>3. \E x \in T : \A y \in T : ~(<<y, x>> \in R)
  BY <1>1, <1>2, WFMin, Zenon
<1> QED BY <1>3 DEF R, OpToRel

\* What holds at 0 and passes from each number to the next holds up to k.
LEMMA CountUp ==
  ASSUME NEW k \in Nat, NEW T \in SUBSET (0 .. k), 0 \in T,
         \A i \in 1 .. k : i - 1 \in T => i \in T
  PROVE  T = 0 .. k
<1> DEFINE bad == (0 .. k) \ T
<1>1. SUFFICES ASSUME bad # {} PROVE FALSE
  OBVIOUS
<1>2. bad \in SUBSET Nat
  OBVIOUS
<1> HIDE DEF bad
<1>3. PICK x \in bad : \A y \in bad : ~(y < x)
  BY <1>1, <1>2, LeastNumber
<1>4. x \in 1 .. k /\ x - 1 \in 0 .. k /\ x - 1 < x
  BY <1>3 DEF bad
<1>5. x - 1 \notin bad
  BY <1>3, <1>4
<1> QED BY <1>3, <1>4, <1>5 DEF bad

\* One round of the loop: what is left of the entries before the i-th.
Left(list, at, rest, i) ==
  IF at[list[i]] + Retention >= clock THEN Append(rest, list[i]) ELSE rest

\* A function of the loop's rounds up to the k-th.
Loop(list, at, k, f) ==
  f = [i \in 0 .. k |-> IF i = 0 THEN <<>> ELSE Left(list, at, f[i - 1], i)]

LEMMA LoopExists ==
  ASSUME NEW list, NEW at, NEW k \in Nat
  PROVE  \E f : Loop(list, at, k, f)
<1> DEFINE T == {n \in 0 .. k : \E f : Loop(list, at, n, f)}
<1>1. 0 \in T
  <2> DEFINE f == [i \in 0 .. 0 |-> <<>>]
  <2>1. f = [i \in 0 .. 0 |-> IF i = 0 THEN <<>> ELSE Left(list, at, f[i - 1], i)]
    OBVIOUS
  <2> HIDE DEF f
  <2> QED BY <2>1 DEF Loop
<1>2. ASSUME NEW n \in 1 .. k, n - 1 \in T
      PROVE  n \in T
  <2>1. PICK g : Loop(list, at, n - 1, g)
    BY <1>2
  <2> DEFINE f == [i \in 0 .. n |-> IF i = n THEN Left(list, at, g[n - 1], n) ELSE g[i]]
  <2>2. g = [i \in 0 .. (n - 1) |-> IF i = 0 THEN <<>> ELSE Left(list, at, g[i - 1], i)]
    BY <2>1 DEF Loop
  <2>3. ASSUME NEW i \in 0 .. n
        PROVE  f[i] = IF i = 0 THEN <<>> ELSE Left(list, at, f[i - 1], i)
    <3>1. CASE i = 0
      BY <2>2, <3>1
    <3>2. CASE i # 0 /\ i # n
      <4>1. i \in 0 .. (n - 1) /\ i - 1 \in 0 .. n /\ i - 1 # n
        BY <3>2
      <4>2. f[i] = g[i] /\ f[i - 1] = g[i - 1]
        BY <3>2, <4>1
      <4>3. g[i] = Left(list, at, g[i - 1], i)
        BY <2>2, <3>2, <4>1
      <4> QED BY <3>2, <4>2, <4>3
    <3>3. CASE i = n
      <4>1. i # 0 /\ i - 1 \in 0 .. n /\ i - 1 # n
        BY <3>3
      <4>2. f[i] = Left(list, at, g[n - 1], n) /\ f[i - 1] = g[n - 1]
        BY <3>3, <4>1
      <4> QED BY <3>3, <4>1, <4>2
    <3> QED BY <3>1, <3>2, <3>3
  <2>4. f = [i \in 0 .. n |-> f[i]]
    OBVIOUS
  <2> HIDE DEF f
  <2>5. f = [i \in 0 .. n |-> IF i = 0 THEN <<>> ELSE Left(list, at, f[i - 1], i)]
    BY <2>3, <2>4
  <2> QED BY <2>5 DEF Loop
<1>3. T \in SUBSET (0 .. k)
  OBVIOUS
<1> HIDE DEF T
<1>4. T = 0 .. k
  BY <1>1, <1>2, <1>3, CountUp
<1>5. k \in T
  BY <1>4
<1> QED BY <1>5 DEF T

\* pruneExpired keeps the entries within the retention, and only them.
LEMMA PrunedFacts ==
  ASSUME NEW list \in Seq(Node), NEW at
  PROVE  /\ Pruned(list, at) \in Seq(Node)
         /\ Len(Pruned(list, at)) <= Len(list)
         /\ \A n : n \in Range(Pruned(list, at)) <=>
                     n \in Range(list) /\ at[n] + Retention >= clock
         /\ (\A n \in Range(list) : at[n] + Retention >= clock)
              => Len(Pruned(list, at)) = Len(list)
<1> DEFINE left[i \in 0 .. Len(list)] ==
             IF i = 0 THEN <<>>
             ELSE IF at[list[i]] + Retention >= clock THEN Append(left[i - 1], list[i])
             ELSE left[i - 1]
<1>1. Pruned(list, at) = left[Len(list)]
  BY DEF Pruned
<1>2. left = CHOOSE f : Loop(list, at, Len(list), f)
  BY DEF Loop, Left
<1> HIDE DEF left
<1>3. Len(list) \in Nat /\ \A i \in 1 .. Len(list) : list[i] \in Node
  OBVIOUS
<1>4. Loop(list, at, Len(list), left)
  BY <1>2, <1>3, LoopExists
<1>5. /\ left[0] = <<>>
      /\ \A i \in 1 .. Len(list) : left[i] = Left(list, at, left[i - 1], i)
  BY <1>3, <1>4 DEF Loop
<1> DEFINE fresh(n) == at[n] + Retention >= clock
           Good(i) ==
             /\ left[i] \in Seq(Node) /\ Len(left[i]) <= i
             /\ \A n : n \in Range(left[i]) <=> fresh(n) /\ \E j \in 1 .. i : list[j] = n
             /\ (\A j \in 1 .. i : fresh(list[j])) => Len(left[i]) = i
           T == {i \in 0 .. Len(list) : Good(i)}
<1>6. 0 \in T
  <2>1. left[0] \in Seq(Node) /\ Len(left[0]) = 0 /\ Range(left[0]) = {}
    BY <1>5 DEF Range
  <2> QED BY <1>3, <2>1
<1>7. ASSUME NEW i \in 1 .. Len(list), i - 1 \in T
      PROVE  i \in T
  <2>1. Good(i - 1) /\ i - 1 \in Nat /\ (i - 1) + 1 = i /\ list[i] \in Node
    BY <1>3, <1>7
  <2>2. \A n : (\E j \in 1 .. i : list[j] = n) <=> (\E j \in 1 .. (i - 1) : list[j] = n) \/ list[i] = n
    BY <1>3
  <2> DEFINE r == left[i - 1]
  <2>3. CASE fresh(list[i])
    <3>1. left[i] = Append(r, list[i])
      BY <1>5, <2>3 DEF Left
    <3>2. r \in Seq(Node) /\ Len(r) <= i - 1
      BY <2>1
    <3> HIDE DEF r
    <3>3. left[i] \in Seq(Node) /\ Len(left[i]) = Len(r) + 1
      BY <2>1, <3>1, <3>2
    <3>4. \A n : n \in Range(left[i]) <=> n \in Range(r) \/ n = list[i]
      <4>1. DOMAIN left[i] = 1 .. (Len(r) + 1) /\ DOMAIN r = 1 .. Len(r) /\ Len(r) \in Nat
        BY <3>2, <3>3
      <4>2. /\ \A j \in 1 .. Len(r) : left[i][j] = r[j]
            /\ left[i][Len(r) + 1] = list[i]
        BY <2>1, <3>1, <3>2
      <4> QED BY <4>1, <4>2 DEF Range
    <3>5. (\A j \in 1 .. i : fresh(list[j])) => Len(left[i]) = i
      BY <1>3, <2>1, <3>2, <3>3 DEF r
    <3>6. Len(left[i]) <= i
      BY <2>1, <3>2, <3>3
    <3>7. \A n : n \in Range(left[i]) <=> fresh(n) /\ \E j \in 1 .. i : list[j] = n
      BY <2>1, <2>2, <2>3, <3>4 DEF r
    <3> QED BY <1>3, <3>3, <3>5, <3>6, <3>7
  <2>4. CASE ~fresh(list[i])
    <3>1. left[i] = r
      BY <1>5, <2>4 DEF Left
    <3>2. \A n : n \in Range(left[i]) <=> fresh(n) /\ \E j \in 1 .. i : list[j] = n
      BY <2>1, <2>2, <2>4, <3>1
    <3>3. i \in 1 .. i
      BY <1>3
    <3>4. left[i] \in Seq(Node) /\ Len(left[i]) <= i - 1
      BY <2>1, <3>1
    <3>5. Len(left[i]) <= i
      BY <2>1, <3>4
    <3> QED BY <1>3, <2>4, <3>2, <3>3, <3>4, <3>5
  <2> QED BY <2>3, <2>4
<1>8. T \in SUBSET (0 .. Len(list))
  OBVIOUS
<1>9. Good(Len(list))
  <2> HIDE DEF T
  <2>1. T = 0 .. Len(list)
    BY <1>3, <1>6, <1>7, <1>8, CountUp
  <2>2. Len(list) \in T
    BY <1>3, <2>1
  <2> QED BY <2>2 DEF T
<1>10. \A n : n \in Range(list) <=> \E j \in 1 .. Len(list) : list[j] = n
  BY DEF Range
<1>11. (\A n \in Range(list) : fresh(n)) <=> \A j \in 1 .. Len(list) : fresh(list[j])
  BY <1>10
<1> QED BY <1>1, <1>9, <1>10, <1>11

\* What the registry owes its readers: every entry has the time it was last
\* heard, and a node heard of is missing only if it is out of date, or if the
\* registry is full of nodes heard of no earlier.
Complete(list, at, last) ==
  /\ list \in Seq(Node) /\ Len(list) <= MaxEntries
  /\ \A m \in Range(list) : last[m] # None /\ at[m] = last[m]
  /\ \A n \in Node : last[n] # None /\ n \notin Range(list) =>
       \/ last[n] + Retention < clock
       \/ Len(list) = MaxEntries /\ \A m \in Range(list) : last[n] <= last[m]

\* The times of the registry are past.
TimesTyped(at, last) ==
  /\ at \in [Node -> Nat] /\ last \in [Node -> Nat \cup {None}]
  /\ \A n \in Node : last[n] # None => last[n] <= clock

RegistryInv == /\ clock \in Nat
               /\ TimesTyped(heardAt, lastHeard)
               /\ Complete(discovered, heardAt, lastHeard)

LEMMA RangeIsNodes ==
  ASSUME NEW list \in Seq(Node)
  PROVE  Range(list) \subseteq Node
BY DEF Range

\* Pruning forgets only what is out of date; what an eviction forgot before is
\* out of date too when an entry heard of no earlier is.
LEMMA PruneStaysComplete ==
  ASSUME NEW list, NEW at, NEW last, clock \in Nat, TimesTyped(at, last), Complete(list, at, last)
  PROVE  Complete(Pruned(list, at), at, last)
<1> DEFINE r == Pruned(list, at)
<1>1. list \in Seq(Node) /\ Len(list) <= MaxEntries /\ Len(list) \in Nat
      /\ MaxEntries \in Nat /\ Retention \in Nat
  BY DirectoryAssumption DEF Complete, DirectoryAssumption
<1>2. /\ r \in Seq(Node) /\ Len(r) <= Len(list) /\ Len(r) \in Nat
      /\ \A n : n \in Range(r) <=> n \in Range(list) /\ at[n] + Retention >= clock
      /\ (\A n \in Range(list) : at[n] + Retention >= clock) => Len(r) = Len(list)
  <2>1. list \in Seq(Node)
    BY <1>1
  <2>2. /\ r \in Seq(Node) /\ Len(r) <= Len(list)
        /\ \A n : n \in Range(r) <=> n \in Range(list) /\ at[n] + Retention >= clock
        /\ (\A n \in Range(list) : at[n] + Retention >= clock) => Len(r) = Len(list)
    BY ONLY <2>1, PrunedFacts, Zenon
  <2> HIDE DEF r
  <2> QED BY <2>2
<1> HIDE DEF r
<1>3. ASSUME NEW n \in Node, last[n] # None, n \notin Range(r)
      PROVE  \/ last[n] + Retention < clock
             \/ Len(r) = MaxEntries /\ \A m \in Range(r) : last[n] <= last[m]
  <2>1. last[n] \in Nat
    BY <1>3 DEF TimesTyped
  <2>2. CASE n \in Range(list)
    <3>1. at[n] = last[n] /\ ~(at[n] + Retention >= clock)
      BY <1>2, <1>3, <2>2 DEF Complete
    <3> QED BY <1>1, <2>1, <3>1
  <2>3. CASE n \notin Range(list) /\ ~(last[n] + Retention < clock)
    <3>1. Len(list) = MaxEntries /\ \A m \in Range(list) : last[n] <= last[m]
      BY <1>3, <2>3 DEF Complete
    <3>2. ASSUME NEW m \in Range(list)
          PROVE  at[m] + Retention >= clock
      <4>1. at[m] = last[m] /\ last[n] <= last[m] /\ last[m] \in Nat
        BY <1>1, <3>1, RangeIsNodes DEF Complete, TimesTyped
      <4> QED BY <1>1, <2>1, <2>3, <4>1
    <3> QED BY <1>2, <3>1, <3>2
  <2> QED BY <2>2, <2>3
<1>4. Len(r) <= MaxEntries
  BY <1>1, <1>2
<1>5. \A m \in Range(r) : last[m] # None /\ at[m] = last[m]
  BY <1>2 DEF Complete
<1> QED BY <1>2, <1>3, <1>4, <1>5 DEF Complete, r

\* Removing one element of a list.
LEMMA RemovedFacts ==
  ASSUME NEW list \in Seq(Node), NEW i \in 1 .. Len(list)
  PROVE  /\ RemoveAt(list, i) \in Seq(Node)
         /\ Len(RemoveAt(list, i)) = Len(list) - 1
         /\ Range(RemoveAt(list, i)) \subseteq Range(list)
         /\ \A n \in Range(list) : n # list[i] => n \in Range(RemoveAt(list, i))
<1>1. Len(list) \in Nat /\ i \in Nat /\ \A j \in 1 .. Len(list) : list[j] \in Node
  OBVIOUS
<1> DEFINE a == SubSeq(list, 1, i - 1)
           z == SubSeq(list, i + 1, Len(list))
           r == a \o z
<1>2. /\ a \in Seq(Node) /\ Len(a) = i - 1
      /\ \A j \in 1 .. (i - 1) : a[j] = list[j]
  <2>1. 1 \in Int /\ i - 1 \in Int /\ \A j \in 1 .. (i - 1) : list[j] \in Node
    BY <1>1
  <2> QED BY <1>1, <2>1, SubSeqProperties
<1>3. /\ z \in Seq(Node) /\ Len(z) = Len(list) - i
      /\ \A j \in 1 .. (Len(list) - i) : z[j] = list[i + j]
  <2>1. i + 1 \in Int /\ Len(list) \in Int /\ \A j \in (i + 1) .. Len(list) : list[j] \in Node
    BY <1>1
  <2>2. /\ z \in Seq(Node)
        /\ Len(z) = IF i + 1 <= Len(list) THEN Len(list) - (i + 1) + 1 ELSE 0
        /\ \A j \in 1 .. (Len(list) - (i + 1) + 1) : z[j] = list[(i + 1) + j - 1]
    BY ONLY <2>1, SubSeqProperties
  <2> HIDE DEF z
  <2>3. Len(z) = Len(list) - i
    BY <1>1, <2>2
  <2>4. ASSUME NEW j \in 1 .. (Len(list) - i)
        PROVE  z[j] = list[i + j]
    <3>1. j \in 1 .. (Len(list) - (i + 1) + 1) /\ (i + 1) + j - 1 = i + j
      BY <1>1
    <3> QED BY <2>2, <3>1
  <2> QED BY <2>2, <2>3, <2>4
<1> HIDE DEF a, z
<1>4. /\ r \in Seq(Node) /\ Len(r) = Len(a) + Len(z)
      /\ \A j \in 1 .. (Len(a) + Len(z)) : r[j] = IF j <= Len(a) THEN a[j] ELSE z[j - Len(a)]
  BY <1>2, <1>3, ConcatProperties
<1> HIDE DEF r
<1>5. Len(r) = Len(list) - 1
  BY <1>1, <1>2, <1>3, <1>4
<1>6. ASSUME NEW j \in 1 .. (Len(list) - 1)
      PROVE  r[j] = IF j < i THEN list[j] ELSE list[j + 1]
  <2>1. CASE j < i
    <3>1. j \in 1 .. (i - 1) /\ j <= Len(a) /\ j \in 1 .. (Len(a) + Len(z))
      BY <1>1, <1>2, <1>3, <2>1
    <3> QED BY <1>2, <1>4, <2>1, <3>1
  <2>2. CASE ~(j < i)
    <3>1. j - Len(a) \in 1 .. (Len(list) - i) /\ ~(j <= Len(a)) /\ j \in 1 .. (Len(a) + Len(z))
          /\ i + (j - Len(a)) = j + 1
      BY <1>1, <1>2, <1>3, <2>2
    <3> QED BY <1>3, <1>4, <2>2, <3>1
  <2> QED BY <2>1, <2>2
<1>7. DOMAIN r = 1 .. (Len(list) - 1) /\ DOMAIN list = 1 .. Len(list)
  BY <1>4, <1>5
<1>8. Range(r) \subseteq Range(list)
  <2> SUFFICES ASSUME NEW j \in 1 .. (Len(list) - 1) PROVE r[j] \in Range(list)
    BY <1>7 DEF Range
  <2>1. j \in 1 .. Len(list) /\ j + 1 \in 1 .. Len(list)
    BY <1>1
  <2> QED BY <1>6, <1>7, <2>1 DEF Range
<1>9. ASSUME NEW n \in Range(list), n # list[i]
      PROVE  n \in Range(r)
  <2>1. PICK j \in 1 .. Len(list) : list[j] = n
    BY <1>7 DEF Range
  <2>2. CASE j < i
    <3>1. j \in 1 .. (Len(list) - 1)
      BY <1>1, <2>2
    <3>2. r[j] = n
      BY <1>6, <2>1, <2>2, <3>1
    <3> QED BY <1>7, <3>1, <3>2 DEF Range
  <2>3. CASE j > i
    <3>1. j - 1 \in 1 .. (Len(list) - 1) /\ ~(j - 1 < i) /\ (j - 1) + 1 = j
      BY <1>1, <2>3
    <3>2. r[j - 1] = n
      BY <1>6, <2>1, <3>1
    <3> QED BY <1>7, <3>1, <3>2 DEF Range
  <2>4. j # i
    BY <1>9, <2>1
  <2> QED BY <1>1, <2>2, <2>3, <2>4
<1>10. RemoveAt(list, i) = r
  BY DEF RemoveAt, r, a, z
<1> QED BY <1>4, <1>5, <1>8, <1>9, <1>10

\* evictOldest takes an entry heard of no later than any other.
LEMMA EvictFacts ==
  ASSUME NEW list \in Seq(Node), list # <<>>, NEW at \in [Node -> Nat]
  PROVE  \E i \in 1 .. Len(list) :
           /\ EvictOldest(list, at) = RemoveAt(list, i)
           /\ \A j \in 1 .. Len(list) : at[list[i]] <= at[list[j]]
<1>1. /\ Len(list) \in Nat \ {0} /\ DOMAIN list = 1 .. Len(list)
      /\ \A j \in 1 .. Len(list) : list[j] \in Node /\ at[list[j]] \in Nat
  OBVIOUS
<1> DEFINE times == {at[list[j]] : j \in 1 .. Len(list)}
<1>2. times \in SUBSET Nat /\ times # {}
  BY <1>1
<1> HIDE DEF times
<1>3. PICK v \in times : \A y \in times : ~(y < v)
  BY <1>2, LeastNumber
<1> DEFINE places == {j \in 1 .. Len(list) : at[list[j]] = v}
<1>4. places \in SUBSET Nat /\ places # {}
  BY <1>1, <1>3 DEF times
<1> HIDE DEF places
<1>5. PICK k \in places : \A y \in places : ~(y < k)
  BY <1>4, LeastNumber
<1>6. k \in 1 .. Len(list) /\ at[list[k]] = v
  BY <1>5 DEF places
<1>7. ASSUME NEW j \in 1 .. Len(list)
      PROVE  at[list[k]] <= at[list[j]]
  <2>1. at[list[j]] \in times /\ at[list[j]] \in Nat /\ v \in Nat
    BY <1>1, <1>2, <1>3 DEF times
  <2>2. ~(at[list[j]] < v)
    BY <1>3, <2>1
  <2> QED BY <1>6, <2>1, <2>2
<1>8. ASSUME NEW j \in 1 .. k - 1
      PROVE  at[list[j]] > at[list[k]]
  <2>1. j \in 1 .. Len(list) /\ j < k
    BY <1>1, <1>6
  <2>2. at[list[j]] # v
    BY <1>5, <2>1 DEF places
  <2> QED BY <1>1, <1>6, <1>7, <2>1, <2>2
<1> DEFINE First(i) == /\ \A j \in DOMAIN list : at[list[i]] <= at[list[j]]
                       /\ \A j \in 1 .. i - 1 : at[list[j]] > at[list[i]]
<1>9. k \in DOMAIN list /\ First(k)
  BY <1>1, <1>6, <1>7, <1>8
<1> DEFINE i == CHOOSE i \in DOMAIN list : First(i)
<1>10. EvictOldest(list, at) = RemoveAt(list, i)
  BY DEF EvictOldest
<1> HIDE DEF First
<1>11. i \in DOMAIN list /\ First(i)
  BY <1>9
<1> HIDE DEF i
<1> QED BY <1>1, <1>10, <1>11 DEF First

\* Recording a node heard of just now keeps the registry complete.
LEMMA RecordStaysComplete ==
  ASSUME RegistryInv, NEW n \in Node,
         heardAt' = [heardAt EXCEPT ![n] = clock],
         lastHeard' = [lastHeard EXCEPT ![n] = clock]
  PROVE  /\ TimesTyped(heardAt', lastHeard')
         /\ Complete(Recorded(n, heardAt'), heardAt', lastHeard')
<1>1. /\ discovered \in Seq(Node) /\ Len(discovered) \in Nat /\ Len(discovered) <= MaxEntries
      /\ MaxEntries \in Nat \ {0} /\ Retention \in Nat /\ clock \in Nat /\ clock # None
      /\ heardAt \in [Node -> Nat] /\ lastHeard \in [Node -> Nat \cup {None}]
  BY DirectoryAssumption DEF RegistryInv, Complete, TimesTyped, DirectoryAssumption
<1>2. TimesTyped(heardAt', lastHeard')
  BY <1>1 DEF RegistryInv, TimesTyped
<1>3. /\ lastHeard'[n] = clock /\ heardAt'[n] = clock
      /\ \A m \in Node : m # n => lastHeard'[m] = lastHeard[m] /\ heardAt'[m] = heardAt[m]
  BY <1>1
<1>4. \A m \in Node : lastHeard'[m] # None => lastHeard'[m] \in Nat /\ lastHeard'[m] <= clock
  BY <1>2 DEF TimesTyped
<1>5. \A m \in Range(discovered) :
        m \in Node /\ lastHeard'[m] # None /\ heardAt'[m] = lastHeard'[m]
        /\ lastHeard[m] \in Nat /\ lastHeard[m] <= lastHeard'[m]
  <2> SUFFICES ASSUME NEW m \in Range(discovered)
               PROVE  m \in Node /\ lastHeard'[m] # None /\ heardAt'[m] = lastHeard'[m]
                      /\ lastHeard[m] \in Nat /\ lastHeard[m] <= lastHeard'[m]
    OBVIOUS
  <2>1. m \in Node /\ lastHeard[m] # None /\ heardAt[m] = lastHeard[m]
    BY <1>1, RangeIsNodes DEF RegistryInv, Complete
  <2>2. lastHeard[m] \in Nat /\ lastHeard[m] <= clock
    BY <1>1, <2>1 DEF RegistryInv, TimesTyped
  <2>3. CASE m = n
    BY <1>1, <1>3, <2>1, <2>2, <2>3
  <2>4. CASE m # n
    BY <1>1, <1>3, <2>1, <2>2, <2>4
  <2> QED BY <2>3, <2>4
\* Of a node missing so far, and of the entries then, what the registry owed.
<1>6. ASSUME NEW m \in Node, lastHeard'[m] # None, m \notin Range(discovered), m # n
      PROVE  /\ lastHeard'[m] \in Nat
             /\ \/ lastHeard'[m] + Retention < clock
                \/ /\ Len(discovered) = MaxEntries
                   /\ \A e \in Range(discovered) : lastHeard'[m] <= lastHeard'[e]
  <2>1. lastHeard'[m] = lastHeard[m] /\ lastHeard'[m] \in Nat
    BY <1>3, <1>4, <1>6
  <2>2. \/ lastHeard[m] + Retention < clock
        \/ Len(discovered) = MaxEntries /\ \A e \in Range(discovered) : lastHeard[m] <= lastHeard[e]
    BY <1>6, <2>1 DEF RegistryInv, Complete
  <2>3. ASSUME NEW e \in Range(discovered), lastHeard[m] <= lastHeard[e]
        PROVE  lastHeard'[m] <= lastHeard'[e]
    <3>1. /\ lastHeard[e] \in Nat /\ lastHeard[e] <= lastHeard'[e]
          /\ lastHeard'[e] \in Nat
      BY <1>4, <1>5
    <3> QED BY <2>1, <2>3, <3>1
  <2> QED BY <2>1, <2>2, <2>3
<1>7. CASE n \in Range(discovered)
  <2>1. Recorded(n, heardAt') = discovered
    BY <1>7 DEF Recorded
  <2>2. ASSUME NEW m \in Node, lastHeard'[m] # None, m \notin Range(discovered)
        PROVE  \/ lastHeard'[m] + Retention < clock
               \/ /\ Len(discovered) = MaxEntries
                  /\ \A e \in Range(discovered) : lastHeard'[m] <= lastHeard'[e]
    BY <1>6, <1>7, <2>2
  <2> QED BY <1>1, <1>2, <1>5, <2>1, <2>2 DEF Complete
<1>8. CASE n \notin Range(discovered)
  <2> DEFINE list == Append(discovered, n)
  <2>1. /\ list \in Seq(Node) /\ Len(list) = Len(discovered) + 1 /\ list # <<>>
        /\ \A j \in 1 .. Len(discovered) : list[j] = discovered[j]
        /\ list[Len(discovered) + 1] = n
    <3>1. discovered \in Seq(Node) /\ Len(discovered) \in Nat
      BY <1>1
    <3>2. Len(list) = Len(discovered) + 1 /\ list \in Seq(Node)
      BY <3>1
    <3>3. \A j \in 1 .. Len(discovered) : list[j] = discovered[j]
      BY <3>1
    <3>4. list[Len(discovered) + 1] = n
      BY <3>1
    <3> HIDE DEF list
    <3>5. list # <<>>
      BY <3>1, <3>2
    <3> QED BY <3>2, <3>3, <3>4, <3>5
  <2>2. Recorded(n, heardAt') = IF Len(list) > MaxEntries THEN EvictOldest(list, heardAt') ELSE list
    BY <1>8 DEF Recorded
  <2> HIDE DEF list
  <2>3. \A m : m \in Range(list) <=> m \in Range(discovered) \/ m = n
    <3>1. DOMAIN list = 1 .. (Len(discovered) + 1) /\ DOMAIN discovered = 1 .. Len(discovered)
      BY <1>1, <2>1
    <3>2. 1 .. (Len(discovered) + 1) = (1 .. Len(discovered)) \cup {Len(discovered) + 1}
      BY <1>1
    <3>3. ASSUME NEW m
          PROVE  m \in Range(list) <=> m \in Range(discovered) \/ m = n
      <4>1. m \in Range(list) <=> \E j \in (1 .. Len(discovered)) \cup {Len(discovered) + 1} : list[j] = m
        BY <3>1, <3>2 DEF Range
      <4>2. m \in Range(discovered) <=> \E j \in 1 .. Len(discovered) : discovered[j] = m
        BY <3>1 DEF Range
      <4> QED BY <2>1, <4>1, <4>2
    <3> QED BY <3>3
  <2>4. \A m \in Range(list) : m \in Node /\ lastHeard'[m] # None /\ heardAt'[m] = lastHeard'[m]
                               /\ lastHeard'[m] \in Nat
    BY <1>1, <1>3, <1>4, <1>5, <2>3
  <2>5. CASE ~(Len(list) > MaxEntries)
    <3>1. Len(discovered) # MaxEntries /\ Len(list) <= MaxEntries
      BY <1>1, <2>1, <2>5
    <3>2. ASSUME NEW m \in Node, lastHeard'[m] # None, m \notin Range(list)
          PROVE  lastHeard'[m] + Retention < clock
      <4>1. m \notin Range(discovered) /\ m # n
        BY <2>3, <3>2
      <4> QED BY <1>6, <3>1, <3>2, <4>1
    <3>3. Recorded(n, heardAt') = list
      BY <2>2, <2>5
    <3>4. Complete(list, heardAt', lastHeard')
      <4>1. list \in Seq(Node) /\ Len(list) <= MaxEntries
        BY <2>1, <3>1
      <4> QED BY <1>1, <2>4, <3>2, <4>1 DEF Complete
    <3> QED BY <1>2, <3>3, <3>4
  <2>6. CASE Len(list) > MaxEntries
    <3>1. Len(discovered) = MaxEntries
      BY <1>1, <2>1, <2>6
    <3>2. heardAt' \in [Node -> Nat]
      BY <1>2 DEF TimesTyped
    <3>3. PICK i \in 1 .. Len(list) :
            /\ EvictOldest(list, heardAt') = RemoveAt(list, i)
            /\ \A j \in 1 .. Len(list) : heardAt'[list[i]] <= heardAt'[list[j]]
      BY <2>1, <3>2, EvictFacts
    <3> DEFINE r == RemoveAt(list, i)
    <3>4. /\ r \in Seq(Node) /\ Len(r) = Len(list) - 1
          /\ Range(r) \subseteq Range(list)
          /\ \A m \in Range(list) : m # list[i] => m \in Range(r)
      BY <2>1, RemovedFacts
    <3>5. Recorded(n, heardAt') = r
      BY <2>2, <2>6, <3>3
    <3> HIDE DEF r
    <3>6. Len(r) = MaxEntries
      BY <1>1, <2>1, <3>1, <3>4
    <3>7. ASSUME NEW e \in Range(list)
          PROVE  lastHeard'[list[i]] <= lastHeard'[e]
      <4>1. PICK j \in 1 .. Len(list) : list[j] = e
        BY <2>1 DEF Range
      <4>2. list[i] \in Range(list)
        BY <2>1 DEF Range
      <4>3. heardAt'[list[i]] <= heardAt'[e]
        BY <3>3, <4>1
      <4> QED BY <2>4, <4>2, <4>3
    <3>8. ASSUME NEW m \in Node, lastHeard'[m] # None, m \notin Range(r)
          PROVE  \/ lastHeard'[m] + Retention < clock
                 \/ \A e \in Range(r) : lastHeard'[m] <= lastHeard'[e]
      <4>1. CASE m \in Range(list)
        <5>1. m = list[i]
          BY <3>4, <3>8, <4>1
        <5> QED BY <3>4, <3>7, <5>1
      <4>2. CASE m \notin Range(list) /\ ~(lastHeard'[m] + Retention < clock)
        <5>1. /\ lastHeard'[m] \in Nat
              /\ \A e \in Range(discovered) : lastHeard'[m] <= lastHeard'[e]
          BY <1>6, <2>3, <3>8, <4>2
        <5>2. lastHeard'[m] <= lastHeard'[n]
          BY <1>3, <1>4, <3>8
        <5> QED BY <2>3, <3>4, <5>1, <5>2
      <4> QED BY <4>1, <4>2
    <3>9. Len(r) <= MaxEntries
      BY <1>1, <3>6
    <3>10. \A m \in Range(r) : lastHeard'[m] # None /\ heardAt'[m] = lastHeard'[m]
      BY <2>4, <3>4
    <3>11. Complete(r, heardAt', lastHeard')
      BY <1>1, <3>4, <3>6, <3>8, <3>9, <3>10 DEF Complete
    <3> QED BY <1>2, <3>5, <3>11
  <2> QED BY <2>5, <2>6
<1> QED BY <1>2, <1>7, <1>8

LEMMA RegistryInit == Init => RegistryInv
<1> SUFFICES ASSUME Init PROVE RegistryInv
  OBVIOUS
<1>1. discovered = <<>> /\ clock = 0 /\ heardAt = [n \in Node |-> 0]
      /\ lastHeard = [n \in Node |-> None]
  BY DEF Init
<1>2. discovered \in Seq(Node) /\ Len(discovered) = 0 /\ Range(discovered) = {}
  BY <1>1 DEF Range
<1>3. Complete(discovered, heardAt, lastHeard)
  BY <1>1, <1>2, DirectoryAssumption DEF Complete, DirectoryAssumption
<1> QED BY <1>1, <1>3 DEF RegistryInv, TimesTyped

\* Reading the list prunes the registry.
LEMMA PrunedRegistry ==
  ASSUME RegistryInv, UNCHANGED <<heardAt, lastHeard, clock>>,
         discovered' \in {discovered, Pruned(discovered, heardAt)}
  PROVE  RegistryInv'
<1>1. Complete(Pruned(discovered, heardAt), heardAt, lastHeard)
  BY PruneStaysComplete DEF RegistryInv
<1>2. Complete(discovered', heardAt, lastHeard)
  BY <1>1 DEF RegistryInv
<1>3. Complete(discovered, heardAt, lastHeard)'
  BY <1>2 DEF Complete
<1> QED BY <1>3 DEF RegistryInv, TimesTyped

\* Telling the screens leaves the list alone, or prunes it when one is open.
LEMMA NotifyLists ==
  ASSUME NEW list, Notify(list)
  PROVE  discovered' \in {list, Pruned(list, heardAt')}
BY DEF Notify

LEMMA RegistryStep == MapsTyped /\ RegistryInv /\ [Next]_vars => RegistryInv'
<1> SUFFICES ASSUME MapsTyped, RegistryInv, [Next]_vars PROVE RegistryInv'
  OBVIOUS
<1>1. ASSUME UNCHANGED <<mesh, clock>> PROVE RegistryInv'
  BY <1>1, PrunedRegistry DEF mesh
<1>2. CASE OnConnected \/ OnList
  BY <1>1, <1>2 DEF OnConnected, OnList, Takes, native
<1>3. CASE OnDisconnected \/ OnAnnounce
  <2>1. UNCHANGED <<heardAt, lastHeard, clock>> /\ Notify(discovered)
    BY <1>3 DEF OnDisconnected, OnAnnounce, Takes, native
  <2>2. discovered' \in {discovered, Pruned(discovered, heardAt)}
    BY <2>1, NotifyLists
  <2> QED BY <2>1, <2>2, PrunedRegistry
<1>4. CASE OnDiscovery
  <2> DEFINE n == Head(events).node
             list == Recorded(n, heardAt')
  <2>1. /\ heardAt' = [heardAt EXCEPT ![n] = clock]
        /\ lastHeard' = [lastHeard EXCEPT ![n] = clock]
        /\ Notify(list) /\ Takes("discovery") /\ clock' = clock
    BY <1>4 DEF OnDiscovery, Takes, native
  <2>2. n \in Node
    <3>1. Head(events) \in Event /\ Head(events).type = "discovery"
      BY <2>1, HandledEvent
    <3> QED BY <3>1 DEF Event
  <2>3. discovered' \in {list, Pruned(list, heardAt')}
    BY <2>1, NotifyLists
  <2> HIDE DEF n
  <2>4. TimesTyped(heardAt', lastHeard') /\ Complete(list, heardAt', lastHeard')
    BY <2>1, <2>2, RecordStaysComplete
  <2> HIDE DEF list
  <2>5. clock \in Nat
    BY DEF RegistryInv
  <2>6. Complete(Pruned(list, heardAt'), heardAt', lastHeard')
    BY <2>4, <2>5, PruneStaysComplete
  <2>7. Complete(discovered', heardAt', lastHeard')
    BY <2>3, <2>4, <2>6
  <2>8. Complete(discovered, heardAt, lastHeard)' /\ TimesTyped(heardAt, lastHeard)'
    BY <2>1, <2>4, <2>7 DEF Complete, TimesTyped
  <2> QED BY <2>1, <2>5, <2>8 DEF RegistryInv
<1>5. CASE Tick
  <2>1. clock' = clock + 1 /\ UNCHANGED mesh
    BY <1>5 DEF Tick
  <2>2. clock \in Nat /\ Retention \in Nat /\ \A n \in Node : lastHeard[n] # None => lastHeard[n] \in Nat
    BY DirectoryAssumption DEF RegistryInv, TimesTyped, DirectoryAssumption
  <2>3. TimesTyped(heardAt, lastHeard)'
    BY <2>1, <2>2 DEF mesh, RegistryInv, TimesTyped
  <2>4. \A n \in Node : lastHeard[n] # None /\ lastHeard[n] + Retention < clock
          => lastHeard[n] + Retention < clock'
    BY <2>1, <2>2
  <2>5. Complete(discovered, heardAt, lastHeard)'
    BY <2>1, <2>4 DEF mesh, RegistryInv, Complete
  <2> QED BY <2>1, <2>2, <2>3, <2>5 DEF RegistryInv
<1>6. CASE Native /\ ~Tick
  BY <1>1, <1>6 DEF Native, LinkUp, Relink, PeerRenamed, PeerFloods, LinkDown, SilentLoss,
                    PeerAnnounces, AskList, Post
<1>7. CASE OpenScreen
  BY <1>7, PrunedRegistry DEF OpenScreen, native
<1>8. CASE CloseScreen
  BY <1>1, <1>8 DEF CloseScreen, native
<1>9. CASE \E n \in Node : ChatAsks(n)
  BY <1>9, PrunedRegistry DEF ChatAsks, native
<1>10. CASE UNCHANGED vars
  BY <1>1, <1>10 DEF vars, native
<1> QED
  BY <1>2, <1>3, <1>4, <1>5, <1>6, <1>7, <1>8, <1>9, <1>10 DEF Next, Handle

\* The discovery registry forgets the stalest first: while it has room nothing
\* within the retention is missing, and a full one holds only nodes heard of no
\* earlier than those it lost, whatever is recorded, refreshed or pruned.
THEOREM FreshestAlwaysKept == Spec => []FreshestAreKept
<1>1. Init => MapsTyped /\ RegistryInv
  BY DirectMapInit, RegistryInit DEF DirectMap
<1>2. (DirectMap /\ RegistryInv) /\ [Next]_vars => (DirectMap /\ RegistryInv)'
  BY DirectMapStep, RegistryStep DEF DirectMap
<1>3. RegistryInv => FreshestAreKept
  BY DEF RegistryInv, Complete, FreshestAreKept
<1> QED BY <1>1, <1>2, <1>3, DirectMapInit, PTL DEF Spec
=============================================================================
