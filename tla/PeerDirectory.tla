---------------------------- MODULE PeerDirectory ----------------------------
(***************************************************************************)
(* Whom a phone believes it can reach.  The BitChatBLEAdapter keeps the     *)
(* direct map between BLE keys and BITCHAT node ids in two indexes, with a  *)
(* PeerRegistry beside them, and a MeshDiscoveryRegistry of nodes heard of; *)
(* useBLEVoiceMode feeds it with native events; the voiceDestinationStore   *)
(* hands the resulting destination list to the screens.                     *)
(*                                                                         *)
(* One phone with several links at once: a peer may be reached under two    *)
(* BLE keys (each phone is both a client and a server), come back under     *)
(* another key, or under a new node id.  Who sends ANNOUNCE and when is     *)
(* AnnounceHandshake's; the adapter exists here from the start.             *)
(***************************************************************************)
EXTENDS Naturals, Sequences, FiniteSets, SequencesExt

CONSTANTS
  Ble,         \* native keys of peers
  Node,        \* BITCHAT ids of the other phones
  None,        \* undefined
  MaxEntries,  \* DISCOVERY_MAX_ENTRIES
  Retention,   \* DISCOVERY_RETENTION_MS, in ticks
  MaxClock,    \* bound: ticks
  MaxQueue,    \* bound: events waiting for the hook
  MaxFaults    \* bound: silent losses, overtaken disconnects, changes of identity

ASSUME DirectoryAssumption ==
  /\ None \notin Ble \cup Node \cup Nat
  /\ MaxEntries \in Nat \ {0}
  /\ {Retention, MaxClock, MaxQueue, MaxFaults} \subseteq Nat

VARIABLES
  peerMap,     \* peerMappings: BLE key -> node id
  reverse,     \* reverseMappings: node id -> BLE key
  state,       \* PeerRegistry: ABSENT, DISCOVERED or CONNECTED
  discovered,  \* keys of the MeshDiscoveryRegistry, in the Map's order
  heardAt,     \* discoveredAt of the nodes discovered holds
  connected,   \* connectedPeersRef
  screen,      \* a screen with a destination list is mounted and subscribed
  shown,       \* the list it shows
  live,        \* live[b]: the node at the far end of b's link, None if down
  events,      \* native events and replies queued for the hook
  clock,
  faults,
  silent,      \* history: links lost without an event since the last list was asked
  unsaid,      \* history: routes removed since the screens were last told
  lastHeard    \* history: when a DISCOVERY of the node was last handled

maps   == <<peerMap, reverse, state>>
mesh   == <<discovered, heardAt, lastHeard>>
screens == <<screen, shown, unsaid>>
native == <<live, clock, faults>>
vars   == <<maps, mesh, connected, screens, native, events, silent>>

Event ==
  [type : {"connected", "disconnected"}, ble : Ble]
    \cup [type : {"announce", "discovery"}, ble : Ble, node : Node]
    \cup [type : {"list"}, ids : SUBSET Ble]

LiveIds == {b \in Ble : live[b] # None}

\* The hook mounts over links made before and asks for the native list.
Init ==
  /\ peerMap = [b \in Ble |-> None]
  /\ reverse = [n \in Node |-> None]
  /\ state = [n \in Node |-> "ABSENT"]
  /\ discovered = <<>>
  /\ heardAt = [n \in Node |-> 0]
  /\ connected = {}
  /\ screen = FALSE /\ shown = {}
  /\ live \in [Ble -> Node \cup {None}]
  /\ events = <<[type |-> "list", ids |-> LiveIds]>>
  /\ clock = 0 /\ faults = 0
  /\ silent = {} /\ unsaid = {}
  /\ lastHeard = [n \in Node |-> None]

-----------------------------------------------------------------------------
(* BitChatBLEAdapter *)

\* Mutation: the node's earlier BLE key keeps its mapping.
MutRegisterPeer(b, n) ==
  /\ peerMap' = [peerMap EXCEPT ![b] = n]
  /\ reverse' = [m \in Node |-> IF m = n THEN b ELSE IF m = peerMap[b] THEN None ELSE reverse[m]]
  /\ state' = [m \in Node |-> IF m = n THEN "CONNECTED"
                              ELSE IF m = peerMap[b] THEN "DISCOVERED" ELSE state[m]]

\* Mutation: the BLE key's earlier node stays CONNECTED.
Mut2RegisterPeer(b, n) ==
  /\ peerMap' = [c \in Ble |-> IF c = b THEN n ELSE IF c = reverse[n] THEN None ELSE peerMap[c]]
  /\ reverse' = [m \in Node |-> IF m = n THEN b ELSE IF m = peerMap[b] THEN None ELSE reverse[m]]
  /\ state' = [state EXCEPT ![n] = "CONNECTED"]

\* registerPeer: the earlier node of this BLE key and the earlier BLE key of
\* this node lose their entries.
RegisterPeer(b, n) ==
  /\ peerMap' = [c \in Ble |-> IF c = b THEN n ELSE IF c = reverse[n] THEN None ELSE peerMap[c]]
  /\ reverse' = [m \in Node |-> IF m = n THEN b ELSE IF m = peerMap[b] THEN None ELSE reverse[m]]
  /\ state' = [m \in Node |-> IF m = n THEN "CONNECTED"
                              ELSE IF m = peerMap[b] THEN "DISCOVERED" ELSE state[m]]

\* Mutation: every mapping is cleared.
MutUnregisterPeers(gone) ==
  /\ peerMap' = [b \in Ble |-> None]
  /\ reverse' = [n \in Node |-> None]
  /\ state' = [n \in Node |-> IF reverse[n] # None THEN "DISCOVERED" ELSE state[n]]

\* unregisterPeer of every key in gone.
UnregisterPeers(gone) ==
  LET lost == {peerMap[b] : b \in gone} \ {None} IN
  /\ peerMap' = [b \in Ble |-> IF b \in gone THEN None ELSE peerMap[b]]
  /\ reverse' = [n \in Node |-> IF n \in lost /\ reverse[n] \in gone THEN None ELSE reverse[n]]
  /\ state' = [n \in Node |-> IF n \in lost THEN "DISCOVERED" ELSE state[n]]

\* isDirectPeerReady
IsDirectPeerReady(b) ==
  /\ peerMap[b] # None
  /\ reverse[peerMap[b]] = b
  /\ state[peerMap[b]] = "CONNECTED"

-----------------------------------------------------------------------------
(* MeshDiscoveryRegistry *)

\* pruneExpired: the loop over the Map, in which the entries older than the
\* retention go.
Pruned(list, at) ==
  LET left[i \in 0 .. Len(list)] ==
        IF i = 0 THEN <<>>
        ELSE IF at[list[i]] + Retention >= clock THEN Append(left[i - 1], list[i])
        ELSE left[i - 1]
  IN left[Len(list)]

\* evictOldest: the first in Map order among the entries with the earliest time.
EvictOldest(list, at) ==
  RemoveAt(list, CHOOSE i \in DOMAIN list :
    /\ \A j \in DOMAIN list : at[list[i]] <= at[list[j]]
    /\ \A j \in 1 .. i - 1 : at[list[j]] > at[list[i]])

\* Mutation: the newcomer goes.
MutRecorded(n, at) ==
  IF n \in Range(discovered) \/ Len(discovered) = MaxEntries
  THEN discovered ELSE Append(discovered, n)

\* record: a known node keeps its place (its time is refreshed), a new one is
\* added and the oldest evicted when there are too many.
Recorded(n, at) ==
  LET list == Append(discovered, n) IN
  IF n \in Range(discovered) THEN discovered
  ELSE IF Len(list) > MaxEntries THEN EvictOldest(list, at) ELSE list

-----------------------------------------------------------------------------
(* The destination list *)

\* buildMeshDestinations: the CONNECTED peers, then the discovered nodes that
\* are not among them.
Destinations(nodeState, index, list) ==
  {[node |-> n, direct |-> TRUE, ble |-> index[n]] : n \in {m \in Node : nodeState[m] = "CONNECTED"}}
    \cup
  {[node |-> n, direct |-> index[n] # None, ble |-> index[n]] :
     n \in {m \in Node : nodeState[m] # "CONNECTED" /\ m \in Range(list)}}

\* notifyMeshDestinationsChanged, after a handler whose registry is `list`: a
\* subscribed screen rebuilds its list, which prunes the registry.
Notify(list) ==
  IF screen
  THEN /\ discovered' = Pruned(list, heardAt')
       /\ shown' = Destinations(state', reverse', discovered')
       /\ unsaid' = {}
       /\ UNCHANGED screen
  ELSE discovered' = list /\ UNCHANGED screens

\* The handler tells nobody.
Untold(gone) ==
  /\ unsaid' = IF screen THEN unsaid \cup ({peerMap[b] : b \in gone} \ {None}) ELSE unsaid
  /\ UNCHANGED <<screen, shown>>

-----------------------------------------------------------------------------
(* The hook's handlers *)

Takes(type) ==
  /\ events # <<>>
  /\ Head(events).type = type
  /\ events' = Tail(events)
  /\ UNCHANGED native

\* BLE_CONNECTED: a fresh connection-scoped route, the old one is dropped.
OnConnected ==
  LET b == Head(events).ble IN
  /\ Takes("connected")
  /\ UnregisterPeers({b})
  /\ connected' = connected \cup {b}
  /\ Untold({b})
  /\ UNCHANGED <<mesh, silent>>

\* Mutation: the route stays until the peer comes back.
MutOnDisconnected ==
  LET b == Head(events).ble IN
  /\ Takes("disconnected")
  /\ UNCHANGED maps
  /\ connected' = connected \ {b}
  /\ UNCHANGED <<heardAt, lastHeard, silent>>
  /\ Notify(discovered)

\* Mutation: the screens are not told.
Mut2OnDisconnected ==
  LET b == Head(events).ble IN
  /\ Takes("disconnected")
  /\ UnregisterPeers({b})
  /\ connected' = connected \ {b}
  /\ UNCHANGED <<mesh, screens, silent>>

\* BLE_DISCONNECTED
OnDisconnected ==
  LET b == Head(events).ble IN
  /\ Takes("disconnected")
  /\ UnregisterPeers({b})
  /\ connected' = connected \ {b}
  /\ UNCHANGED <<heardAt, lastHeard, silent>>
  /\ Notify(discovered)

\* An ANNOUNCE: processAnnounce, and the screens are told.
OnAnnounce ==
  /\ Takes("announce")
  /\ RegisterPeer(Head(events).ble, Head(events).node)
  /\ UNCHANGED <<heardAt, lastHeard, connected, silent>>
  /\ Notify(discovered)

\* A DISCOVERY: processDiscovery records the node, makes no route, and the
\* screens are told.
OnDiscovery ==
  LET n == Head(events).node IN
  /\ Takes("discovery")
  /\ heardAt' = [heardAt EXCEPT ![n] = clock]
  /\ lastHeard' = [lastHeard EXCEPT ![n] = clock]
  /\ UNCHANGED <<maps, connected, silent>>
  /\ Notify(Recorded(n, heardAt'))

\* reconcileConnectedPeers with the native list: connectedPeersRef follows it
\* and the routes of peers it does not name are dropped.  Nobody is told.
OnList ==
  LET ids  == Head(events).ids
      gone == {b \in Ble : peerMap[b] # None} \ ids IN
  /\ Takes("list")
  /\ connected' = ids
  /\ UnregisterPeers(gone)
  /\ Untold(gone)
  /\ UNCHANGED <<mesh, silent>>

-----------------------------------------------------------------------------
(* The native layer and the peers (external) *)

Post(event) ==
  /\ Len(events) < MaxQueue
  /\ events' = Append(events, event)
  /\ UNCHANGED <<maps, mesh, connected, screens, clock>>

LinkUp(b, n) ==
  /\ live[b] = None
  /\ live' = [live EXCEPT ![b] = n]
  /\ Post([type |-> "connected", ble |-> b])
  /\ silent' = silent \ {b}
  /\ UNCHANGED faults

LinkDown(b) ==
  /\ live[b] # None
  /\ live' = [live EXCEPT ![b] = None]
  /\ Post([type |-> "disconnected", ble |-> b])
  /\ UNCHANGED <<faults, silent>>

Fault == faults < MaxFaults /\ faults' = faults + 1

\* The native entry goes without an event (ConnectionHook: a failed write).
SilentLoss(b) ==
  /\ live[b] # None
  /\ Fault
  /\ live' = [live EXCEPT ![b] = None]
  /\ silent' = silent \cup {b}
  /\ UNCHANGED <<maps, mesh, connected, screens, events, clock>>

\* A reconnect overtakes the disconnect, which is then swallowed.
Relink(b, n) ==
  /\ live[b] # None
  /\ Fault
  /\ live' = [live EXCEPT ![b] = n]
  /\ Post([type |-> "connected", ble |-> b])
  /\ UNCHANGED silent

PeerAnnounces(b) ==
  /\ live[b] # None
  /\ Post([type |-> "announce", ble |-> b, node |-> live[b]])
  /\ UNCHANGED <<live, faults, silent>>

\* A peer whose adapter is made again announces itself under a new id.
PeerRenamed(b, n) ==
  /\ live[b] # None /\ n \notin Range(live)
  /\ Fault
  /\ live' = [live EXCEPT ![b] = n]
  /\ Post([type |-> "announce", ble |-> b, node |-> n])
  /\ UNCHANGED silent

\* The peer passes on the DISCOVERY of some node.
PeerFloods(b, n) ==
  /\ live[b] # None
  /\ Post([type |-> "discovery", ble |-> b, node |-> n])
  /\ UNCHANGED <<live, faults, silent>>

\* getConnectedDeviceIds answers with the links of this moment.
AskList ==
  /\ Post([type |-> "list", ids |-> LiveIds])
  /\ silent' = {}
  /\ UNCHANGED <<live, faults>>

Tick ==
  /\ clock < MaxClock
  /\ clock' = clock + 1
  /\ UNCHANGED <<maps, mesh, connected, screens, live, faults, events, silent>>

-----------------------------------------------------------------------------
(* The screens *)

\* A screen mounts: it reads the list and subscribes.
OpenScreen ==
  /\ ~screen
  /\ screen' = TRUE
  /\ discovered' = Pruned(discovered, heardAt)
  /\ shown' = Destinations(state, reverse, discovered')
  /\ unsaid' = {}
  /\ UNCHANGED <<maps, heardAt, lastHeard, connected, native, events, silent>>

CloseScreen ==
  /\ screen
  /\ screen' = FALSE /\ shown' = {} /\ unsaid' = {}
  /\ UNCHANGED <<maps, mesh, connected, native, events, silent>>

\* canRouteTo for a node that is no direct peer looks among the discovered
\* nodes, which prunes them.
ChatAsks(n) ==
  /\ reverse[n] = None
  /\ discovered' = Pruned(discovered, heardAt)
  /\ UNCHANGED <<maps, heardAt, lastHeard, connected, screens, native, events, silent>>

-----------------------------------------------------------------------------
Handle == OnConnected \/ OnDisconnected \/ OnAnnounce \/ OnDiscovery \/ OnList

Native ==
  \/ \E b \in Ble, n \in Node :
       LinkUp(b, n) \/ Relink(b, n) \/ PeerRenamed(b, n) \/ PeerFloods(b, n)
  \/ \E b \in Ble : LinkDown(b) \/ SilentLoss(b) \/ PeerAnnounces(b)
  \/ AskList
  \/ Tick

Next ==
  \/ Handle
  \/ Native
  \/ OpenScreen
  \/ CloseScreen
  \/ \E n \in Node : ChatAsks(n)

Spec == Init /\ [][Next]_vars

-----------------------------------------------------------------------------
(* Properties *)

\* "Keep both indexes bijective" (BitChatBLEAdapter.ts:192): whatever comes
\* back under another key or another id, the two indexes stay converse.
Bijective ==
  /\ \A b \in Ble : peerMap[b] # None => reverse[peerMap[b]] = b
  /\ \A n \in Node : reverse[n] # None => peerMap[reverse[n]] = n

\* The relay set (CONNECTED in the PeerRegistry) is exactly the set of nodes
\* that sendToPeer can resolve to a BLE key.
ConnectedIffMapped == \A n \in Node : state[n] = "CONNECTED" <=> reverse[n] # None

\* No connection event of b, no ANNOUNCE and no list without b waits for the hook.
Informed(b) ==
  \A i \in DOMAIN events :
    CASE events[i].type = "list"      -> b \in events[i].ids
      [] events[i].type = "discovery" -> TRUE
      [] OTHER                        -> events[i].ble # b

\* A direct route leads to the phone at the other end of a link that is up,
\* and the hook counts that link as connected; only a link lost without an
\* event may linger, until the next native list (useBLEVoiceMode.ts:1064-1072).
RouteIsLive ==
  \A b \in Ble :
    /\ peerMap[b] # None => b \in connected
    /\ peerMap[b] # None /\ Informed(b) /\ b \notin silent => live[b] = peerMap[b]

DirectShown == {d.node : d \in {e \in shown : e.direct}}

\* A subscribed screen never misses a direct route, and what it shows as direct
\* is one, under the right key, unless a handler took the route away without
\* telling the screens (voiceDestinationStore.ts:62-63).
ShownRoutes ==
  screen =>
    /\ {n \in Node : reverse[n] # None} \subseteq DirectShown
    /\ \A d \in shown : d.direct /\ d.node \notin unsaid => d.ble = reverse[d.node] /\ d.ble # None

\* Eviction forgets the stalest: a node heard of within the retention is only
\* missing if the registry is full of nodes heard of no earlier.
FreshestAreKept ==
  \A n \in Node :
    lastHeard[n] # None /\ n \notin Range(discovered) =>
      \/ lastHeard[n] + Retention < clock
      \/ /\ Len(discovered) = MaxEntries
         /\ \A m \in Range(discovered) : lastHeard[n] <= lastHeard[m]

\* The fate of one link does not touch the others: a handler takes a route
\* away only if the event is of its BLE key, if its node announces itself under
\* another key, or if the native list lacks it (V9E Step 6 and 7).
OthersUntouched ==
  [][\A c \in Ble :
       peerMap[c] # None /\ peerMap'[c] = None =>
         LET e == Head(events) IN
         \/ e.type \in {"connected", "disconnected"} /\ e.ble = c
         \/ e.type = "announce" /\ e.ble # c /\ e.node = peerMap[c]
         \/ e.type = "list" /\ c \notin e.ids]_vars
=============================================================================
