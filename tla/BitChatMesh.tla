----------------------------- MODULE BitChatMesh -----------------------------
(***************************************************************************)
(* The BITCHAT mesh of src/src/BITCHAT: controlled flooding of DATA packets *)
(* by the RelayEngine of every phone, with its DedupCache and MeshRouter,   *)
(* and the two applications above it, voice (useBLEVoiceMode) and typed     *)
(* chat (ChatMessageService), which cut a long message into V7 fragments,   *)
(* originate one packet per fragment and reassemble them at the addressee.  *)
(*                                                                         *)
(* Routes are what AnnounceHandshake and PeerDirectory establish: here they *)
(* only come and go.  A packet is named by the message and the fragment it  *)
(* carries, which is what its (sourceNodeId, packetId) pair identifies.     *)
(***************************************************************************)
EXTENDS Naturals, Sequences, FiniteSets, SequencesExt

CONSTANTS
    Nodes,           \* phones running the adapter
    Links,           \* pairs of phones in radio range, both directions
    FirstRoutes,     \* node -> peers it has registered when the model starts
    Messages,        \* messages the users will send
    Sender,          \* message -> the phone that sends it
    Destination,     \* message -> its destinationNodeId, a node or Broadcast
    Kind,            \* message -> "voice" or "chat"
    Fragments,       \* message -> number of packets it is cut into
    Discovered,      \* node -> nodes its MeshDiscoveryRegistry lists
    Broadcast,       \* NODE_ID_BROADCAST
    None,            \* originatedPacketId = null, and the 'unknown' peer key
    DefaultTtl,      \* DEFAULT_TTL
    DedupMaxEntries, \* DEDUP_MAX_ENTRIES
    MaxFaults        \* bound: failed native sends and lost routes together

ASSUME MeshAssumption ==
    /\ Links \subseteq Nodes \X Nodes
    /\ \A l \in Links : l[1] # l[2] /\ <<l[2], l[1]>> \in Links
    /\ FirstRoutes \in [Nodes -> SUBSET Nodes]
    /\ \A n \in Nodes : \A p \in FirstRoutes[n] : <<n, p>> \in Links
    /\ Sender \in [Messages -> Nodes]
    /\ Destination \in [Messages -> Nodes \cup {Broadcast}]
    /\ Kind \in [Messages -> {"voice", "chat"}]
    /\ Fragments \in [Messages -> Nat \ {0}]
    /\ Discovered \in [Nodes -> SUBSET Nodes]
    /\ Broadcast \notin Nodes /\ None \notin Nodes
    /\ DefaultTtl \in Nat \ {0} /\ DedupMaxEntries \in Nat \ {0}
    /\ MaxFaults \in Nat

VARIABLES
    route,      \* route[n]: peers CONNECTED in n's PeerRegistry and mapped
    seen,       \* seen[n]: n's DedupCache, oldest entry first
    lastOwn,    \* lastOwn[n]: originatedPacketId
    air,        \* air[n][p]: frames handed to the link from n to p
    out,        \* out[m]: the send loop of message m at its sender
    partial,    \* partial[n]: fragments held by n's reassemblers, by group key
    delivered,  \* delivered[n]: DeliveredMessageCache entries of mesh voice
    shown,      \* shown[n][m]: times n spoke (voice) or listed (chat) m
    failures,   \* sends that failed so far
    churn,      \* routes lost so far
    evicted     \* history: packets evicted from seen[n]

nodeVars == <<route, churn>>
appVars  == <<partial, delivered, shown>>
vars == <<route, seen, lastOwn, air, out, partial, delivered, shown,
          failures, churn, evicted>>

Whole(m) == {<<m, i>> : i \in 1 .. Fragments[m]}
Packets  == UNION {Whole(m) : m \in Messages}
Frame    == [packet : Packets, ttl : 0 .. DefaultTtl]
MessageOf(packet) == packet[1]
Neighbours(n) == {p \in Nodes : <<n, p>> \in Links}

Init ==
    /\ route = FirstRoutes
    /\ seen = [n \in Nodes |-> <<>>]
    /\ lastOwn = [n \in Nodes |-> None]
    /\ air = [n \in Nodes |-> [p \in Nodes |-> <<>>]]
    /\ out = [m \in Messages |-> [status |-> "NEW", next |-> 1]]
    /\ partial = [n \in Nodes |-> {}]
    /\ delivered = [n \in Nodes |-> {}]
    /\ shown = [n \in Nodes |-> [m \in Messages |-> 0]]
    /\ failures = 0
    /\ churn = 0
    /\ evicted = [n \in Nodes |-> {}]

-----------------------------------------------------------------------------
(* Flooding *)

\* MeshRouter.getRelayPeers: every CONNECTED peer but the incoming one.
RelayPeers(n, incoming) == route[n] \ (incoming \cup {n})

IsDuplicate(n, packet) == packet \in Range(seen[n])

\* Mutation: a node does not mark the packets it originates itself.
CheckAndMark_notOwn(n, packet) ==
    IF IsDuplicate(n, packet) \/ n = Sender[MessageOf(packet)]
    THEN UNCHANGED <<seen, evicted>>
    ELSE /\ seen' = [seen EXCEPT ![n] =
                IF Len(@) = DedupMaxEntries THEN Append(Tail(@), packet) ELSE Append(@, packet)]
         /\ evicted' = [evicted EXCEPT ![n] =
                IF Len(seen[n]) = DedupMaxEntries THEN @ \cup {Head(seen[n])} ELSE @]

\* DedupCache.checkAndMark of a packet: a known key is left where it is, a new
\* one is appended and the oldest entry goes when the cache is over capacity.
CheckAndMark(n, packet) ==
    LET entries == Append(seen[n], packet)
        full    == Len(entries) > DedupMaxEntries
    IN  IF IsDuplicate(n, packet)
        THEN UNCHANGED <<seen, evicted>>
        ELSE /\ seen' = [seen EXCEPT ![n] = IF full THEN Tail(entries) ELSE entries]
             /\ evicted' = [evicted EXCEPT ![n] = IF full THEN @ \cup {Head(entries)} ELSE @]

\* Mutation: the TTL is not decremented.
Forwarded_sameTtl(packet, ttl) == [packet |-> packet, ttl |-> ttl]

\* The copy a node passes on: same identity, one hop less to live.
Forwarded(packet, ttl) == [packet |-> packet, ttl |-> ttl - 1]

\* Promise.allSettled over sendToPeer: every peer is tried whatever became of the
\* others.  Some of the promises may be rejected; a rejected send may still have
\* reached its peer, when only the native completion timed out.
Rejections(peers) ==
    {r \in SUBSET peers : failures + churn + Cardinality(r) <= MaxFaults}
ForwardToEach(channels, n, peers, rejected, frame) ==
    \E lost \in SUBSET rejected :
        /\ air' = [channels EXCEPT ![n] =
               [p \in Nodes |-> IF p \in peers \ lost THEN Append(@[p], frame) ELSE @[p]]]
        /\ failures' = failures + Cardinality(rejected)

-----------------------------------------------------------------------------
(* Delivery to the applications *)

IsAddressedToThisNode(n, packet) == Destination[MessageOf(packet)] \in {n, Broadcast}

\* Mutation: chat, too, is keyed by the neighbour.
GroupKey_neighbour(n, packet, incoming) ==
    IF incoming = {} THEN None ELSE CHOOSE p \in incoming : TRUE

\* The reassembly group of a fragment.  Chat keys it by the packet's source,
\* voice by the BLE peer the packet came through ('unknown' when unmapped).
GroupKey(n, packet, incoming) ==
    IF Kind[MessageOf(packet)] = "chat" THEN Sender[MessageOf(packet)]
    ELSE IF incoming = {} THEN None
    ELSE CHOOSE p \in incoming : TRUE

\* The last guard before a message is spoken or listed: the chat store knows
\* (sender, id); long mesh voice asks the delivered cache of that peer; voice
\* that fits one packet asks nothing.
AlreadyDelivered(n, m, key) ==
    IF Kind[m] = "chat"
    THEN shown[n][m] > 0
    ELSE Fragments[m] > 1 /\ <<key, m>> \in delivered[n]

\* Bound: shown counts "more than once" as two.
MaxShown == 2

\* onLocalDeliver: receiveChatApplicationPayload or processV6BPayload.
OnLocalDeliver(n, packet, key) ==
    LET m     == MessageOf(packet)
        held  == partial[n] \cup {<<key, packet>>}
        group == {<<key, p>> : p \in Whole(m)}
    IN  IF group \subseteq held
        THEN /\ partial' = [partial EXCEPT ![n] = held \ group]
             /\ delivered' = [delivered EXCEPT ![n] =
                    IF Kind[m] = "voice" /\ Fragments[m] > 1 THEN @ \cup {<<key, m>>} ELSE @]
             /\ shown' = [shown EXCEPT ![n][m] =
                    IF AlreadyDelivered(n, m, key) \/ @ = MaxShown THEN @ ELSE @ + 1]
        ELSE /\ partial' = [partial EXCEPT ![n] = held]
             /\ UNCHANGED <<delivered, shown>>

\* The adapter's deliver callback: the echo of the packet originated last is
\* swallowed once.
Deliver(n, packet, key) ==
    IF ~IsAddressedToThisNode(n, packet) THEN UNCHANGED <<lastOwn, appVars>>
    ELSE IF lastOwn[n] = packet
    THEN lastOwn' = [lastOwn EXCEPT ![n] = None] /\ UNCHANGED appVars
    ELSE OnLocalDeliver(n, packet, key) /\ UNCHANGED lastOwn

-----------------------------------------------------------------------------
(* Actions *)

\* BitChatBLEAdapter.receive and RelayEngine.receive of a DATA packet.
Receive(n, from) ==
    LET frame    == Head(air[from][n])
        packet   == frame.packet
        taken    == [air EXCEPT ![from][n] = Tail(@)]
        incoming == {from} \cap route[n]
        peers    == RelayPeers(n, incoming)
    IN  /\ air[from][n] # <<>>
        /\ CheckAndMark(n, packet)
        /\ \/ /\ IsDuplicate(n, packet)
              /\ air' = taken
              /\ UNCHANGED <<lastOwn, appVars, failures>>
           \/ /\ ~IsDuplicate(n, packet)
              /\ Deliver(n, packet, GroupKey(n, packet, incoming))
              /\ \/ /\ frame.ttl = 0
                    /\ air' = taken /\ UNCHANGED failures
                 \/ /\ frame.ttl > 0
                    /\ \E rejected \in Rejections(peers) :
                          ForwardToEach(taken, n, peers, rejected, Forwarded(packet, frame.ttl))
        /\ UNCHANGED <<nodeVars, out>>

\* ChatTransport.canRouteTo.
CanRouteTo(n, destination) ==
    destination \in route[n] \/ (destination \in Discovered[n] /\ route[n] # {})

\* sendChatMessage refuses a message before any packet leaves.
RefuseChat(m) ==
    /\ out[m].status = "NEW"
    /\ Kind[m] = "chat"
    /\ ~CanRouteTo(Sender[m], Destination[m])
    /\ out' = [out EXCEPT ![m].status = "FAILED"]
    /\ UNCHANGED <<route, seen, lastOwn, air, appVars, failures, churn, evicted>>

\* Mutation: only the fragment sent last decides.
AfterOriginate_lastWins(m, accepted) ==
    out' = [out EXCEPT ![m] =
        IF @.next = Fragments[m] THEN [@ EXCEPT !.status = "SENT"]
        ELSE [status |-> "SENDING", next |-> @.next + 1]]

\* The send loop of a message after the packet of its current fragment was
\* offered to its peers: nobody accepting it means FAILED, the last one SENT.
AfterOriginate(m, accepted) ==
    out' = [out EXCEPT ![m] =
        IF accepted = {} THEN [@ EXCEPT !.status = "FAILED"]
        ELSE IF @.next = Fragments[m] THEN [@ EXCEPT !.status = "SENT"]
        ELSE [status |-> "SENDING", next |-> @.next + 1]]

\* RelayEngine.originate: the packet counts as seen and goes to every peer.
RelayOriginate(n, packet, rejected) ==
    /\ CheckAndMark(n, packet)
    /\ ForwardToEach(air, n, RelayPeers(n, {}), rejected, Forwarded(packet, DefaultTtl))

\* BitChatBLEAdapter.originate: it remembers the packet to swallow its echo.
AdapterOriginate(n, packet, rejected) ==
    /\ lastOwn' = [lastOwn EXCEPT ![n] = packet]
    /\ RelayOriginate(n, packet, rejected)

\* One turn of the send loop, with the current fragment.
Originate(m) ==
    LET n     == Sender[m]
        peers == RelayPeers(n, {})
    IN  /\ out[m].status \in {"NEW", "SENDING"}
        /\ out[m].status = "NEW" /\ Kind[m] = "chat" => CanRouteTo(n, Destination[m])
        /\ \E rejected \in Rejections(peers) :
              /\ AdapterOriginate(n, <<m, out[m].next>>, rejected)
              /\ AfterOriginate(m, peers \ rejected)
        /\ UNCHANGED <<nodeVars, appVars>>

\* n's native layer reports p disconnected: unregisterPeer.  What was on the
\* link is lost.
LoseRoute(n, p) ==
    /\ p \in route[n]
    /\ failures + churn < MaxFaults
    /\ churn' = churn + 1
    /\ route' = [route EXCEPT ![n] = @ \ {p}]
    /\ air' = [air EXCEPT ![n][p] = <<>>, ![p][n] = <<>>]
    /\ UNCHANGED <<seen, lastOwn, out, appVars, failures, evicted>>

\* An ANNOUNCE of p registers it again: registerPeer.
GainRoute(n, p) ==
    /\ p \in Neighbours(n) \ route[n]
    /\ route' = [route EXCEPT ![n] = @ \cup {p}]
    /\ UNCHANGED <<seen, lastOwn, air, out, appVars, failures, churn, evicted>>

SomePhoneReceives == \E n, from \in Nodes : Receive(n, from)

Next ==
    \/ SomePhoneReceives
    \/ \E m \in Messages : RefuseChat(m) \/ Originate(m)
    \/ \E n, p \in Nodes : LoseRoute(n, p) \/ GainRoute(n, p)

Spec == Init /\ [][Next]_vars

\* Frames do not stay on the links for ever: the GATT queues move on
\* (GattWriteQueue) and receive never blocks the event loop.  Nothing more is
\* assumed, neither about one link nor about one phone.
FairSpec == Spec /\ WF_vars(SomePhoneReceives)

-----------------------------------------------------------------------------
(* Properties *)

\* A message is spoken or listed at most once per phone, and never at the phone
\* that sent it, however many copies the flood brings: a repeat needs a packet
\* of it to have been evicted from that phone's dedup cache.  Chat is listed
\* once even then.
DeliveredOnce ==
    \A n \in Nodes, m \in Messages :
        LET limit == IF n = Sender[m] THEN 0 ELSE 1
        IN  shown[n][m] > limit =>
                /\ evicted[n] \cap Whole(m) # {}
                /\ Kind[m] = "chat" => n = Sender[m]

\* SENT is honest: while no link was lost, every packet of a SENT message is in
\* the hands of another phone or on its way there.
SentIsSomewhere ==
    \A m \in Messages : out[m].status = "SENT" /\ churn = 0 =>
        \A packet \in Whole(m) :
            \E n \in Nodes \ {Sender[m]} :
                \/ packet \in Range(seen[n]) \cup evicted[n]
                \/ \E from \in Nodes : \E k \in DOMAIN air[from][n] :
                        air[from][n][k].packet = packet

\* Every flood dies out, even when the dedup cache is too small to stop a
\* packet from circling: the TTL ends it.
FloodDiesOut == <>[](\A n, p \in Nodes : air[n][p] = <<>>)

Addressees(m) ==
    (IF Destination[m] = Broadcast THEN Nodes ELSE {Destination[m]}) \ {Sender[m]}
Undisturbed == failures = 0 /\ churn = 0
ReachesIfSent(m) ==
    Undisturbed /\ out[m].status = "SENT" => \A n \in Addressees(m) : shown[n][m] > 0

\* On a network nothing disturbs, a message reported SENT is shown by every
\* phone it is addressed to, through a relay where its author has no route:
\* typed chat of any length, and voice that fits one packet.
SentReachesAddressees ==
    <>[](\A m \in Messages : Kind[m] = "chat" \/ Fragments[m] = 1 => ReachesIfSent(m))

\* The same of voice that needs several packets: "The receiving side
\* reassembles in processV6BPayload via the V7 branch."
LongVoiceIsReassembled ==
    <>[](\A m \in Messages : Kind[m] = "voice" /\ Fragments[m] > 1 => ReachesIfSent(m))
=============================================================================
