-------------------------- MODULE BitChatMesh_proofs --------------------------
(***************************************************************************)
(* No message is shown twice and SENT is honest, on any network of phones, *)
(* for any messages, any capacity of the dedup cache and any TTL.          *)
(***************************************************************************)
EXTENDS BitChatMesh, TLAPS

\* What n has had in its dedup cache.
Known(n) == Range(seen[n]) \cup evicted[n]

\* The packets on the channel s.
Carried(s) == {s[k].packet : k \in DOMAIN s}

\* What names a reassembly group.
Keys == Nodes \cup {None}

Frames == [packet : Packets, ttl : Nat]

MeshTypeOK ==
    /\ seen \in [Nodes -> Seq(Packets)]
    /\ evicted \in [Nodes -> SUBSET Packets]
    /\ air \in [Nodes -> [Nodes -> Seq(Frames)]]
    /\ out \in [Messages -> [status : {"NEW", "SENDING", "SENT", "FAILED"}, next : Nat \ {0}]]
    /\ \A m \in Messages : out[m].next \in 1 .. Fragments[m]
    /\ partial \in [Nodes -> SUBSET (Keys \X Packets)]
    /\ shown \in [Nodes -> [Messages -> Nat]]
    /\ route \in [Nodes -> SUBSET Nodes]
    /\ churn \in Nat

\* A packet is on a link only when its sender has marked it.
AirIsMarked ==
    \A f, t \in Nodes : \A packet \in Carried(air[f][t]) : packet \in Known(Sender[MessageOf(packet)])

\* The fragments held, and all those of a message shown, were marked.
HeldIsMarked == \A n \in Nodes : \A h \in partial[n] : h[2] \in Known(n)
ShownIsMarked == \A n \in Nodes, m \in Messages : shown[n][m] > 0 => Whole(m) \subseteq Known(n)

ChatIsListedOnce ==
    \A n \in Nodes, m \in Messages : Kind[m] = "chat" => shown[n][m] <= 1

\* The packet is in the hands of a phone other than its sender, or on its way.
Somewhere(packet) ==
    \E n \in Nodes \ {Sender[MessageOf(packet)]} :
        packet \in Known(n) \/ \E f \in Nodes : packet \in Carried(air[f][n])

\* The packets of m that some peer has accepted.
Accepted(m) ==
    {<<m, i>> : i \in 1 .. (IF out[m].status = "SENT" THEN Fragments[m] ELSE out[m].next - 1)}

AcceptedIsSomewhere ==
    churn = 0 => \A m \in Messages : \A packet \in Accepted(m) : Somewhere(packet)

MeshInv ==
    /\ MeshTypeOK
    /\ AirIsMarked /\ HeldIsMarked /\ ShownIsMarked /\ ChatIsListedOnce
    /\ DeliveredOnce
    /\ AcceptedIsSomewhere

-----------------------------------------------------------------------------
(* Sequences and packets.                                                  *)

LEMMA RangeAppend ==
    ASSUME NEW S, NEW s \in Seq(S), NEW e \in S
    PROVE  Append(s, e) \in Seq(S) /\ Range(Append(s, e)) = Range(s) \cup {e}
<1>1. /\ Append(s, e) \in Seq(S)
      /\ DOMAIN s = 1 .. Len(s) /\ Len(s) \in Nat /\ DOMAIN Append(s, e) = 1 .. Len(s) + 1
      /\ \A i \in 1 .. Len(s) : Append(s, e)[i] = s[i]
      /\ Append(s, e)[Len(s) + 1] = e
  OBVIOUS
<1>2. ASSUME NEW x \in Range(Append(s, e)) PROVE x \in Range(s) \cup {e}
  BY <1>1, <1>2 DEF Range
<1>3. ASSUME NEW x \in Range(s) PROVE x \in Range(Append(s, e))
  <2>1. PICK i \in 1 .. Len(s) : x = s[i]
    BY <1>1 DEF Range
  <2> QED BY <1>1, <2>1 DEF Range
<1>4. e \in Range(Append(s, e))
  BY <1>1 DEF Range
<1> QED BY <1>1, <1>2, <1>3, <1>4

LEMMA RangeTail ==
    ASSUME NEW S, NEW s \in Seq(S), s # <<>>
    PROVE  /\ Tail(s) \in Seq(S) /\ Head(s) \in S
           /\ Range(s) = Range(Tail(s)) \cup {Head(s)}
<1>1. /\ Tail(s) \in Seq(S) /\ Head(s) = s[1] /\ Head(s) \in S
      /\ Len(s) \in Nat /\ Len(s) > 0
      /\ DOMAIN s = 1 .. Len(s) /\ DOMAIN Tail(s) = 1 .. Len(s) - 1
      /\ \A i \in 1 .. Len(s) - 1 : Tail(s)[i] = s[i + 1]
  OBVIOUS
<1>2. ASSUME NEW x \in Range(s) PROVE x \in Range(Tail(s)) \cup {Head(s)}
  <2>1. PICK i \in 1 .. Len(s) : x = s[i]
    BY <1>1 DEF Range
  <2>2. CASE i = 1
    BY <1>1, <2>1, <2>2
  <2>3. CASE i # 1
    <3>1. i - 1 \in 1 .. Len(s) - 1 /\ Tail(s)[i - 1] = s[i]
      BY <1>1, <2>3
    <3> QED BY <1>1, <2>1, <3>1 DEF Range
  <2> QED BY <2>2, <2>3
<1>3. ASSUME NEW x \in Range(Tail(s)) PROVE x \in Range(s)
  <2>1. PICK i \in 1 .. Len(s) - 1 : x = s[i + 1]
    BY <1>1 DEF Range
  <2> QED BY <1>1, <2>1 DEF Range
<1>4. Head(s) \in Range(s)
  BY <1>1 DEF Range
<1> QED BY <1>1, <1>2, <1>3, <1>4

LEMMA CarriedRange == \A s : Carried(s) = {f.packet : f \in Range(s)}
  BY DEF Carried, Range

LEMMA PacketParts ==
    /\ \A m \in Messages : Whole(m) \subseteq Packets
    /\ \A packet \in Packets : MessageOf(packet) \in Messages /\ packet \in Whole(MessageOf(packet))
    /\ \A m \in Messages : \A packet \in Whole(m) : MessageOf(packet) = m
  BY DEF Packets, Whole, MessageOf

\* Marking a packet makes it known to its node, and nothing is forgotten.
LEMMA Marks ==
    ASSUME MeshTypeOK, NEW n \in Nodes, NEW packet \in Packets, CheckAndMark(n, packet)
    PROVE  /\ seen' \in [Nodes -> Seq(Packets)]
           /\ evicted' \in [Nodes -> SUBSET Packets]
           /\ Known(n)' = Known(n) \cup {packet}
           /\ \A q \in Nodes : q # n => Known(q)' = Known(q)
           /\ \A q \in Nodes : evicted[q] \subseteq evicted'[q]
<1> DEFINE entries == Append(seen[n], packet)
           full == Len(entries) > DedupMaxEntries
<1>1. seen[n] \in Seq(Packets) /\ evicted[n] \subseteq Packets
      /\ seen \in [Nodes -> Seq(Packets)] /\ evicted \in [Nodes -> SUBSET Packets]
  BY DEF MeshTypeOK
<1>2. CASE IsDuplicate(n, packet)
  BY <1>1, <1>2 DEF CheckAndMark, IsDuplicate, Known
<1>3. CASE ~IsDuplicate(n, packet)
  <2>1. /\ seen' = [seen EXCEPT ![n] = IF full THEN Tail(entries) ELSE entries]
        /\ evicted' = [evicted EXCEPT ![n] = IF full THEN evicted[n] \cup {Head(entries)} ELSE evicted[n]]
    BY <1>1, <1>3 DEF CheckAndMark
  <2>2. entries \in Seq(Packets) /\ Range(entries) = Range(seen[n]) \cup {packet}
    BY <1>1, RangeAppend
  <2>3. entries # <<>>
    BY <1>1
  <2>4. /\ Tail(entries) \in Seq(Packets) /\ Head(entries) \in Packets
        /\ Range(entries) = Range(Tail(entries)) \cup {Head(entries)}
    BY <2>2, <2>3, RangeTail
  <2> HIDE DEF entries, full
  <2>5. seen' \in [Nodes -> Seq(Packets)] /\ evicted' \in [Nodes -> SUBSET Packets]
    BY <1>1, <2>1, <2>2, <2>4
  <2>6. \A q \in Nodes : q # n => seen'[q] = seen[q] /\ evicted'[q] = evicted[q]
    BY <1>1, <2>1
  <2>7. /\ seen'[n] = IF full THEN Tail(entries) ELSE entries
        /\ evicted'[n] = IF full THEN evicted[n] \cup {Head(entries)} ELSE evicted[n]
    BY <1>1, <2>1
  <2>8. Range(seen'[n]) \cup evicted'[n] = (Range(seen[n]) \cup evicted[n]) \cup {packet}
    BY <2>2, <2>4, <2>7
  <2> QED BY <2>5, <2>6, <2>7, <2>8 DEF Known
<1> QED BY <1>2, <1>3

-----------------------------------------------------------------------------
(* The links.                                                              *)

Channels == [Nodes -> [Nodes -> Seq(Frames)]]

\* Nothing but a packet from n has been added to the channels.
Spread(channels, n, packet) ==
    /\ air' \in Channels
    /\ \A f, t \in Nodes :
         /\ Carried(channels[f][t]) \subseteq Carried(air'[f][t])
         /\ Carried(air'[f][t]) \subseteq
              Carried(channels[f][t]) \cup (IF f = n THEN {packet} ELSE {})

LEMMA Forwards ==
    ASSUME NEW channels \in Channels, NEW n \in Nodes, NEW peers \in SUBSET Nodes, NEW rejected,
           NEW frame \in Frames,
           ForwardToEach(channels, n, peers, rejected, frame)
    PROVE  /\ Spread(channels, n, frame.packet)
           /\ \A p \in peers \ rejected : frame.packet \in Carried(air'[n][p])
<1>1. PICK lost \in SUBSET rejected :
        air' = [channels EXCEPT ![n] =
                  [p \in Nodes |-> IF p \in peers \ lost THEN Append(@[p], frame) ELSE @[p]]]
  BY DEF ForwardToEach
<1>2. \A f, t \in Nodes :
        air'[f][t] = IF f = n /\ t \in peers \ lost
                     THEN Append(channels[f][t], frame) ELSE channels[f][t]
  BY <1>1 DEF Channels
<1>3. ASSUME NEW f \in Nodes, NEW t \in Nodes
      PROVE  /\ channels[f][t] \in Seq(Frames)
             /\ Append(channels[f][t], frame) \in Seq(Frames)
             /\ Carried(Append(channels[f][t], frame)) = Carried(channels[f][t]) \cup {frame.packet}
  <2>1. channels[f][t] \in Seq(Frames)
    BY DEF Channels
  <2>2. /\ Append(channels[f][t], frame) \in Seq(Frames)
        /\ Range(Append(channels[f][t], frame)) = Range(channels[f][t]) \cup {frame}
    BY <2>1, RangeAppend
  <2> QED BY <2>1, <2>2, CarriedRange
<1>4. air' \in Channels
  <2>1. air' \in [Nodes -> [Nodes -> Seq(Frames)]]
    <3>1. [p \in Nodes |-> IF p \in peers \ lost THEN Append(channels[n][p], frame) ELSE channels[n][p]]
            \in [Nodes -> Seq(Frames)]
      BY <1>3
    <3>2. channels \in [Nodes -> [Nodes -> Seq(Frames)]]
      BY DEF Channels
    <3> QED BY <1>1, <3>1, <3>2
  <2> QED BY <2>1 DEF Channels
<1>5. ASSUME NEW f \in Nodes, NEW t \in Nodes
      PROVE  /\ Carried(channels[f][t]) \subseteq Carried(air'[f][t])
             /\ Carried(air'[f][t]) \subseteq
                  Carried(channels[f][t]) \cup (IF f = n THEN {frame.packet} ELSE {})
  <2>1. CASE f = n /\ t \in peers \ lost
    <3>1. Carried(air'[f][t]) = Carried(channels[f][t]) \cup {frame.packet}
      <4>1. air'[f][t] = Append(channels[f][t], frame)
        BY <1>2, <2>1
      <4>2. Carried(Append(channels[f][t], frame)) = Carried(channels[f][t]) \cup {frame.packet}
        BY <1>3
      <4> QED BY <4>1, <4>2
    <3>2. (IF f = n THEN {frame.packet} ELSE {}) = {frame.packet}
      BY <2>1
    <3> QED BY <3>1, <3>2
  <2>2. CASE ~(f = n /\ t \in peers \ lost)
    <3>1. air'[f][t] = channels[f][t]
      BY <1>2, <2>2
    <3> QED BY <3>1
  <2> QED BY <2>1, <2>2
<1>6. ASSUME NEW p \in peers \ rejected PROVE frame.packet \in Carried(air'[n][p])
  <2>1. p \in Nodes /\ p \in peers \ lost
    BY <1>6
  <2> QED BY <1>2, <1>3, <2>1
<1> QED BY <1>4, <1>5, <1>6 DEF Spread

Taken(from, n) == [air EXCEPT ![from][n] = Tail(@)]

LEMMA Takes ==
    ASSUME MeshTypeOK, NEW n \in Nodes, NEW from \in Nodes, air[from][n] # <<>>
    PROVE  /\ Taken(from, n) \in Channels
           /\ Head(air[from][n]) \in Frames
           /\ Head(air[from][n]).packet \in Carried(air[from][n])
           /\ \A f, t \in Nodes :
                /\ Carried(Taken(from, n)[f][t]) \subseteq Carried(air[f][t])
                /\ Carried(air[f][t]) \subseteq Carried(Taken(from, n)[f][t])
                     \cup (IF t = n THEN {Head(air[from][n]).packet} ELSE {})
<1>1. air \in [Nodes -> [Nodes -> Seq(Frames)]]
  BY DEF MeshTypeOK
<1>2. air[from][n] \in Seq(Frames)
  BY <1>1
<1>3. /\ Tail(air[from][n]) \in Seq(Frames)
      /\ Head(air[from][n]) \in Frames
      /\ Range(air[from][n]) = Range(Tail(air[from][n])) \cup {Head(air[from][n])}
  BY <1>2, RangeTail
<1>4. Carried(air[from][n]) = Carried(Tail(air[from][n])) \cup {Head(air[from][n]).packet}
  BY <1>3, CarriedRange
<1>5. Taken(from, n) \in Channels
  BY <1>1, <1>3 DEF Taken, Channels
<1>6. \A f, t \in Nodes :
        Taken(from, n)[f][t] = IF f = from /\ t = n THEN Tail(air[from][n]) ELSE air[f][t]
  BY <1>1 DEF Taken
<1> QED BY <1>3, <1>4, <1>5, <1>6

\* What a reception of packet does to the links and to what the phones know.
Received(n, from, packet) ==
    /\ packet \in Carried(air[from][n])
    /\ seen' \in [Nodes -> Seq(Packets)]
    /\ evicted' \in [Nodes -> SUBSET Packets]
    /\ Known(n)' = Known(n) \cup {packet}
    /\ \A q \in Nodes : q # n => Known(q)' = Known(q)
    /\ \A q \in Nodes : evicted[q] \subseteq evicted'[q]
    /\ air' \in Channels
    /\ \A f, t \in Nodes :
         /\ Carried(air'[f][t]) \subseteq Carried(air[f][t]) \cup {packet}
         /\ Carried(air[f][t]) \subseteq Carried(air'[f][t]) \cup (IF t = n THEN {packet} ELSE {})
    /\ \/ UNCHANGED appVars
       \/ /\ packet \notin Range(seen[n])
          /\ \E key \in Keys : OnLocalDeliver(n, packet, key)

LEMMA ReceiveEffect ==
    ASSUME MeshInv, NEW n \in Nodes, NEW from \in Nodes, Receive(n, from)
    PROVE  \E packet \in Packets : Received(n, from, packet)
<1> DEFINE frame == Head(air[from][n])
           packet == frame.packet
           incoming == {from} \cap route[n]
<1> USE DEF MeshInv
<1>1. /\ Taken(from, n) \in Channels
      /\ frame \in Frames
      /\ packet \in Carried(air[from][n])
      /\ \A f, t \in Nodes :
           /\ Carried(Taken(from, n)[f][t]) \subseteq Carried(air[f][t])
           /\ Carried(air[f][t]) \subseteq Carried(Taken(from, n)[f][t])
                \cup (IF t = n THEN {packet} ELSE {})
  <2>1. air[from][n] # <<>>
    BY DEF Receive
  <2> QED BY <2>1, Takes
<1>2. packet \in Packets
  BY <1>1 DEF Frames
<1>3. CheckAndMark(n, packet)
  BY DEF Receive
<1>4. /\ seen' \in [Nodes -> Seq(Packets)]
      /\ evicted' \in [Nodes -> SUBSET Packets]
      /\ Known(n)' = Known(n) \cup {packet}
      /\ \A q \in Nodes : q # n => Known(q)' = Known(q)
      /\ \A q \in Nodes : evicted[q] \subseteq evicted'[q]
  BY <1>2, <1>3, Marks
<1>5. \/ air' = Taken(from, n)
      \/ \E rejected : /\ frame.ttl > 0
                       /\ ForwardToEach(Taken(from, n), n, RelayPeers(n, incoming), rejected,
                                        Forwarded(packet, frame.ttl))
  BY DEF Receive, Taken
<1>6. /\ air' \in Channels
      /\ \A f, t \in Nodes :
           /\ Carried(air'[f][t]) \subseteq Carried(air[f][t]) \cup {packet}
           /\ Carried(air[f][t]) \subseteq Carried(air'[f][t]) \cup (IF t = n THEN {packet} ELSE {})
  <2>1. CASE air' = Taken(from, n)
    BY <1>1, <2>1
  <2>2. ASSUME NEW rejected, frame.ttl > 0,
               ForwardToEach(Taken(from, n), n, RelayPeers(n, incoming), rejected,
                             Forwarded(packet, frame.ttl))
        PROVE  /\ air' \in Channels
               /\ \A f, t \in Nodes :
                    /\ Carried(air'[f][t]) \subseteq Carried(air[f][t]) \cup {packet}
                    /\ Carried(air[f][t]) \subseteq
                         Carried(air'[f][t]) \cup (IF t = n THEN {packet} ELSE {})
    <3>1. Forwarded(packet, frame.ttl) \in Frames
          /\ Forwarded(packet, frame.ttl).packet = packet
      <4>1. frame.ttl \in Nat /\ frame.ttl - 1 \in Nat
        BY <1>1, <2>2 DEF Frames
      <4> QED BY <1>2, <4>1 DEF Forwarded, Frames
    <3>2. RelayPeers(n, incoming) \in SUBSET Nodes
      BY DEF RelayPeers, MeshTypeOK
    <3>3. /\ air' \in Channels
          /\ \A f, t \in Nodes :
               /\ Carried(Taken(from, n)[f][t]) \subseteq Carried(air'[f][t])
               /\ Carried(air'[f][t]) \subseteq Carried(Taken(from, n)[f][t])
                    \cup (IF f = n THEN {packet} ELSE {})
      <4> DEFINE sent == Forwarded(packet, frame.ttl)
      <4>1. /\ sent \in Frames /\ sent.packet = packet
            /\ ForwardToEach(Taken(from, n), n, RelayPeers(n, incoming), rejected, sent)
        BY <2>2, <3>1
      <4> HIDE DEF sent
      <4>2. Spread(Taken(from, n), n, sent.packet)
        BY <1>1, <3>2, <4>1, Forwards
      <4> QED BY <4>1, <4>2 DEF Spread
    <3> HIDE DEF packet
    <3> QED BY <1>1, <3>3
  <2> QED BY <1>5, <2>1, <2>2
<1>7. \/ UNCHANGED appVars
      \/ /\ packet \notin Range(seen[n])
         /\ \E key \in Keys : OnLocalDeliver(n, packet, key)
  <2>1. GroupKey(n, packet, incoming) \in Keys
    <3>1. MessageOf(packet) \in Messages /\ incoming \subseteq Nodes
      BY <1>2, PacketParts
    <3>2. Sender[MessageOf(packet)] \in Nodes
      BY <3>1, MeshAssumption DEF MeshAssumption
    <3> HIDE DEF incoming, packet
    <3> QED BY <3>1, <3>2 DEF GroupKey, Keys
  <2> QED BY <2>1 DEF Receive, Deliver, IsDuplicate
<1> HIDE DEF packet
<1> QED BY <1>1, <1>2, <1>4, <1>6, <1>7 DEF Received

\* Every packet on a link is known to the phone that sends its message.
LEMMA AirPackets ==
    ASSUME MeshInv
    PROVE  \A f, t \in Nodes : \A x \in Carried(air[f][t]) :
             x \in Packets /\ x \in Known(Sender[MessageOf(x)]) /\ Sender[MessageOf(x)] \in Nodes
<1> SUFFICES ASSUME NEW f \in Nodes, NEW t \in Nodes, NEW x \in Carried(air[f][t])
             PROVE  x \in Packets /\ x \in Known(Sender[MessageOf(x)]) /\ Sender[MessageOf(x)] \in Nodes
  OBVIOUS
<1>1. air[f][t] \in Seq(Frames)
  BY DEF MeshInv, MeshTypeOK
<1>2. \A k \in DOMAIN air[f][t] : air[f][t][k] \in Frames
  BY <1>1
<1>3. x \in Packets
  BY <1>2 DEF Carried, Frames
<1> QED BY <1>3, PacketParts, MeshAssumption DEF MeshInv, AirIsMarked, MeshAssumption

\* What a turn of the send loop of m does, when the peers accepted take packet.
Originated(m, packet, accepted) ==
    /\ packet \in Packets /\ MessageOf(packet) = m
    /\ seen' \in [Nodes -> Seq(Packets)]
    /\ evicted' \in [Nodes -> SUBSET Packets]
    /\ Known(Sender[m])' = Known(Sender[m]) \cup {packet}
    /\ \A q \in Nodes : q # Sender[m] => Known(q)' = Known(q)
    /\ \A q \in Nodes : evicted[q] \subseteq evicted'[q]
    /\ Spread(air, Sender[m], packet)
    /\ \A p \in accepted : packet \in Carried(air'[Sender[m]][p])
    /\ AfterOriginate(m, accepted)

LEMMA OriginateEffect ==
    ASSUME MeshInv, NEW m \in Messages, Originate(m)
    PROVE  \E accepted \in SUBSET (Nodes \ {Sender[m]}) :
             Originated(m, <<m, out[m].next>>, accepted)
<1> DEFINE n == Sender[m]
           packet == <<m, out[m].next>>
           peers == RelayPeers(n, {})
<1> USE DEF MeshInv
<1>1. n \in Nodes /\ DefaultTtl \in Nat /\ DefaultTtl - 1 \in Nat
  BY MeshAssumption DEF MeshAssumption
<1>2. packet \in Whole(m)
  BY DEF MeshTypeOK, Whole
<1>3. packet \in Packets /\ MessageOf(packet) = m
  BY <1>2, PacketParts
<1>4. peers \in SUBSET Nodes /\ n \notin peers
  BY <1>1 DEF RelayPeers, MeshTypeOK
<1>5. air \in Channels
  BY DEF MeshTypeOK, Channels
<1> HIDE DEF packet, peers
<1>6. Forwarded(packet, DefaultTtl) \in Frames /\ Forwarded(packet, DefaultTtl).packet = packet
  BY <1>1, <1>3 DEF Forwarded, Frames
<1>7. CheckAndMark(n, packet)
  BY DEF Originate, AdapterOriginate, RelayOriginate, packet
<1>8. PICK rejected : /\ ForwardToEach(air, n, peers, rejected, Forwarded(packet, DefaultTtl))
                      /\ AfterOriginate(m, peers \ rejected)
  BY DEF Originate, AdapterOriginate, RelayOriginate, packet, peers
<1>9. /\ Spread(air, n, packet)
      /\ \A p \in peers \ rejected : packet \in Carried(air'[n][p])
  <2> DEFINE sent == Forwarded(packet, DefaultTtl)
  <2>1. sent \in Frames /\ sent.packet = packet /\ ForwardToEach(air, n, peers, rejected, sent)
    BY <1>6, <1>8
  <2> HIDE DEF sent
  <2>2. /\ Spread(air, n, sent.packet)
        /\ \A p \in peers \ rejected : sent.packet \in Carried(air'[n][p])
    BY <1>1, <1>4, <1>5, <2>1, Forwards
  <2> QED BY <2>1, <2>2
<1>10. /\ seen' \in [Nodes -> Seq(Packets)]
       /\ evicted' \in [Nodes -> SUBSET Packets]
       /\ Known(n)' = Known(n) \cup {packet}
       /\ \A q \in Nodes : q # n => Known(q)' = Known(q)
       /\ \A q \in Nodes : evicted[q] \subseteq evicted'[q]
  BY <1>1, <1>3, <1>7, Marks
<1>11. peers \ rejected \in SUBSET (Nodes \ {n})
  BY <1>4
<1>12. Originated(m, packet, peers \ rejected)
  BY <1>3, <1>8, <1>9, <1>10 DEF Originated
<1> QED BY <1>11, <1>12 DEF packet

\* What handing a packet to an application changes.
LEMMA LocalDeliverEffect ==
    ASSUME MeshInv, NEW n \in Nodes, NEW packet \in Packets, NEW key \in Keys,
           OnLocalDeliver(n, packet, key)
    PROVE  /\ partial' \in [Nodes -> SUBSET (Keys \X Packets)]
           /\ partial'[n] \subseteq partial[n] \cup {<<key, packet>>}
           /\ shown' \in [Nodes -> [Messages -> Nat]]
           /\ \A q \in Nodes : q # n => partial'[q] = partial[q] /\ shown'[q] = shown[q]
           /\ \A m \in Messages :
                \/ shown'[n][m] = shown[n][m]
                \/ /\ m = MessageOf(packet)
                   /\ ~AlreadyDelivered(n, m, key)
                   /\ shown'[n][m] = shown[n][m] + 1
                   /\ \A p \in Whole(m) : p = packet \/ <<key, p>> \in partial[n]
<1> DEFINE m == MessageOf(packet)
           held == partial[n] \cup {<<key, packet>>}
           group == {<<key, p>> : p \in Whole(m)}
<1> USE DEF MeshInv
<1>1. /\ partial \in [Nodes -> SUBSET (Keys \X Packets)]
      /\ shown \in [Nodes -> [Messages -> Nat]]
      /\ m \in Messages
  BY PacketParts DEF MeshTypeOK
<1>2. held \in SUBSET (Keys \X Packets) /\ held \ group \in SUBSET (Keys \X Packets)
  BY <1>1
<1>3. CASE group \subseteq held
  <2>1. partial' = [partial EXCEPT ![n] = held \ group]
    BY <1>3 DEF OnLocalDeliver
  <2>2. shown' = [shown EXCEPT ![n][m] =
                    IF AlreadyDelivered(n, m, key) \/ @ = MaxShown THEN @ ELSE @ + 1]
    BY <1>3 DEF OnLocalDeliver
  <2>3. \A p \in Whole(m) : p = packet \/ <<key, p>> \in partial[n]
    BY <1>3
  <2>4. /\ partial' \in [Nodes -> SUBSET (Keys \X Packets)]
        /\ partial'[n] \subseteq partial[n] \cup {<<key, packet>>}
        /\ \A q \in Nodes : q # n => partial'[q] = partial[q]
    BY <1>1, <1>2, <2>1
  <2> HIDE DEF m, held, group
  <2>5. /\ shown' \in [Nodes -> [Messages -> Nat]]
        /\ \A q \in Nodes : q # n => shown'[q] = shown[q]
        /\ \A k \in Messages : k # m => shown'[n][k] = shown[n][k]
    BY <1>1, <2>2
  <2>6. shown'[n][m] = shown[n][m]
        \/ (~AlreadyDelivered(n, m, key) /\ shown'[n][m] = shown[n][m] + 1)
    BY <1>1, <2>2
  <2> QED BY <2>3, <2>4, <2>5, <2>6 DEF m
<1>4. CASE ~(group \subseteq held)
  <2>1. partial' = [partial EXCEPT ![n] = held] /\ shown' = shown
    BY <1>4 DEF OnLocalDeliver
  <2> QED BY <1>1, <1>2, <2>1
<1> QED BY <1>3, <1>4

-----------------------------------------------------------------------------
(* The invariants step by step.                                            *)

\* A refused message and a change of routes touch neither caches nor
\* applications.
Aside ==
    \/ \E m \in Messages : RefuseChat(m)
    \/ \E n, p \in Nodes : LoseRoute(n, p) \/ GainRoute(n, p)
    \/ UNCHANGED vars

LEMMA AsideEffect ==
    ASSUME MeshInv, Aside
    PROVE  /\ UNCHANGED <<seen, evicted, partial, shown>>
           /\ \A q \in Nodes : Known(q)' = Known(q)
           /\ air' \in Channels
           /\ \A f, t \in Nodes : Carried(air'[f][t]) \subseteq Carried(air[f][t])
           /\ churn' \in Nat
           /\ churn' = 0 => churn = 0 /\ air' = air
           /\ route' \in [Nodes -> SUBSET Nodes]
<1> USE DEF MeshInv
<1>1. air \in Channels /\ churn \in Nat /\ route \in [Nodes -> SUBSET Nodes]
  BY DEF MeshTypeOK, Channels
<1>2. UNCHANGED <<seen, evicted, partial, shown>>
  BY DEF Aside, RefuseChat, LoseRoute, GainRoute, appVars, vars
<1>3. \A q \in Nodes : Known(q)' = Known(q)
  BY <1>2 DEF Known
<1>4. route' \in [Nodes -> SUBSET Nodes]
  <2>1. route' = route \/ \E n \in Nodes : \E r \in SUBSET Nodes : route' = [route EXCEPT ![n] = r]
    <3>1. ASSUME NEW n \in Nodes, NEW p \in Nodes, LoseRoute(n, p) \/ GainRoute(n, p)
          PROVE  \E r \in SUBSET Nodes : route' = [route EXCEPT ![n] = r]
      <4>1. \/ route' = [route EXCEPT ![n] = route[n] \ {p}]
            \/ route' = [route EXCEPT ![n] = route[n] \cup {p}]
        BY <1>1, <3>1 DEF LoseRoute, GainRoute
      <4>2. route[n] \ {p} \in SUBSET Nodes /\ route[n] \cup {p} \in SUBSET Nodes
        BY <1>1
      <4> QED BY <4>1, <4>2
    <3>2. CASE UNCHANGED route
      BY <3>2
    <3> QED BY <3>1, <3>2 DEF Aside, RefuseChat, vars
  <2> QED BY <1>1, <2>1
<1>5. ASSUME NEW n \in Nodes, NEW p \in Nodes, LoseRoute(n, p)
      PROVE  /\ air' \in Channels
             /\ \A f, t \in Nodes : Carried(air'[f][t]) \subseteq Carried(air[f][t])
             /\ churn' \in Nat /\ churn' # 0
  <2> DEFINE half == [air EXCEPT ![n][p] = <<>>]
  <2>1. churn' = churn + 1 /\ air' = [half EXCEPT ![p][n] = <<>>]
    BY <1>5 DEF LoseRoute
  <2>2. /\ half \in Channels
        /\ \A f, t \in Nodes : half[f][t] = air[f][t] \/ half[f][t] = <<>>
    BY <1>1 DEF Channels
  <2> HIDE DEF half
  <2>3. /\ air' \in Channels
        /\ \A f, t \in Nodes : air'[f][t] = half[f][t] \/ air'[f][t] = <<>>
    BY <2>1, <2>2 DEF Channels
  <2>4. Carried(<<>>) = {}
    BY DEF Carried
  <2>5. ASSUME NEW f \in Nodes, NEW t \in Nodes
        PROVE  Carried(air'[f][t]) \subseteq Carried(air[f][t])
    <3>1. air'[f][t] = air[f][t] \/ air'[f][t] = <<>>
      BY <2>2, <2>3
    <3> QED BY <2>4, <3>1
  <2>6. churn' \in Nat /\ churn' # 0
    BY <1>1, <2>1
  <2> QED BY <2>3, <2>5, <2>6
<1>6. UNCHANGED <<air, churn>> \/ \E n, p \in Nodes : LoseRoute(n, p)
  BY DEF Aside, RefuseChat, GainRoute, vars
<1>7. CASE UNCHANGED <<air, churn>>
  BY <1>1, <1>2, <1>3, <1>4, <1>7
<1>8. CASE \E n, p \in Nodes : LoseRoute(n, p)
  BY <1>2, <1>3, <1>4, <1>5, <1>8
<1> QED BY <1>6, <1>7, <1>8

LEMMA Steps ==
    ASSUME [Next]_vars
    PROVE  \/ \E n, from \in Nodes : Receive(n, from)
           \/ \E m \in Messages : Originate(m)
           \/ Aside
  BY DEF Next, SomePhoneReceives, Aside

LEMMA TypeStep ==
    ASSUME MeshInv, [Next]_vars
    PROVE  MeshTypeOK'
<1> USE DEF MeshInv
<1>1. ASSUME NEW n \in Nodes, NEW from \in Nodes, Receive(n, from)
      PROVE  MeshTypeOK'
  <2>1. PICK packet \in Packets :
          /\ seen' \in [Nodes -> Seq(Packets)] /\ evicted' \in [Nodes -> SUBSET Packets]
          /\ air' \in Channels
          /\ UNCHANGED appVars \/ \E key \in Keys : OnLocalDeliver(n, packet, key)
    BY <1>1, ReceiveEffect DEF Received
  <2>2. UNCHANGED <<out, route, churn>>
    BY <1>1 DEF Receive, nodeVars
  <2>3. shown' \in [Nodes -> [Messages -> Nat]] /\ partial' \in [Nodes -> SUBSET (Keys \X Packets)]
    <3>1. CASE UNCHANGED appVars
      BY <3>1 DEF appVars, MeshTypeOK
    <3>2. CASE \E key \in Keys : OnLocalDeliver(n, packet, key)
      BY <3>2, LocalDeliverEffect
    <3> QED BY <2>1, <3>1, <3>2
  <2> QED BY <2>1, <2>2, <2>3 DEF MeshTypeOK, Channels
<1>2. ASSUME NEW m \in Messages, Originate(m)
      PROVE  MeshTypeOK'
  <2>1. PICK accepted : AfterOriginate(m, accepted)
    BY <1>2, OriginateEffect DEF Originated
  <2>2. /\ seen' \in [Nodes -> Seq(Packets)] /\ evicted' \in [Nodes -> SUBSET Packets]
        /\ air' \in Channels
    BY <1>2, OriginateEffect DEF Originated, Spread
  <2>3. UNCHANGED <<shown, partial, route, churn>>
    BY <1>2 DEF Originate, nodeVars, appVars
  <2>4. /\ out' \in [Messages -> [status : {"NEW", "SENDING", "SENT", "FAILED"}, next : Nat \ {0}]]
        /\ \A k \in Messages : out'[k].next \in 1 .. Fragments[k]
    <3>1. /\ out \in [Messages -> [status : {"NEW", "SENDING", "SENT", "FAILED"}, next : Nat \ {0}]]
          /\ \A k \in Messages : out[k].next \in 1 .. Fragments[k] /\ Fragments[k] \in Nat \ {0}
      BY MeshAssumption DEF MeshTypeOK, MeshAssumption
    <3>2. PICK entry : /\ out' = [out EXCEPT ![m] = entry]
                       /\ \/ entry = [out[m] EXCEPT !.status = "FAILED"]
                          \/ entry = [out[m] EXCEPT !.status = "SENT"]
                          \/ /\ out[m].next # Fragments[m]
                             /\ entry = [status |-> "SENDING", next |-> out[m].next + 1]
      <4> DEFINE new ==
            IF accepted = {} THEN [out[m] EXCEPT !.status = "FAILED"]
            ELSE IF out[m].next = Fragments[m] THEN [out[m] EXCEPT !.status = "SENT"]
            ELSE [status |-> "SENDING", next |-> out[m].next + 1]
      <4>1. out' = [out EXCEPT ![m] = new]
        BY <2>1, <3>1 DEF AfterOriginate
      <4>2. \/ new = [out[m] EXCEPT !.status = "FAILED"]
            \/ new = [out[m] EXCEPT !.status = "SENT"]
            \/ out[m].next # Fragments[m] /\ new = [status |-> "SENDING", next |-> out[m].next + 1]
        OBVIOUS
      <4> HIDE DEF new
      <4> QED BY <4>1, <4>2
    <3>3. /\ entry \in [status : {"NEW", "SENDING", "SENT", "FAILED"}, next : Nat \ {0}]
          /\ entry.next \in 1 .. Fragments[m]
      <4>1. /\ out[m] \in [status : {"NEW", "SENDING", "SENT", "FAILED"}, next : Nat \ {0}]
            /\ out[m].next \in 1 .. Fragments[m] /\ Fragments[m] \in Nat \ {0}
        BY <3>1
      <4>2. CASE entry = [out[m] EXCEPT !.status = "FAILED"]
        BY <4>1, <4>2
      <4>3. CASE entry = [out[m] EXCEPT !.status = "SENT"]
        BY <4>1, <4>3
      <4>4. CASE /\ out[m].next # Fragments[m]
                 /\ entry = [status |-> "SENDING", next |-> out[m].next + 1]
        <5>1. out[m].next + 1 \in 1 .. Fragments[m] /\ out[m].next + 1 \in Nat \ {0}
          BY <4>1, <4>4
        <5> QED BY <4>4, <5>1
      <4> QED BY <3>2, <4>2, <4>3, <4>4
    <3> QED BY <3>1, <3>2, <3>3
  <2> QED BY <2>2, <2>3, <2>4 DEF MeshTypeOK, Channels
<1>3. CASE Aside
  <2>1. /\ out' \in [Messages -> [status : {"NEW", "SENDING", "SENT", "FAILED"}, next : Nat \ {0}]]
        /\ \A k \in Messages : out'[k].next \in 1 .. Fragments[k]
    <3>1. /\ out \in [Messages -> [status : {"NEW", "SENDING", "SENT", "FAILED"}, next : Nat \ {0}]]
          /\ \A k \in Messages : out[k].next \in 1 .. Fragments[k]
      BY DEF MeshTypeOK
    <3>2. CASE out' = out
      BY <3>1, <3>2
    <3>3. ASSUME NEW m \in Messages, RefuseChat(m)
          PROVE  out' = [out EXCEPT ![m] = [out[m] EXCEPT !.status = "FAILED"]]
      BY <3>3 DEF RefuseChat
    <3>4. ASSUME NEW m \in Messages, out' = [out EXCEPT ![m] = [out[m] EXCEPT !.status = "FAILED"]]
          PROVE  /\ out' \in [Messages -> [status : {"NEW", "SENDING", "SENT", "FAILED"}, next : Nat \ {0}]]
                 /\ \A k \in Messages : out'[k].next \in 1 .. Fragments[k]
      <4>1. /\ [out[m] EXCEPT !.status = "FAILED"] \in
                  [status : {"NEW", "SENDING", "SENT", "FAILED"}, next : Nat \ {0}]
            /\ [out[m] EXCEPT !.status = "FAILED"].next = out[m].next
        BY <3>1
      <4> QED BY <3>1, <3>4, <4>1
    <3>5. out' = out \/ \E m \in Messages : RefuseChat(m)
      BY <1>3 DEF Aside, LoseRoute, GainRoute, vars
    <3> QED BY <3>2, <3>3, <3>4, <3>5
  <2>2. /\ UNCHANGED <<seen, evicted, partial, shown>>
        /\ air' \in Channels /\ churn' \in Nat /\ route' \in [Nodes -> SUBSET Nodes]
    BY <1>3, AsideEffect
  <2> QED BY <2>1, <2>2 DEF MeshTypeOK, Channels
<1> QED BY <1>1, <1>2, <1>3, Steps

LEMMA AirStep ==
    ASSUME MeshInv, [Next]_vars
    PROVE  AirIsMarked'
<1>1. ASSUME NEW n \in Nodes, NEW from \in Nodes, Receive(n, from)
      PROVE  AirIsMarked'
  <2>1. PICK packet \in Packets : Received(n, from, packet)
    BY <1>1, ReceiveEffect
  <2>2. \A q \in Nodes : Known(q) \subseteq Known(q)'
    BY <2>1 DEF Received
  <2>3. packet \in Carried(air[from][n])
        /\ \A f, t \in Nodes : Carried(air'[f][t]) \subseteq Carried(air[f][t]) \cup {packet}
    BY <2>1 DEF Received
  <2>4. \A f, t \in Nodes : \A x \in Carried(air[f][t]) : x \in Known(Sender[MessageOf(x)])'
    BY <2>2, AirPackets
  <2> QED BY <2>3, <2>4 DEF AirIsMarked
<1>2. ASSUME NEW m \in Messages, Originate(m)
      PROVE  AirIsMarked'
  <2>1. PICK packet, accepted : Originated(m, packet, accepted)
    BY <1>2, OriginateEffect
  <2>2. \A q \in Nodes : Known(q) \subseteq Known(q)'
    BY <2>1 DEF Originated
  <2>3. \A f, t \in Nodes : Carried(air'[f][t]) \subseteq Carried(air[f][t]) \cup {packet}
    BY <2>1 DEF Originated, Spread
  <2>4. \A f, t \in Nodes : \A x \in Carried(air[f][t]) : x \in Known(Sender[MessageOf(x)])'
    BY <2>2, AirPackets
  <2>5. packet \in Known(Sender[MessageOf(packet)])'
    BY <2>1 DEF Originated
  <2> QED BY <2>3, <2>4, <2>5 DEF AirIsMarked
<1>3. CASE Aside
  <2>1. /\ \A q \in Nodes : Known(q)' = Known(q)
        /\ \A f, t \in Nodes : Carried(air'[f][t]) \subseteq Carried(air[f][t])
    BY <1>3, AsideEffect
  <2>2. \A f, t \in Nodes : \A x \in Carried(air[f][t]) : x \in Known(Sender[MessageOf(x)])'
    BY <2>1, AirPackets
  <2> QED BY <2>1, <2>2 DEF AirIsMarked
<1> QED BY <1>1, <1>2, <1>3, Steps

LEMMA KnownGrows ==
    ASSUME MeshInv, [Next]_vars
    PROVE  \A q \in Nodes : Known(q) \subseteq Known(q)' /\ evicted[q] \subseteq evicted'[q]
<1>1. ASSUME NEW n \in Nodes, NEW from \in Nodes, Receive(n, from)
      PROVE  \A q \in Nodes : Known(q) \subseteq Known(q)' /\ evicted[q] \subseteq evicted'[q]
  BY <1>1, ReceiveEffect DEF Received
<1>2. ASSUME NEW m \in Messages, Originate(m)
      PROVE  \A q \in Nodes : Known(q) \subseteq Known(q)' /\ evicted[q] \subseteq evicted'[q]
  BY <1>2, OriginateEffect DEF Originated
<1>3. CASE Aside
  BY <1>3, AsideEffect
<1> QED BY <1>1, <1>2, <1>3, Steps

\* What the applications of the phones change in a step.
LEMMA Applications ==
    ASSUME MeshInv, [Next]_vars
    PROVE  \/ UNCHANGED <<partial, shown>>
           \/ \E n \in Nodes, packet \in Packets, key \in Keys :
                /\ packet \notin Range(seen[n]) /\ packet \in Known(n)'
                /\ packet \in Known(Sender[MessageOf(packet)])
                /\ OnLocalDeliver(n, packet, key)
<1>1. ASSUME NEW n \in Nodes, NEW from \in Nodes, Receive(n, from)
      PROVE  \/ UNCHANGED <<partial, shown>>
             \/ \E packet \in Packets, key \in Keys :
                  /\ packet \notin Range(seen[n]) /\ packet \in Known(n)'
                  /\ packet \in Known(Sender[MessageOf(packet)])
                  /\ OnLocalDeliver(n, packet, key)
  <2>1. PICK packet \in Packets : Received(n, from, packet)
    BY <1>1, ReceiveEffect
  <2>2. packet \in Known(n)' /\ packet \in Known(Sender[MessageOf(packet)])
    BY <2>1, AirPackets DEF Received
  <2> QED BY <2>1, <2>2 DEF Received, appVars
<1>2. ASSUME NEW m \in Messages, Originate(m)
      PROVE  UNCHANGED <<partial, shown>>
  BY <1>2 DEF Originate, appVars
<1>3. CASE Aside
  BY <1>3, AsideEffect
<1> QED BY <1>1, <1>2, <1>3, Steps

LEMMA HeldStep ==
    ASSUME MeshInv, [Next]_vars
    PROVE  HeldIsMarked' /\ ShownIsMarked'
<1> USE DEF MeshInv
<1>1. \A q \in Nodes : Known(q) \subseteq Known(q)'
  BY KnownGrows
<1>2. CASE UNCHANGED <<partial, shown>>
  BY <1>1, <1>2 DEF HeldIsMarked, ShownIsMarked
<1>3. ASSUME NEW n \in Nodes, NEW packet \in Packets, NEW key \in Keys, packet \in Known(n)',
             OnLocalDeliver(n, packet, key)
      PROVE  HeldIsMarked' /\ ShownIsMarked'
  <2>1. /\ partial'[n] \subseteq partial[n] \cup {<<key, packet>>}
        /\ \A q \in Nodes : q # n => partial'[q] = partial[q] /\ shown'[q] = shown[q]
        /\ \A m \in Messages :
             \/ shown'[n][m] = shown[n][m]
             \/ \A p \in Whole(m) : p = packet \/ <<key, p>> \in partial[n]
    BY <1>3, LocalDeliverEffect
  <2>2. ASSUME NEW q \in Nodes, NEW h \in partial'[q] PROVE h[2] \in Known(q)'
    <3>1. h \in partial[q] \/ (q = n /\ h = <<key, packet>>)
      BY <2>1
    <3>2. CASE h \in partial[q]
      BY <1>1, <3>2 DEF HeldIsMarked
    <3>3. CASE q = n /\ h = <<key, packet>>
      BY <1>3, <3>3
    <3> QED BY <3>1, <3>2, <3>3
  <2>3. ASSUME NEW q \in Nodes, NEW m \in Messages, shown'[q][m] > 0
        PROVE  Whole(m) \subseteq Known(q)'
    <3>1. CASE shown'[q][m] = shown[q][m]
      BY <1>1, <2>3, <3>1 DEF ShownIsMarked
    <3>2. CASE shown'[q][m] # shown[q][m]
      <4>1. q = n /\ \A p \in Whole(m) : p = packet \/ <<key, p>> \in partial[n]
        BY <2>1, <3>2
      <4>2. \A p \in Whole(m) : <<key, p>> \in partial[n] => p \in Known(n)
        BY DEF HeldIsMarked
      <4> QED BY <1>1, <1>3, <4>1, <4>2
    <3> QED BY <3>1, <3>2
  <2> QED BY <2>2, <2>3 DEF HeldIsMarked, ShownIsMarked
<1> QED BY <1>2, <1>3, Applications

LEMMA ShownStep ==
    ASSUME MeshInv, [Next]_vars
    PROVE  ChatIsListedOnce' /\ DeliveredOnce'
<1> USE DEF MeshInv
<1>1. \A q \in Nodes : evicted[q] \subseteq evicted'[q]
  BY KnownGrows
<1>2. CASE UNCHANGED <<partial, shown>>
  BY <1>1, <1>2 DEF ChatIsListedOnce, DeliveredOnce
<1>3. ASSUME NEW n \in Nodes, NEW packet \in Packets, NEW key \in Keys,
             packet \notin Range(seen[n]), packet \in Known(Sender[MessageOf(packet)]),
             OnLocalDeliver(n, packet, key)
      PROVE  ChatIsListedOnce' /\ DeliveredOnce'
  <2>1. /\ \A q \in Nodes : q # n => shown'[q] = shown[q]
        /\ shown \in [Nodes -> [Messages -> Nat]]
        /\ \A m \in Messages :
             \/ shown'[n][m] = shown[n][m]
             \/ /\ m = MessageOf(packet)
                /\ ~AlreadyDelivered(n, m, key)
                /\ shown'[n][m] = shown[n][m] + 1
    BY <1>3, LocalDeliverEffect DEF MeshTypeOK
  <2>2. ASSUME NEW q \in Nodes, NEW m \in Messages, shown'[q][m] # shown[q][m]
        PROVE  /\ q = n /\ m = MessageOf(packet)
               /\ shown'[q][m] = shown[q][m] + 1
               /\ Kind[m] = "chat" => shown[q][m] = 0
               /\ shown[q][m] > 0 \/ q = Sender[m] => evicted[q] \cap Whole(m) # {}
    <3>1. /\ q = n /\ m = MessageOf(packet) /\ ~AlreadyDelivered(n, m, key)
          /\ shown'[q][m] = shown[q][m] + 1 /\ shown[q][m] \in Nat
      BY <2>1, <2>2
    <3>2. Kind[m] = "chat" => shown[q][m] = 0
      BY <3>1 DEF AlreadyDelivered
    <3>3. packet \in Whole(m)
      BY <3>1, PacketParts
    <3>4. ASSUME shown[q][m] > 0 \/ q = Sender[m]
          PROVE  evicted[q] \cap Whole(m) # {}
      <4>1. packet \in Known(q)
        BY <1>3, <3>1, <3>3, <3>4 DEF ShownIsMarked
      <4>2. packet \notin Range(seen[q])
        BY <1>3, <3>1
      <4> QED BY <3>3, <4>1, <4>2 DEF Known
    <3> QED BY <3>1, <3>2, <3>4
  <2>3. ChatIsListedOnce'
    BY <2>1, <2>2 DEF ChatIsListedOnce
  <2>4. ASSUME NEW q \in Nodes, NEW m \in Messages,
               shown'[q][m] > (IF q = Sender[m] THEN 0 ELSE 1)
        PROVE  evicted'[q] \cap Whole(m) # {} /\ (Kind[m] = "chat" => q = Sender[m])
    <3>1. CASE shown'[q][m] = shown[q][m]
      BY <1>1, <2>4, <3>1 DEF DeliveredOnce
    <3>2. CASE shown'[q][m] # shown[q][m]
      <4>1. /\ shown'[q][m] = shown[q][m] + 1 /\ shown[q][m] \in Nat
            /\ Kind[m] = "chat" => shown[q][m] = 0
            /\ shown[q][m] > 0 \/ q = Sender[m] => evicted[q] \cap Whole(m) # {}
        BY <2>1, <2>2, <3>2
      <4>2. shown[q][m] > 0 \/ q = Sender[m]
        BY <2>4, <4>1
      <4>3. Kind[m] = "chat" => q = Sender[m]
        BY <2>4, <4>1
      <4> QED BY <1>1, <4>1, <4>2, <4>3
    <3> QED BY <3>1, <3>2
  <2> QED BY <2>3, <2>4 DEF DeliveredOnce
<1> QED BY <1>2, <1>3, Applications

LEMMA SomewhereStays ==
    ASSUME MeshInv, [Next]_vars, churn' = 0, NEW x \in Packets, Somewhere(x)
    PROVE  Somewhere(x)'
<1> USE DEF MeshInv
<1>1. PICK q \in Nodes \ {Sender[MessageOf(x)]} :
        x \in Known(q) \/ \E f \in Nodes : x \in Carried(air[f][q])
  BY DEF Somewhere
<1>2. Known(q) \subseteq Known(q)'
  BY KnownGrows
<1>3. ASSUME NEW f \in Nodes, x \in Carried(air[f][q])
      PROVE  x \in Known(q)' \/ x \in Carried(air'[f][q])
  <2>1. ASSUME NEW n \in Nodes, NEW from \in Nodes, Receive(n, from)
        PROVE  x \in Known(q)' \/ x \in Carried(air'[f][q])
    <3>1. PICK packet \in Packets : Received(n, from, packet)
      BY <2>1, ReceiveEffect
    <3>2. /\ Carried(air[f][q]) \subseteq Carried(air'[f][q]) \cup (IF q = n THEN {packet} ELSE {})
          /\ packet \in Known(n)'
      BY <3>1 DEF Received
    <3> QED BY <1>3, <3>2
  <2>2. ASSUME NEW m \in Messages, Originate(m)
        PROVE  x \in Carried(air'[f][q])
    <3>1. PICK packet, accepted : Originated(m, packet, accepted)
      BY <2>2, OriginateEffect
    <3>2. Carried(air[f][q]) \subseteq Carried(air'[f][q])
      BY <3>1 DEF Originated, Spread
    <3> QED BY <1>3, <3>2
  <2>3. CASE Aside
    BY <1>3, <2>3, AsideEffect
  <2> QED BY <2>1, <2>2, <2>3, Steps
<1> QED BY <1>1, <1>2, <1>3 DEF Somewhere

LEMMA SomewhereStep ==
    ASSUME MeshInv, [Next]_vars
    PROVE  AcceptedIsSomewhere'
<1> SUFFICES ASSUME churn' = 0, NEW m \in Messages, NEW x \in Accepted(m)'
             PROVE  Somewhere(x)'
  BY DEF AcceptedIsSomewhere
<1> USE DEF MeshInv
<1>1. churn = 0
  <2>1. ASSUME NEW n \in Nodes, NEW from \in Nodes, Receive(n, from) PROVE churn' = churn
    BY <2>1 DEF Receive, nodeVars
  <2>2. ASSUME NEW k \in Messages, Originate(k) PROVE churn' = churn
    BY <2>2 DEF Originate, nodeVars
  <2> QED BY <2>1, <2>2, AsideEffect, Steps
<1>2. /\ out[m].next \in 1 .. Fragments[m] /\ Fragments[m] \in Nat
      /\ out \in [Messages -> [status : {"NEW", "SENDING", "SENT", "FAILED"}, next : Nat \ {0}]]
  BY MeshAssumption DEF MeshTypeOK, MeshAssumption
<1>3. Accepted(m) \subseteq Packets
  <2>1. Accepted(m) \subseteq Whole(m)
    BY <1>2 DEF Accepted, Whole
  <2> QED BY <2>1, PacketParts
<1>4. CASE x \in Accepted(m)
  BY <1>1, <1>3, <1>4, SomewhereStays DEF AcceptedIsSomewhere
<1>5. CASE x \notin Accepted(m)
  <2>1. PICK k \in Messages : Originate(k)
    <3>1. ASSUME NEW n \in Nodes, NEW from \in Nodes, Receive(n, from) PROVE out' = out
      BY <3>1 DEF Receive
    <3>2. CASE Aside
      <4>1. out' = out \/ \E k \in Messages : out' = [out EXCEPT ![k].status = "FAILED"] /\ out[k].status = "NEW"
        BY <3>2 DEF Aside, RefuseChat, LoseRoute, GainRoute, vars
      <4>2. out'[m].next = out[m].next /\ (out'[m].status = "SENT" => out[m].status = "SENT")
        BY <1>2, <4>1
      <4> QED BY <1>2, <1>5, <4>2 DEF Accepted
    <3>3. out' # out
      BY <1>5 DEF Accepted
    <3> QED BY <3>1, <3>2, <3>3, Steps
  <2> DEFINE packet == <<k, out[k].next>>
  <2>2. PICK accepted \in SUBSET (Nodes \ {Sender[k]}) : Originated(k, packet, accepted)
    BY <2>1, OriginateEffect
  <2>3. AfterOriginate(k, accepted)
    BY <2>2 DEF Originated
  <2>4. k = m
    BY <1>2, <1>5, <2>3 DEF AfterOriginate, Accepted
  <2>5. accepted # {} /\ x = packet
    <3>1. \/ /\ accepted = {}
             /\ out'[m].status = "FAILED" /\ out'[m].next = out[m].next
          \/ /\ accepted # {} /\ out[m].next = Fragments[m]
             /\ out'[m].status = "SENT" /\ out'[m].next = out[m].next
          \/ /\ accepted # {}
             /\ out'[m].status = "SENDING" /\ out'[m].next = out[m].next + 1
      <4> DEFINE new ==
            IF accepted = {} THEN [out[m] EXCEPT !.status = "FAILED"]
            ELSE IF out[m].next = Fragments[m] THEN [out[m] EXCEPT !.status = "SENT"]
            ELSE [status |-> "SENDING", next |-> out[m].next + 1]
      <4>1. out'[m] = new
        BY <1>2, <2>3, <2>4 DEF AfterOriginate
      <4>2. \/ accepted = {} /\ new = [out[m] EXCEPT !.status = "FAILED"]
            \/ accepted # {} /\ out[m].next = Fragments[m] /\ new = [out[m] EXCEPT !.status = "SENT"]
            \/ accepted # {} /\ new = [status |-> "SENDING", next |-> out[m].next + 1]
        <5>1. CASE accepted = {}
          BY <5>1
        <5>2. CASE accepted # {} /\ out[m].next = Fragments[m]
          BY <5>2
        <5>3. CASE accepted # {} /\ out[m].next # Fragments[m]
          BY <5>3
        <5> QED BY <5>1, <5>2, <5>3
      <4> HIDE DEF new
      <4> QED BY <1>2, <4>1, <4>2
    <3>2. PICK i \in 1 .. (IF out'[m].status = "SENT" THEN Fragments[m] ELSE out'[m].next - 1) :
            x = <<m, i>>
      BY DEF Accepted
    <3>3. out[m].status # "SENT"
      BY <2>1, <2>4 DEF Originate
    <3>4. i \notin 1 .. out[m].next - 1
      BY <1>5, <3>2, <3>3 DEF Accepted
    <3> QED BY <1>2, <2>4, <3>1, <3>2, <3>4
  <2>6. PICK p \in accepted : packet \in Carried(air'[Sender[k]][p]) /\ MessageOf(packet) = k
    BY <2>2, <2>5 DEF Originated
  <2>7. Sender[k] \in Nodes /\ p \in Nodes \ {Sender[k]}
    BY <2>6, MeshAssumption DEF MeshAssumption
  <2> HIDE DEF packet
  <2> QED BY <2>5, <2>6, <2>7 DEF Somewhere
<1> QED BY <1>4, <1>5

-----------------------------------------------------------------------------
(* The theorems.                                                           *)

LEMMA InitMesh == Init => MeshInv
<1> SUFFICES ASSUME Init PROVE MeshInv
  OBVIOUS
<1>1. MeshTypeOK
  <2>1. FirstRoutes \in [Nodes -> SUBSET Nodes]
    BY MeshAssumption DEF MeshAssumption
  <2>2. \A S : <<>> \in Seq(S)
    OBVIOUS
  <2>3. \A m \in Messages : 1 \in 1 .. Fragments[m]
    BY MeshAssumption DEF MeshAssumption
  <2> QED BY <2>1, <2>2, <2>3 DEF Init, MeshTypeOK
<1>2. \A f, t \in Nodes : Carried(air[f][t]) = {}
  BY DEF Init, Carried
<1>3. AirIsMarked /\ HeldIsMarked
  BY <1>2 DEF Init, AirIsMarked, HeldIsMarked
<1>4. ShownIsMarked /\ ChatIsListedOnce /\ DeliveredOnce
  BY DEF Init, ShownIsMarked, ChatIsListedOnce, DeliveredOnce
<1>5. AcceptedIsSomewhere
  BY DEF Init, AcceptedIsSomewhere, Accepted
<1> QED BY <1>1, <1>3, <1>4, <1>5 DEF MeshInv

LEMMA StepMesh == MeshInv /\ [Next]_vars => MeshInv'
  BY TypeStep, AirStep, HeldStep, ShownStep, SomewhereStep DEF MeshInv

LEMMA MeshAlways == Spec => []MeshInv
  BY InitMesh, StepMesh, PTL DEF Spec

\* However many copies a flood brings, a phone speaks or lists a message once
\* and its own never, unless its dedup cache (DedupCache.ts:101) forgot a
\* packet of that message; a chat message of another phone is listed once even
\* then.
THEOREM AlwaysDeliveredOnce == Spec => []DeliveredOnce
<1>1. MeshInv => DeliveredOnce
  BY DEF MeshInv
<1> QED BY <1>1, MeshAlways, PTL

\* While no link is lost, every packet of a message reported SENT reached
\* another phone or is on its way to one.
THEOREM SentIsAlwaysSomewhere == Spec => []SentIsSomewhere
<1>1. MeshInv => SentIsSomewhere
  <2> SUFFICES ASSUME MeshInv, NEW m \in Messages, out[m].status = "SENT", churn = 0,
                      NEW x \in Whole(m)
               PROVE  \E n \in Nodes \ {Sender[m]} :
                        \/ x \in Range(seen[n]) \cup evicted[n]
                        \/ \E from \in Nodes : \E k \in DOMAIN air[from][n] :
                             air[from][n][k].packet = x
    BY DEF SentIsSomewhere
  <2>1. x \in Accepted(m)
    BY DEF Accepted, Whole
  <2>2. Somewhere(x) /\ MessageOf(x) = m
    BY <2>1, PacketParts DEF MeshInv, AcceptedIsSomewhere
  <2> QED BY <2>2 DEF Somewhere, Known, Carried
<1> QED BY <1>1, MeshAlways, PTL
===============================================================================
