------------------------------ MODULE Framing ------------------------------
(***************************************************************************)
(* From a text to the text the other phone speaks or lists: the V6A codec  *)
(* (BinaryMessageCodec), the V7 fragment codec (FragmentCodec), the chat   *)
(* and BITCHAT envelopes, the V6B frame codec with its sequence numbers    *)
(* (SequenceManager, SequenceValidator) and the Reassembler.               *)
(*                                                                         *)
(* One phone writes, one reads.  A message takes one of three paths:       *)
(*   "direct"  voice in V6B frames of type V6A_MESSAGE, resent until ACKed *)
(*   "mesh"    voice in BITCHAT packets                                    *)
(*   "chat"    typed text in BITCHAT packets, behind the chat magic        *)
(* Bytes are counted one by one, because every question here is where a    *)
(* message is cut; a byte is only named by the character (or the header)   *)
(* it is a part of.  The sizes are parameters, so that small ones have the *)
(* boundary cases of the real ones.  ACKs and timers are in ReliableLink,  *)
(* relaying in BitChatMesh; here the link and the mesh only lose, cut and  *)
(* reorder.                                                                *)
(***************************************************************************)
EXTENDS Integers, Sequences, FiniteSets, SequencesExt

CONSTANTS
    V6A_HEADER,      \* HEADER_SIZE of BinaryMessageTypes (18)
    V7_HEADER,       \* V7_HEADER_SIZE (9)
    BITCHAT_HEADER,  \* HEADER_SIZE of BitChatConstants (28)
    CHAT_HEADER,     \* CHAT_HEADER_SIZE (4)
    MAX_PAYLOAD,     \* V6B_MAX_PAYLOAD_SIZE (499)
    MAX_FRAGMENTS,   \* fragments per message (128)
    MAX_GROUPS,      \* MAX_CONCURRENT_GROUPS (8)
    HALF,            \* half the sequence numbers (2^31)
    Shapes,          \* texts as sequences of character classes
    MaxMessages,     \* bound: messages written
    MaxFaults,       \* bound: lost or cut frames, failed sends, link losses
    MaxResends       \* bound: retransmissions

MAX_CHUNK == MAX_PAYLOAD - V7_HEADER
MAX_V6A == MAX_FRAGMENTS * MAX_CHUNK
Path == {"direct", "mesh", "chat"}

(* A UTF-16 unit is a blank, a character of one, two or three UTF-8 bytes, *)
(* or half of a surrogate pair; a pair takes four bytes.                   *)
Class == {" ", "a", "e", "k", "High", "Low"}

ASSUME FramingAssumption ==
    /\ {V6A_HEADER, V7_HEADER, BITCHAT_HEADER, CHAT_HEADER, MAX_PAYLOAD,
        MAX_FRAGMENTS, MAX_GROUPS, HALF} \subseteq Nat \ {0}
    /\ MAX_PAYLOAD - BITCHAT_HEADER - CHAT_HEADER - V7_HEADER >= V6A_HEADER
    /\ \A shape \in Shapes : shape \in Seq(Class)
    /\ {MaxMessages, MaxFaults, MaxResends} \subseteq Nat

VARIABLES
    messages,     \* messages written: [path, text, group, total, status]
    groupCounter, \* groupIdCounter of the writer's process
    counter,      \* frames numbered on this connection; mod 2 * HALF it is
                  \* the SequenceManager's counter
    outbox,       \* outbox[path]: payloads its send loop has still to send
    wire,         \* frames of the direct path in the air, in their order
    packets,      \* frames in the mesh, which has no order
    partial,      \* groups of the reader's two Reassemblers, oldest first
    completed,    \* groups in the CompletedGroupCache
    heard,        \* messages spoken or listed: <<id, text>>
    last,         \* SequenceValidator: {the last sequence received}, or {}
    lastNumber,   \* history: the frame number behind last
    verdict,      \* history: the validator's latest answer and its subject
    arrived,      \* history: fragments that reached the present group
    faults,
    resends

writerVars == <<messages, groupCounter, outbox, resends>>
readerVars == <<partial, completed, heard, last, lastNumber, verdict, arrived>>
vars == <<messages, groupCounter, counter, outbox, wire, packets, partial, completed,
          heard, last, lastNumber, verdict, arrived, faults, resends>>

NoVerdict == [number |-> 0, after |-> 0, says |-> "first"]

-----------------------------------------------------------------------------
(* V6A: UTF-8 and the packet.                                              *)

(* The units of message m: no two characters are alike, so that a byte out *)
(* of place shows.                                                         *)
Written(m, shape) == [i \in DOMAIN shape |-> <<shape[i], m, i>>]

(* String.prototype.trim.                                                  *)
Trim(text) ==
    LET solid == {i \in DOMAIN text : text[i][1] # " "}
    IN IF solid = {} THEN <<>> ELSE SubSeq(text, Min(solid), Max(solid))

PairAt(text, i) ==
    /\ i \in DOMAIN text /\ i + 1 \in DOMAIN text
    /\ text[i][1] = "High" /\ text[i + 1][1] = "Low"

CodePoint(text, i) ==
    IF PairAt(text, i) THEN <<"Pair", text[i][2], text[i][3]>> ELSE text[i]

(* A lone surrogate is encoded like any other unit of three bytes.         *)
Width(codePoint) ==
    CASE codePoint[1] \in {" ", "a"} -> 1
      [] codePoint[1] = "e"          -> 2
      [] codePoint[1] = "Pair"       -> 4
      [] OTHER                       -> 3

(* The bytes of the character that begins at unit i; the second half of a  *)
(* pair begins none.                                                       *)
BytesAt(text, i) ==
    LET c == CodePoint(text, i)
    IN IF PairAt(text, i - 1) THEN <<>>
       ELSE [k \in 1 .. Width(c) |-> [of |-> c, part |-> k]]

Utf8Encode(text) == FlattenSeq([i \in 1 .. Len(text) |-> BytesAt(text, i)])

Invalid == << <<"Invalid", 0, 0>> >>

LeadAt(bytes, i) == bytes[i].part = 1
After(bytes, i) == i + Width(bytes[i].of)

(* All continuation bytes are there, and a character or the end is next.   *)
SoundAt(bytes, i) ==
    /\ After(bytes, i) <= Len(bytes) + 1
    /\ \A k \in i + 1 .. After(bytes, i) - 1 : ~LeadAt(bytes, k)
    /\ After(bytes, i) \in DOMAIN bytes => LeadAt(bytes, After(bytes, i))

(* The units of the character that begins at byte i.  Bytes of two         *)
(* characters read as one are some other character.                        *)
UnitsAt(bytes, i) ==
    LET c == bytes[i].of
    IN IF ~LeadAt(bytes, i) THEN <<>>
       ELSE IF \E k \in i .. After(bytes, i) - 1 :
                       bytes[k] # [of |-> c, part |-> k - i + 1]
            THEN << <<"Other", 0, 0>> >>
       ELSE IF c[1] = "Pair"
            THEN << <<"High", c[2], c[3]>>, <<"Low", c[2], c[3] + 1>> >>
       ELSE <<c>>

Utf8Decode(bytes) ==
    IF \/ bytes # <<>> /\ ~LeadAt(bytes, 1)
       \/ \E i \in DOMAIN bytes : LeadAt(bytes, i) /\ ~SoundAt(bytes, i)
    THEN Invalid
    ELSE FlattenSeq([i \in 1 .. Len(bytes) |-> UnitsAt(bytes, i)])

(* encodeUnrestricted: the header names the message and the bytes of text. *)
BuildPacket(m, text) ==
    LET body == Utf8Encode(text)
    IN [k \in 1 .. V6A_HEADER |->
           [of |-> <<"Header", m, Len(body)>>, part |-> k]] \o body

(* decode: <<messageId, text>>, or <<>> when the packet is refused.        *)
Decode(packet) ==
    IF \/ Len(packet) < V6A_HEADER
       \/ packet[1].of[1] # "Header" \/ packet[1].part # 1
    THEN <<>>
    ELSE LET length == packet[1].of[3]
             text == Utf8Decode(SubSeq(packet, V6A_HEADER + 1, V6A_HEADER + length))
         IN IF \/ length = 0
               \/ Len(packet) < V6A_HEADER + length
               \/ text = Invalid \/ Trim(text) = <<>>
            THEN <<>>
            ELSE <<packet[1].of[2], text>>

-----------------------------------------------------------------------------
(* V7: cutting a packet.                                                   *)

Envelope(path) ==
    CASE path = "direct" -> 0
      [] path = "mesh"   -> BITCHAT_HEADER
      [] path = "chat"   -> BITCHAT_HEADER + CHAT_HEADER

(* Mutant: the chat magic is not taken off the budget.                     *)
MutChunkSize(path) ==
    IF path = "direct" THEN MAX_CHUNK
    ELSE Min({MAX_PAYLOAD - BITCHAT_HEADER, MAX_PAYLOAD}) - V7_HEADER

(* V6A bytes per fragment: MAX_CHUNK_SIZE, or what splitV6AForBudget makes *)
(* of the budget the caller has left beside its envelope.                  *)
ChunkSize(path) ==
    Min({MAX_PAYLOAD - Envelope(path), V7_HEADER + MAX_CHUNK}) - V7_HEADER

(* The longest packet that goes without a V7 header.                       *)
SingleLimit(path) == IF path = "direct" THEN MAX_PAYLOAD ELSE ChunkSize(path)

Total(length, path) ==
    IF length <= SingleLimit(path) THEN 1
    ELSE (length + ChunkSize(path) - 1) \div ChunkSize(path)

(* The STT handler cuts for the direct path before it knows the path.      *)
SplitRefuses(length, path) ==
    \/ length > MAX_V6A
    \/ Total(length, path) > MAX_FRAGMENTS

(* Group ids the process uses up for one message.                          *)
GroupsTaken(length, path) ==
    (IF Total(length, path) > 1 THEN 1 ELSE 0)
    + (IF path = "mesh" /\ Total(length, "direct") > 1 THEN 1 ELSE 0)

(* The payload of every packet or frame of message m, V7 header included.  *)
Payloads(m, msg) ==
    LET packet == BuildPacket(m, msg.text)
        size == ChunkSize(msg.path)
        Fragment(i) == [msg |-> m, v7 |-> TRUE, group |-> msg.group,
                        index |-> i, total |-> msg.total, length |-> Len(packet),
                        bytes |-> SubSeq(packet, i * size + 1,
                                         Min({(i + 1) * size, Len(packet)}))]
    IN IF msg.total = 1
       THEN << [Fragment(0) EXCEPT !.v7 = FALSE, !.bytes = packet] >>
       ELSE [i \in 1 .. msg.total |-> Fragment(i - 1)]

Size(payload, path) ==
    Len(payload.bytes) + Envelope(path) + (IF payload.v7 THEN V7_HEADER ELSE 0)

-----------------------------------------------------------------------------
(* The writer.                                                             *)

Init ==
    /\ messages = <<>>
    /\ groupCounter = 0
    /\ counter = 0
    /\ outbox = [path \in Path |-> <<>>]
    /\ wire = <<>>
    /\ packets = {}
    /\ partial = [app \in {"voice", "chat"} |-> <<>>]
    /\ completed = {}
    /\ heard = {}
    /\ last = {}
    /\ lastNumber = 0
    /\ verdict = NoVerdict
    /\ arrived = <<>>
    /\ faults = 0
    /\ resends = 0

(* The STT listener and sendChatMessage, up to their send loops: refuse a  *)
(* blank text and one too long to cut, queue the payloads of the others.   *)
Write(path, shape) ==
    LET m == Len(messages) + 1
        text == Trim(Written(m, shape))
        length == V6A_HEADER + Len(Utf8Encode(text))
        taken == GroupsTaken(length, path)
        refused == text = <<>> \/ SplitRefuses(length, path)
        msg == [path |-> path, text |-> text,
                group |-> groupCounter + taken - 1,
                total |-> Total(length, path),
                status |-> IF refused THEN "refused" ELSE "sending"]
    IN /\ Len(messages) < MaxMessages
       /\ outbox[path] = <<>>
       /\ messages' = Append(messages, msg)
       /\ arrived' = Append(arrived, {})
       /\ groupCounter' = IF refused THEN groupCounter ELSE groupCounter + taken
       /\ outbox' = [outbox EXCEPT ![path] =
              IF refused THEN <<>> ELSE Payloads(m, msg)]
       /\ UNCHANGED <<counter, wire, packets, partial, completed, heard, last,
                      lastNumber, verdict, faults, resends>>

StatusOf(m, status) == [messages EXCEPT ![m].status = status]

(* Number the next frame and hand it to the link.  A payload v6bEncode     *)
(* refuses ends the loop; the number is gone all the same.                 *)
Transmit(path) ==
    LET payload == Head(outbox[path])
        fits == Size(payload, path) <= MAX_PAYLOAD
        frame == [path |-> path, number |-> counter,
                  declared |-> Len(payload.bytes), payload |-> payload]
    IN /\ outbox[path] # <<>>
       /\ counter' = counter + 1
       /\ outbox' = [outbox EXCEPT ![path] = IF fits THEN Tail(@) ELSE <<>>]
       /\ wire' = IF fits /\ path = "direct" THEN Append(wire, frame) ELSE wire
       /\ packets' = IF fits /\ path # "direct" THEN packets \cup {frame} ELSE packets
       /\ messages' = IF ~fits THEN StatusOf(payload.msg, "oversize")
                      ELSE IF Len(outbox[path]) = 1 THEN StatusOf(payload.msg, "sent")
                      ELSE messages
       /\ UNCHANGED <<groupCounter, resends, readerVars, faults>>

(* The native send rejects, or no mesh peer accepts the packet.            *)
SendFails(path) ==
    /\ outbox[path] # <<>>
    /\ faults < MaxFaults
    /\ counter' = counter + 1
    /\ messages' = StatusOf(Head(outbox[path]).msg, "failed")
    /\ outbox' = [outbox EXCEPT ![path] = <<>>]
    /\ faults' = faults + 1
    /\ UNCHANGED <<groupCounter, resends, wire, packets, readerVars>>

(* ReliabilityManager.retransmit: all payloads again, in new frames.       *)
Resend(m) ==
    /\ messages[m].path = "direct" /\ messages[m].status = "sent"
    /\ outbox["direct"] = <<>>
    /\ resends < MaxResends
    /\ outbox' = [outbox EXCEPT !["direct"] = Payloads(m, messages[m])]
    /\ resends' = resends + 1
    /\ UNCHANGED <<messages, groupCounter, counter, wire, packets, readerVars, faults>>

-----------------------------------------------------------------------------
(* The reader.                                                             *)

NUMBERS == 2 * HALF

(* What << 24 and & 0xffffffff make of a 32-bit number in JavaScript.      *)
Signed(n) == LET u == n % NUMBERS
             IN IF u >= HALF THEN u - NUMBERS ELSE u

(* Mutant: the frame codec reads the number unsigned, like FragmentCodec.  *)
MutSequence(number) == number % NUMBERS

(* The number as V6BFrameCodec.decode reads it.                            *)
Sequence(number) == Signed(number)

(* SequenceValidator.validate.                                             *)
Validated(s) ==
    IF last = {} THEN "first"
    ELSE LET l == CHOOSE l \in last : TRUE
             forwardDistance == (s - l - 1 + NUMBERS) % NUMBERS
         IN CASE s = l                             -> "duplicate"
              [] s # l /\ s = Signed(l + 1)        -> "next"
              [] OTHER -> IF 2 * forwardDistance < NUMBERS - 1
                          THEN "gap" ELSE "duplicate"

(* Frames of type V6A_MESSAGE are validated; the answer is only logged.    *)
Validate(f) ==
    IF f.path # "direct" THEN UNCHANGED <<last, lastNumber, verdict>>
    ELSE LET says == Validated(Sequence(f.number)) IN
         /\ verdict' = [number |-> f.number, after |-> lastNumber, says |-> says]
         /\ IF says = "duplicate" THEN UNCHANGED <<last, lastNumber>>
            ELSE last' = {Sequence(f.number)} /\ lastNumber' = f.number

WellFormed(f) == Len(f.payload.bytes) >= f.declared

App(path) == IF path = "chat" THEN "chat" ELSE "voice"
HasGroup(gs, id) == \E i \in DOMAIN gs : gs[i].group = id
GroupIndex(gs, id) == CHOOSE i \in DOMAIN gs : gs[i].group = id

(* Mutant: room is made one group too late.                                *)
MutEvicted(gs, p) ==
    IF ~HasGroup(gs, p.group) /\ Len(gs) > MAX_GROUPS
    THEN {Head(gs).group} ELSE {}

(* abortOldestGroup, when a new group needs room.                          *)
Evicted(gs, p) ==
    IF ~HasGroup(gs, p.group) /\ Len(gs) >= MAX_GROUPS
    THEN {Head(gs).group} ELSE {}

NewGroup(p) == [group |-> p.group, total |-> p.total, length |-> p.length,
                chunks |-> <<>>]

(* The groups with one for p among them.                                   *)
Listed(gs, p) ==
    IF HasGroup(gs, p.group) THEN gs
    ELSE Append(IF Evicted(gs, p) = {} THEN gs ELSE Tail(gs), NewGroup(p))

(* The fragments a group holds, in the order of their index.               *)
Joined(g) == FlattenSeq([k \in 1 .. g.total |->
    IF k - 1 \in DOMAIN g.chunks THEN g.chunks[k - 1] ELSE <<>>])

BytesHeld(g) == Len(Joined(g))

Conflict(g, p) == g.total # p.total \/ g.length # p.length

(* Mutant: a last fragment that fills the packet counts as one too many.   *)
MutOverflow(g, p) == BytesHeld(g) + Len(p.bytes) >= g.length

(* A new fragment brings more bytes than the headers announce.             *)
Overflow(g, p) == BytesHeld(g) + Len(p.bytes) > g.length

Stored(g, p) ==
    [g EXCEPT !.chunks = [k \in DOMAIN g.chunks \cup {p.index} |->
                             IF k = p.index THEN p.bytes ELSE g.chunks[k]]]

(* addFragment: [groups, packet], the packet being <<>> unless complete.   *)
AddFragment(gs, p) ==
    LET listed == Listed(gs, p)
        i == GroupIndex(listed, p.group)
        g == listed[i]
        s == Stored(g, p)
        Result(groups, packet) == [groups |-> groups, packet |-> packet]
    IN IF Conflict(g, p) THEN Result(RemoveAt(listed, i), <<>>)
       ELSE IF p.index \in DOMAIN g.chunks THEN Result(listed, <<>>)
       ELSE IF Overflow(g, p) THEN Result(RemoveAt(listed, i), <<>>)
       ELSE IF Cardinality(DOMAIN s.chunks) < s.total
            THEN Result([listed EXCEPT ![i] = s], <<>>)
       ELSE Result(RemoveAt(listed, i),
                   IF BytesHeld(s) = s.length THEN Joined(s) ELSE <<>>)

Known(message) == \E h \in heard : h[1] = message[1]

(* An id heard before is not spoken or listed again, if the path asks.      *)
Deliver(message, asks) ==
    heard' = IF message = <<>> \/ (asks /\ Known(message))
             THEN heard ELSE heard \cup {message}

(* History: fragments lost with their group are to arrive again.           *)
Forget(at, gone) ==
    [m \in DOMAIN at |-> IF messages[m].group \in gone /\ messages[m].total > 1
                         THEN {} ELSE at[m]]

ReadSingle(f) ==
    /\ ~f.payload.v7
    /\ Deliver(Decode(f.payload.bytes), f.path # "mesh")
    /\ arrived' = [arrived EXCEPT ![f.payload.msg] = {0}]
    /\ UNCHANGED <<partial, completed>>

(* Only the direct path asks the CompletedGroupCache first.                *)
ReadOfCompletedGroup(f) ==
    /\ f.payload.v7 /\ f.path = "direct" /\ f.payload.group \in completed
    /\ UNCHANGED <<partial, completed, heard, arrived>>

ReadFragment(f) ==
    LET p == f.payload
        app == App(f.path)
        result == AddFragment(partial[app], p)
        message == Decode(result.packet)
    IN /\ p.v7 /\ ~(f.path = "direct" /\ p.group \in completed)
       /\ partial' = [partial EXCEPT ![app] = result.groups]
       /\ Deliver(message, TRUE)
       /\ completed' = IF message = <<>> \/ app = "chat" \/ Known(message)
                       THEN completed ELSE completed \cup {p.group}
       /\ arrived' = [Forget(arrived, Evicted(partial[app], p))
                         EXCEPT ![p.msg] = @ \cup {p.index}]

(* onDataReceived.  A frame shorter than it declares is dropped.           *)
Receive(f) ==
    IF ~WellFormed(f) THEN UNCHANGED readerVars
    ELSE /\ Validate(f)
         /\ \/ ReadSingle(f)
            \/ ReadOfCompletedGroup(f)
            \/ ReadFragment(f)

ReadFrame ==
    /\ wire # <<>>
    /\ wire' = Tail(wire)
    /\ Receive(Head(wire))
    /\ UNCHANGED <<packets, writerVars, counter, faults>>

ReadPacket(f) ==
    /\ packets' = packets \ {f}
    /\ Receive(f)
    /\ UNCHANGED <<wire, writerVars, counter, faults>>

(* Reassembler.cleanup, of the voice groups only: the older ones go.       *)
Expire ==
    LET gs == partial["voice"] IN
    /\ \E n \in 1 .. Len(gs) :
          /\ partial' = [partial EXCEPT !["voice"] = SubSeq(gs, n + 1, Len(gs))]
          /\ arrived' = Forget(arrived, {gs[i].group : i \in 1 .. n})
    /\ UNCHANGED <<writerVars, counter, wire, packets, completed, heard, last,
                   lastNumber, verdict, faults>>

-----------------------------------------------------------------------------
(* The link, the mesh behind it, and the writer's process.                 *)

PacketLost(f) ==
    /\ faults < MaxFaults
    /\ packets' = packets \ {f}
    /\ faults' = faults + 1
    /\ UNCHANGED <<wire, writerVars, counter, readerVars>>

Cut(f) == [f EXCEPT !.payload.bytes = Front(@)]

FrameCut(i) ==
    /\ WellFormed(wire[i]) /\ faults < MaxFaults
    /\ wire' = [wire EXCEPT ![i] = Cut(@)]
    /\ faults' = faults + 1
    /\ UNCHANGED <<packets, writerVars, counter, readerVars>>

PacketCut(f) ==
    /\ WellFormed(f) /\ faults < MaxFaults
    /\ packets' = (packets \ {f}) \cup {Cut(f)}
    /\ faults' = faults + 1
    /\ UNCHANGED <<wire, writerVars, counter, readerVars>>

(* Mutant: every process starts its group ids at zero.                     *)
MutProcessSeed(n) == 0

(* createProcessGroupIdSeed: the process starts where no group of the one  *)
(* before it is (32 random bits make it so).                               *)
ProcessSeed(n) == n

(* onDisconnected on both sides: the writer cancels the direct message and *)
(* makes a new SequenceManager, the reader resets its validator.  Groups   *)
(* and caches stay.                                                        *)
LinkBreaks(running) ==
    /\ faults < MaxFaults
    /\ faults' = faults + 1
    /\ counter' = 0
    /\ wire' = <<>>
    /\ last' = {} /\ lastNumber' = 0 /\ verdict' = NoVerdict
    /\ outbox' = [path \in Path |->
                     IF running /\ path # "direct" THEN outbox[path] ELSE <<>>]
    /\ messages' = [m \in DOMAIN messages |->
           IF /\ messages[m].path = "direct" \/ ~running
              /\ messages[m].status \in {"sending", "sent"}
           THEN [messages[m] EXCEPT !.status = "failed"] ELSE messages[m]]
    /\ UNCHANGED <<packets, resends, partial, completed, heard, arrived>>

LinkLost == LinkBreaks(TRUE) /\ UNCHANGED groupCounter

(* The writer's process is killed and started again.                       *)
Restart == LinkBreaks(FALSE) /\ groupCounter' = ProcessSeed(groupCounter)

Next ==
    \/ \E path \in Path, shape \in Shapes : Write(path, shape)
    \/ \E path \in Path : Transmit(path) \/ SendFails(path)
    \/ \E m \in DOMAIN messages : Resend(m)
    \/ ReadFrame
    \/ \E f \in packets : ReadPacket(f) \/ PacketLost(f) \/ PacketCut(f)
    \/ \E i \in DOMAIN wire : FrameCut(i)
    \/ Expire
    \/ LinkLost
    \/ Restart

Spec == Init /\ [][Next]_vars

-----------------------------------------------------------------------------
(* Properties.                                                             *)

(* Every part of the state has its shape; the reassemblers keep no more    *)
(* groups than MAX_CONCURRENT_GROUPS, and none that is whole.              *)
FramingTypeOK ==
    /\ \A m \in DOMAIN messages :
          /\ messages[m].path \in Path
          /\ messages[m].status \in
                {"refused", "sending", "sent", "failed", "oversize"}
    /\ groupCounter \in Nat /\ counter \in Nat
    /\ \A app \in DOMAIN partial :
          /\ Len(partial[app]) <= MAX_GROUPS
          /\ \A i \in DOMAIN partial[app] :
                Cardinality(DOMAIN partial[app][i].chunks) \in 1 .. partial[app][i].total - 1
    /\ \A h \in heard : h[1] \in DOMAIN messages
    /\ last \subseteq -HALF .. HALF - 1

(* What the reader speaks or lists is, character by character, what was    *)
(* written: wherever a packet is cut, in whatever order its fragments come,*)
(* whatever is lost, cut short or sent again, and though the writer starts *)
(* again with fragments of an older message still at the reader.           *)
OnlyWhatWasWritten ==
    \A h \in heard : h[2] = messages[h[1]].text

(* A message whose every fragment has come, to one group that was neither  *)
(* evicted nor expired meanwhile, has been spoken or listed.               *)
CompleteIsHeard ==
    \A m \in DOMAIN messages :
        arrived[m] = 0 .. messages[m].total - 1 => \E h \in heard : h[1] = m

(* The budgets of the three paths are right: no payload the fragment codec *)
(* cuts is refused by the frame codec for its length.                      *)
CutsFit == \A m \in DOMAIN messages : messages[m].status # "oversize"

(* The validator tells the next frame from one after a gap, and never      *)
(* calls a later frame a duplicate, also where the 32-bit number turns     *)
(* negative and where it wraps to zero, while less than half the numbers   *)
(* lie between two frames.                                                 *)
VerdictsAreTrue ==
    LET v == verdict IN
    v.says # "first" /\ v.number - v.after <= HALF =>
        v.says = CASE v.number <= v.after    -> "duplicate"
                   [] v.number = v.after + 1 -> "next"
                   [] OTHER                  -> "gap"
=============================================================================
