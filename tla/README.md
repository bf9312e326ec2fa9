# iTantra: a TLA+ model of its push-to-talk over Bluetooth

iTantra is a React Native application: a user holds a button and speaks, the
speech is recognised on the phone, and the text travels over Bluetooth Low Energy
to another phone, which speaks it, directly or over other phones (the BITCHAT
mesh). Typed chat takes the mesh too. The code is TypeScript on one JavaScript
thread and Kotlin on Android's main, native-modules and Binder threads. This
directory models the parts of it where those threads, several phones and an
unreliable radio meet. Short names used below: `HOOK` is
`src/src/hooks/useBLEVoiceMode.ts`, `RM` is `src/src/protocol/ReliabilityManager.ts`,
`CM` is `BLEConnectionManager.kt`.

## 1. Inventory

| Component | State | Operations | Hard behaviour | What makes it correct |
|---|---|---|---|---|
| V8 sender (`RM`, driven by `HOOK`) | active and queued message, retry count, ACK timer, `retransmitting`, generation | `send`, ACK, NACK, timeout, promotion, `cancel`, the loops over fragments | each loop is suspended in a native write while ACKs, NACKs and timers run | no message driven by nothing; stale loops are silent; bounded retries; queued waits for active |
| V8 receiver (`Reassembler`, `CompletedGroupCache`, `DeliveredMessageCache`) | partial groups, two bounded caches | DATA frame, expiry | whole-group retransmission after a lost ACK; eviction | spoken at most once, in order; ACK only for what was spoken |
| Half-duplex TX control (`HOOK`) | owner, token, request resolver, watchdog | REQUEST, GRANT, RELEASE, press, release, STT result | crossing requests, late GRANTs, writes that fail late, silent peer | the owner holds a token; ownership and requests end with link, timer or watchdog |
| Push-to-talk (`HomeScreen`, `usePTT`, `appReducer`) | button, recording, application state | press, release, results | results come after the release | as above |
| GATT write queue (`GattWriteQueue.kt`) | a FIFO per connection, in-flight set | `enqueueWrite`, `onOperationComplete`, `clear` | callers, Binder completions and teardown on different threads | nothing stranded; callback once; order |
| GATT client and server | connections, latches | `send`, `disconnect`, `stop`, callbacks | ten-second wait of the caller, link loss, reconnection | one write with the stack; success means success |
| Connection manager (`CM`) | peer states with role and generation, scan entries | native callbacks, `connect`, `disconnect`, queries | client and server role of the same peer; errors that name no peer; a device whose key changes after a scan | an entry has a connection under it |
| `useBLE` | a map of peers per mounted screen, pending connects, hydration and its watermarks | native events, hydration, the buttons of ConnectScreen | events overtake the answers of a hydration; screens come and go | screens agree with native at rest |
| ANNOUNCE and registration (`HOOK`, `BitChatBLEAdapter`) | announced flag, retry timer, mapping | ANNOUNCE, connection events, reconciliation, adapter creation | sends before the peer subscribed, stale flags and lists, toggles | a route belongs to the current link; both sides get one |
| Peer registry, mapping, discovery, destinations | two indexes, relay set, discovered nodes, list shown | register, unregister, reconcile, record, prune, subscribe | one peer under two keys, renamed peers, eviction, screens that are not told | indexes converse; routes live; screens miss nothing |
| Mesh flooding (`RelayEngine`, `DedupCache`, `MeshRouter`) | duplicate cache, frames under way | originate, receive, deliver, forward | eviction, TTL, routes that change | delivered once; floods end; SENT is honest |
| Chat | messages with their status | send, receive | partial acceptance of a long message | shown once; SENT is honest |
| Codecs, reassembly, sequence numbers | counters, partial groups, last number | encode, fragment, frame, decode, validate | wide characters at a cut, lengths, restart, wrap | what is heard was written; every piece fits |
| Speech engines, local loop, scanner and advertiser | engine handles | start, stop, speak, scan | vendor code and platform calls | outside this project (section 7) |

How they interact: native connections are reported to `useBLE` (what the screens
show) and to `HOOK`, which announces itself to each peer. An ANNOUNCE heard makes a
route. A press makes HOOK ask the peer for the direction (TX control); the GRANT
starts recording; the speech result is encoded, fragmented and given to the V8
sender of a direct link, or as BITCHAT packets to the relay engine. All frames go
through `NativeBLE.send` to the GATT client or server and its write queue. Frames of
a peer come back as events to the same JavaScript thread.

## 2. Plan

Modules were written in the order of what the user would miss first.

1. `ReliabilityTypes`, `ReliableSender`, `ReliableReceiver`, their composition
   `ReliableLink`, and the abstract `OrderedDelivery` it implements.
2. `GattWriteQueue` with its callers and its stack.
3. `HalfDuplex`, with the button and the speech result.
4. `AnnounceHandshake`, then `PeerDirectory` behind it.
5. `BitChatMesh` with voice and chat above it.
6. `ConnectionManager`, and `ConnectionHook`, which composes it with `useBLE`.
7. `Framing`: codecs, reassembly and sequence numbers.
8. Proofs, one module `X_proofs` for each of `ReliableLink` (with `ReliableSender`),
   `GattWriteQueue`, `HalfDuplex`, `AnnounceHandshake`, `BitChatMesh`, `ConnectionHook`,
   `PeerDirectory` and `Framing`.

What is left: every safety property of the passing runs is proved. The V4 JSON fallback of
the codec, TTS queueing and the MTU negotiation could join `Framing`, `HalfDuplex` and
`ConnectionManager`.

## 3. The modules and the code

The file `PROJECT.json` names, for each definition, the lines it stands for. A
handler of the JavaScript thread is one action up to its first `await`; what
follows the `await` is another. A block under a Kotlin monitor is one action.
Definitions named `Mut...`, and those named after the one they replace with a suffix
(`Forwarded_sameTtl`), are deliberate errors, used to see that each property can fail;
no specification uses them.

**ReliableSender.** One peer's `ReliabilityManager`. The suspended loops of
`sendInitialData` and `retransmit` are the entries of `writes`, the FIFO of frames
given to the native layer: a loop always has exactly one frame outstanding. An
entry carries the generation its loop was started with (0 for an initial send). The
peer may acknowledge any message that was given to `send`, as often as it likes, or
refuse a registered group; a timer may fire whenever it is armed. `Cancel` is the
disconnect.

**ReliableReceiver**, **ReliableLink**, **OrderedDelivery.** The receiver handles a
frame in the step in which it leaves the radio, since its handler touches only its
own state and emits an ACK, which is delayed as long as you like. Frames and ACKs
may be lost. No code generates a NACK (`buildNackPayload` and `canNack` have no
caller), so NACKs occur in `ReliableSender` only. `OrderedDelivery` says what a
user relies on: messages are spoken once and in the order of sending, some are
lost, and one counts as acknowledged only if it was spoken
(`.plans/master_plan.md:116`, "Never claim delivery without ACK"). `ReliableLink`
implements it (`ImplementsOrderedDelivery`, a refinement through `INSTANCE`), if no message
has more fragments than one message has transmissions (`ShortMessages`, see section 7).
A group under reassembly is looked up by its message (`HasGroup`, `GroupIndex`).
The time-based `cleanup` of the two caches has no caller and is not modelled.

**HalfDuplex.** Two phones. `out` holds control frames given to the native send,
`chan` frames delivered and not yet handled, `calls` the calls of
`requestTxOwnership` that wait, `checking` the calls of `beginPttTurn` that await
the native connection queries. A write may be reported as failed after the frame was
delivered. A denial is a GRANT with no token. `SetTxOwner` is `setTxOwner` with its watchdog:
`timers` holds the watchdogs that run, each named by the token of the turn it was armed for, and
`watchdog` the one the ref holds. Whether the route is ready is a
nondeterministic refusal (it is the subject of `AnnounceHandshake`). A link is made
again only when both phones have handled the disconnect and their writes have
settled. Left out: TTS playback, errors of `startListening`, presses while voice mode
is off (they only record locally).

**GattWriteQueue.** Writes are numbered in the order in which they are enqueued.
A thread that sends passes the connection check (`sending`), enqueues, and waits
(`awaiting`) until the callback or the ten-second timeout. The Bluetooth stack
completes, fails or loses a submitted write; it accepts writes on a link that has
just died. Completions and the disconnect callback come on Binder threads in the
order in which the stack posted them. `stop()` of the server clears every queue.
React Native calls the module from one native-modules thread; the queue promises
more, so the model has several senders, and the one is a case of it.

**AnnounceHandshake.** `events` is the queue of native events and replies of one
hook, in order; `sends` the ANNOUNCEs given to the native send; `creations` the
calls that await the stored node id before they create the adapter. A new link
is made only after the sends on the previous one have settled, because the native
layer fails them when it sees the disconnect. Toggling voice mode reruns the
effect, whose cleanup clears the retry timers. Unmounting of the hook is not
modelled. `early` and `heard` are history variables for the properties.

**PeerDirectory.** One phone and all the keys under which it may reach others.
`peerMap` and `reverse` are the adapter's two indexes, `state` the `PeerRegistry`,
`discovered` the `MeshDiscoveryRegistry` in insertion order, `shown` the list the
subscribed screen last got. `live` is the truth about the links, which the hook
learns from `events` only: a connection may drop without an event (`silent`), be
overtaken, or come back with another node id, up to `MaxFaults` times. A CONNECTED event and the
reconciliation drop routes without `notify()`: `unsaid` holds those nodes until the next list, and
`ShownRoutes` names the exception. Hop count, reporter and last-seen time of a
discovered node decide nothing and are left out. No code sends a DISCOVERY; the
handler of a received one is modelled.

**BitChatMesh.** Every phone runs the same engine: `seen` is its duplicate cache in
insertion order, `evicted` (history) what fell out of it, `air[p][q]` the frames
between two phones in order. Originating and forwarding give a packet to each route
of the moment; a send may fail (`failures`), routes come and go (`churn`). `Originate` is one
turn of the voice or chat sender, through `AdapterOriginate` and `RelayOriginate` below it. `shown`
counts what the application got, `held` the fragments of a reassembler, keyed as the
code keys them: by the BLE neighbour for voice, by the source for chat. The
retention time of the cache is never applied (`pruneExpired` has no caller).

**ConnectionManager**, **ConnectionHook.** The native half has, per device, a GATT
client and a server link, and per key the entry of `peerStates` with its role; a
device has a raw key until a scan names it. `GattConnect`, `CancelConnection` and `OnConnectedAs`
are what the manager calls of, or hears from, the two roles. `toNative` and `toJs` are the two
directions of the React Native bridge, in order. The other half is every mounted
instance of `useBLE`: `peers`, `pending` connects, and the hydration with the keys
touched since it was asked; `PeerRows` and `Row` are the list that ConnectScreen makes of it, whose
buttons are the user's presses. `inputs` (links and presses
together) and `faults` are bounded. A hydration asks `isBluetoothEnabled` and `getDeviceId`, then takes its
snapshot of the watermarks and asks for the list, then for the states; buttons and events go on meanwhile. `silent`
(history) holds the keys native dropped without an event, `unheard` (history) the peers whose
CONNECT was pressed, or cleaned up after an error, between the snapshot and the end of a hydration and of
which no event was heard since.

**Framing.** One phone writes, one reads, on one of three paths (direct, mesh, chat).
A text is a sequence of characters, each with its width; a byte is named by the
character it is part of, so where a message is cut, and that it is cut right, is all
the model keeps of the bytes. Sizes of headers and payload, the fragment limit and half the
range of the sequence numbers (`HALF`) are parameters. The direct path is a FIFO (`wire`), the mesh a
set (`packets`), since nothing orders what comes over it. The link may be lost and the
writer's process restarted; a restart of the reader, which loses its groups and caches, is left out. Frames are
lost, cut short, reordered or sent again. UTF-8, cutting and joining (`Utf8Encode`, `Utf8Decode`,
`Joined`) are flattened sequences of what each character or piece gives. `arrived`, `heard` and the
true number behind each wrapped one are history. The V4 JSON fallback is left out.

## 4. The runs

Nine runs pass; each is one question. States and times are of two workers.

| Run | Instance | Shows |
|---|---|---|
| `ReliableSender` | 3 messages (active, queued and one that replaces it), one with 2 fragments, `MAX_RETRIES` 3 as in the code; 85 thousand states | the loop, queue, drive and retry-budget invariants, silence of stale loops and, under fairness, `ActiveEventuallySettles` |
| `ReliableLink` | 3 messages, two of 2 fragments; one reassembly group, caches of one entry; 576 thousand | `NoReassemblyOfCompletedGroup` and the refinement of `OrderedDelivery` |
| `HalfDuplex` | 2 presses against 1, one loss of link or switch-off, at most three of all these; 1.9 million, two minutes | `NoOwnerWithoutLink`, `OwnerHoldsToken`, `PendingIsBounded`, `WatchdogIsOfThisTurn` |
| `GattWriteQueue` | a client connection, a served peer, 2 threads, 3 writes, one reconnection, one stop; 1.1 million, a minute | `NothingIsStranded`, `CallbackOnce`, `OrderIsKept`, `OneWriteInTheAir`, `NoFalseSuccess`, `LiveLinkSettles` |
| `AnnounceHandshake` | two symmetric phones, one retry, three of links, failed sends and toggles in total; 8.7 million, two minutes | `RouteIsOfThisLink`, `AnnouncedOnThisLink`, `RoutesReadyAtRest` |
| `BitChatMesh` | 3 phones in range of each other, of which two know only the third at first; a chat message of 2 packets and a broadcast voice message, cache of 2, TTL 3, one fault; 135 thousand | `DeliveredOnce`, `SentIsSomewhere`, and under fairness `FloodDiesOut`, `SentReachesAddressees` |
| `ConnectionHook` | 2 devices, one known only after a scan; three links and presses in all, one fault, ConnectScreen opened once; 6.2 million, two minutes | `ClientEntryHasGatt`, `ServerEntryHasLink`, `ConnectedIsShown`, `OnlySilentGhosts` |
| `PeerDirectory` | 2 keys, 3 nodes (symmetric), 2 discovery entries, retention 1 of 2 ticks, 2 events waiting, one fault; 4.9 million, two minutes | `Bijective`, `ConnectedIffMapped`, `RouteIsLive`, `ShownRoutes`, `FreshestAreKept`, `OthersUntouched` |
| `Framing` | headers of 1 or 2 bytes, 9 bytes of payload, 3 fragments, one group, 8 numbers (`HALF` 4), 4 texts, 2 messages, one fault, one resend; 2.0 million, two minutes | `FramingTypeOK`, `OnlyWhatWasWritten`, `CompleteIsHeard`, `CutsFit`, `VerdictsAreTrue` |

Why the bounds are enough. The sender has two slots, so a third message is the
first that replaces or follows; a fragmented message is what makes a loop last
longer than one write, and two fragments are the shortest loop that an event can
interrupt. Caches and groups of size one make eviction happen as early as it can,
the worst case for delivering once. Half-duplex interference needs one stale
request and one fresh one, which two presses give, and an opponent. For the write
queue one write in the air, one waiting behind it and one enqueued late are the
cases of the code; a link and its successor suffice for stale completions. For the
announcement, a link lost and made again and one further failure give every stale
event; one retry keeps "retries left" and "no retries left" apart. In the mesh,
three phones are the first with both a direct and a relayed copy, and a cache of two under three
packets evicts. For the connections, two devices are what an
error without a name confuses, and two links what a late disconnect confuses; three links
and presses in all leave a press for each order of those. A node
that changes its key needs two keys, and eviction from a table of two a third
node. In `Framing` the four texts are: nothing after trimming, a text with a surrogate
pair and an unpaired half that fills a direct frame exactly and so no mesh packet,
a fragmented one with wide characters across the cuts, and one
that is too long; eight sequence numbers wrap and turn negative within a run.

`CHECK_DEADLOCK FALSE` is set where the system may rest: the users press no more,
a link is quiet, the manager was dropped.

### Findings: three runs that are expected to fail

| Run | Property | What the code does |
|---|---|---|
| `HalfDuplex_owners` | `OneOwner` | when REQUESTs cross both phones grant, and the GRANT handler never looks at the owner: both own the direction (`HOOK:915`) |
| `BitChatMesh_long` | `LongVoiceIsReassembled` | the reassembler of mesh voice is keyed by the neighbour a packet came from: when two packets of one message come over two neighbours, it is never whole (`HOOK:543`) |
| `ConnectionHook_failed` | `FailedPeerIsReconciled` | a failed write removes the native entry and posts an error that names no peer; the later disconnect then finds no entry and posts nothing, and the screens show the peer CONNECTED for good (`CM:373`) |

Each states what a comment of the code promises; the entries under `findings` in
`PROJECT.json` quote the comments.

## 5. Fairness

Every fairness condition is weak and stands for one mechanism of the platform.
- `ReliableSender`: `HeadTransmitted` and `WriteSettled`, since the native wait for
  a write ends after at most ten seconds; `HandleTimeout`, since a JavaScript timer
  that stays armed fires. ACKs, NACKs and disconnects are never assumed.
- `GattWriteQueue`: `StackProceeds` as a whole: as long as the stack has something to
  complete, to call back or to remove, it does one of these. No sender is assumed to come.
- `BitChatMesh`: `SomePhoneReceives`: while frames are under way, some phone takes
  one. Nothing is assumed of a single link or phone.
- `AnnounceHandshake`, `ConnectionHook`, `PeerDirectory` and `Framing` state their progress as
  state properties at rest (`RoutesReadyAtRest`, `ConnectedIsShown`, `CompleteIsHeard`: when nothing
  is pending, it is done), which need no fairness. `HalfDuplex` states what ends a turn or a request as
  what is there to end it (`WatchdogIsOfThisTurn`, `PendingIsBounded`: a timer runs, or a write is
  outstanding); that a JavaScript timer left alone fires is the platform's part.

## 6. Proofs

`tlapm` proves the theorems below for every value of the constants; among them is every state and
action property of the passing runs. They assume only
what the modules assume, under names: messages have at least one fragment, `NoMessage`,
`NoKey` and `None` are none of the others, limits and bounds are naturals, clients and
served peers are disjoint, there are exactly two phones on a direct link, radio range is mutual,
keys are finitely many and different devices have different ones, and the smallest piece a mesh
packet may be cut into has room for a packet header.

*ReliableLink_proofs*, the sender. `SenderInvariant`, then `TypeCorrect`, `FlagIsTruthful`,
`AckedLeavesSlot`, `QueueIsOrdered`, `NoSilentStall` and, as an action property,
`StaleLoopsAreSilent`. `LoopMatchesFlag` alone is not inductive: when a stale loop
settles, nothing in it says that its message is no longer active, so a model step could
send it on. `LoopsMatch` adds that no entry has a generation of the future and
that every retransmission entry of the active message is of the current generation, and
`SlotsInv` relates the slots to the acknowledged set and to the timer. The proof has one
lemma per action, and lemmas about the loops (a loop abandoned, started, continued,
settled) that the actions share. `RetransmissionsAlwaysBounded` pays for generations: each
message that has left both slots has cost at most `MAX_RETRIES` + 1, the active one as
many as its retry count, a disconnect one (`BudgetInv`).

*ReliableLink_proofs*, the link. `LinkImplementsDelivery`: the steps of `OrderedDelivery` are simulated by
those of the link. The mapping needs that messages are spoken in the order of sending, which is where
the two ends meet. The frames waiting for the radio stand in that order and a retransmitted copy
never overtakes the first pass of its message (`QueueOrder`); what was spoken or collected of a
message is behind what that first pass still has to write (`QueueVersusPeer`); and a first pass outlives
its message's turn by one frame at most (`LoopsInTurn`). `PeerInv` says what the receiver
knows: its caches, groups and ACKs are of messages that were sent, and the last one spoken is the
newest. A retry of the active message is paid for by a frame of its first pass, so a message is given
up with more than one of its frames to write only if it has more frames than retries, which
`ShortMessages` excludes; it is a hypothesis of the theorem, used in that one case, and the run's
instance satisfies it. `CompletedGroupsStayDone` and `AckedWasSpoken` need no such hypothesis.

*GattWriteQueue_proofs.* `QueueInvariant`, then `TypeCorrect`, `NeverStranded`,
`CallbackExactlyOnce`, `FragmentOrder`. That a callback runs once needs to know
where a write is: queued writes are untold and of that key, untold writes are queued,
queues are sorted, only the head was given to the stack, callbacks of a key run in order
(`Inv`). Enqueueing, completion, refusal and clearing all cut or extend queues, so the
lemmas are about those cuts (`PollPreserves`, `ClearPreserves`, `AppendPreserves`,
`RefusePreserves`), and the actions combine them. `StackFollowsQueue` then says whose completion is
outstanding (`AirInv`): while no server was stopped, what is between submission and
callback on a connection still listened to is the head of its queue, and on a dead link the stack keeps
nothing. `OneAtATime` and `SuccessIsReal` are parts of it.

*HalfDuplex_proofs.* `TypeAlwaysOK`, `OwnerAlwaysHoldsToken`, `NeverOwnerWithoutLink`,
`PendingAlwaysBounded`, `WatchdogAlwaysOfThisTurn`. `LockInv` adds to the types where tokens and requests may still
be: every GRANT under way carries a token its sender has minted (`TokensAreMinted`), a
phone that owns, or takes the peer for the owner, knows that peer, and nothing is delivered
over a link that is down. A watchdog is cleared through the ref, so `WatchdogIsHeld` says that the ref
holds the one that runs; that this one is of the present turn follows because no token is minted, for a
request or for another grant, while the peer owns the direction.

*AnnounceHandshake_proofs.* `RouteAlwaysOfThisLink` and `AlwaysAnnouncedOnThisLink`. A
stale route could come from anything that is still on its way when a link changes, so
`RouteInv` says of each what link it is of: what waits behind the last connection event
(`EventsAreCurrent`) and an ANNOUNCE on the air (`AirIsHeard`) are of the present one, a
peer taken as connected is linked, and a hook that is not mounted has learnt nothing.
`RoutesAlwaysReadyAtRest` needs an account of the failed sends. On a link made between two
phones with adapters and with voice mode left alone, what a phone was given it learns
(`HeardIsLearnt`), and each attempt of a phone that is no longer under way and reached nobody was
paid for by one failed send, the failures of the link being shared out between its two phones
(`FailuresAreShared`). A phone without a route at rest means that all attempts of its peer
failed. The peer either has a route of its own, and then made one attempt more than a
schedule holds, or has none, and then the phone's own schedule failed as well: more failures
than the property allows in both cases.

*BitChatMesh_proofs.* `AlwaysDeliveredOnce`, `SentIsAlwaysSomewhere`. Whatever is in the
air, held by a reassembler or shown was marked by the phone that has it (`AirIsMarked`, `HeldIsMarked`,
`ShownIsMarked`), and a packet accepted by a neighbour is in the air or received
(`AcceptedIsSomewhere`).

*ConnectionHook_proofs.* `ClientEntryAlwaysHasGatt`, `ServerEntryAlwaysHasLink`, in the
composition with every mounted screen, then `ConnectedIsAlwaysShown` and `GhostsAreSilent`. The client's property is inductive with its types alone; the
server's needs what may stand on the bridge (`QueuesTyped`) and that an entry
under a device's own key was made after a scan (`ServerKeyWasScanned`). The last two are about a
bridge at rest, so their invariant `HookInv` is about one that is not. Whatever shows a peer that
native does not have, in a screen's map, in a hydration's finds or in an answer or event still on
the bridge, is taken back by a BLE_DISCONNECTED behind it (`AbsenceIsTold`); whatever hides a live
peer is made good by a BLE_CONNECTED behind it, or the hydration has yet to ask for that
peer (`PresenceIsTold`); and each question of a hydration is on the bridge once, so an
answer is never taken for another (`QueriesOnce`, `QueriesAwaited`). A peer that was touched since the
snapshot is hidden from the hydration, and owed an event, unless the touch was a press or an error's
clean-up, which is what `unheard` remembers. At rest nothing is
behind anything, and both properties follow.

*PeerDirectory_proofs.* `BijectiveAlways`, `ConnectedIffMappedAlways` (together with the
types inductive: `DirectMap`), the action property `OthersUntouchedAlways`, then
`ShownRoutesAlways`, and `RouteAlwaysLive`, which needs an invariant of the event queue:
the last event about a link that is up agrees with the link, and an ANNOUNCE waits only where
the hook will count its link as connected when it comes to it (`QueueInv`). `FreshestAlwaysKept` adds the
registry (`RegistryInv`): its entries carry the time they were last heard of, and a node that is
missing is stale or no fresher than any of a full table. Pruning is a recursive function on lengths,
and eviction a choice of the least; what they return is shown by taking the least length at
which it would fail.

*Framing_proofs.* First the codecs, which are about data of any length: `Utf8RoundTrip`,
`PacketRoundTrip` and `JoinedIsPacket`. The provers cannot take a formula as a parameter of an
induction theorem, but a set they can: the numbers up to which something fails have a least
member, because inclusion of finite sets is well-founded (`LeastNatural`, `UpTo`). With it a
flattened sequence is given the offsets at which its parts begin (`Spells`, `Places`), and every byte a
place in one character, so that decoding undoes encoding. Then `InductiveInvariant`. That only what was
written is heard needs to know where each byte under way is from: payloads in a send loop are
pieces of messages (`OutboxOK`), a frame in the air carries such a piece or less of it than it
declares (`FrameOK`), so a frame cut short is refused, and a group holds pieces of one message and
never all of them (`GroupOf`). A second message could join a group only through its id, and no two
messages that are cut share one (`MessagesOK`), over a restart of the writer too, because a new
process starts its ids apart from the old (`ProcessSeed`, see section 7). `ArrivedOK` ties the history of `CompleteIsHeard` to what the groups hold, and
`NumbersOK` (numbers grow along the wire, and none on it was read) gives `VerdictsAreTrue` with the
arithmetic of signed residues (`SignedOf`). `FramingTypes`, `HeardIsWritten`,
`CompleteMessagesAreHeard`, `EveryCutFits` and `TrueVerdicts` follow.

Model-checked only: all liveness (`ActiveEventuallySettles`, `LiveLinkSettles`,
`FloodDiesOut`, `SentReachesAddressees`), which is out of the
prover's reach.

## 7. What the properties do not say

- A message with more than `MAX_RETRIES` + 1 fragments may be given up while the first pass
  over its fragments is still being written: the timer runs from the last write of the message
  before it. The next message can then be spoken first, so for such messages the link does not implement
  `OrderedDelivery` (five fragments and three retries show it). No document promises that order; a
  message of four fragments holds a long spoken sentence.
- A message whose initial send throws stays in the active slot for good: nothing
  in the code expires it (`PENDING_EXPIRY_MS` has no use). `ActiveIsDriven` and
  `ActiveEventuallySettles` name this exception (`failedSends`).
- Voice may be sent by a phone that owns nothing: the release of the button ends the turn before the
  speech result is there (`HOOK:1169`, `HomeScreen.tsx:175`). A call that waits for a GRANT may never
  return when the failing write of an older REQUEST deletes its resolver (`HOOK:819`);
  `PendingIsBounded` is about calls that still have one.
- The comment at `HOOK:266` says that the deadline of a remote turn is "Refreshed on every voice frame
  received from the owning peer". No code does that: the watchdog is armed by `setTxOwner` only, as
  in the model, and a turn of the peer that lasts longer than twelve seconds is cut off.
- `OneWriteInTheAir` and `NoFalseSuccess` hold only while the server is not stopped:
  `stop()` empties the queues while a notification may be in the air, and its completion
  is credited to the first write of the next session. A send that races `disconnect()`
  may leave its write in the queue of a closed connection (`BLEGattClient.kt:240`); its
  caller gives up after ten seconds.
- `RoutesReadyAtRest` is for links made when both adapters exist and on which voice
  mode is left alone, with no more failed sends than a schedule holds. A send that settles after the
  next link was reported is excluded (section 3). An ANNOUNCE that
  reached a phone which could not process it counts as made (`HOOK:994`).
- With two links to one peer the newer takes the mapping; when it drops, the older one,
  still up, has no route until its next ANNOUNCE. No property excludes it.
- `ConnectedIsShown` names one exception. CONNECT is pressed on a peer that is connected but not
  shown yet, after the hydration's snapshot (the screen has no guard, `ConnectScreen.tsx:173`): the press
  raises the watermark, so the hydration leaves the entry alone, and native refuses the call with
  ALREADY_CONNECTED. `useBLE.ts:505` leaves the entry CONNECTING, "events will reconcile it", but the
  event has been and gone. If an error that names no peer arrives in between (`useBLE.ts:336`), the entry
  is removed instead, and the peer is not shown at all.
- `OnlySilentGhosts` says an entry has native's behind it, not that it is of the same state. With two
  connects pending, an error that names no peer leaves both CONNECTING (`useBLE.ts:336`). A
  device scanned after it had connected under its raw address keeps that entry too,
  and disconnecting an unscanned server peer removes the entry without cancelling the link
  (`CM:165`). `ServerEntryHasLink` names the first of these.
- `SentReachesAddressees` is for networks no larger than the TTL, and its run for three phones in range
  of each other: the chat message goes to a phone its author has a route to, and only the broadcast
  voice message depends on a relay. Chat with a discovered node several hops away is not in the run. A copy with the smaller TTL
  that comes first suppresses the other; on longer paths nothing is promised.
- `VerdictsAreTrue` is about the verdict given two numbers. `HOOK` consults the validator for
  V6A frames only, while control and mesh frames take numbers as well, so a
  reported gap need not be a loss.
- In `Framing` a new process never meets a group id of the one before. The code draws 32
  random bits, which makes it likely, not sure; and it masks ids to 32 bits, which the model does not.
- `CutsFit` is about fragments of a text. The native listener throws for a text of
  more than 62,720 bytes, which recognition does not produce.
- The bounds of `Framing`'s caches are those of `ReliableReceiver`; the two modules
  share the reassembler but ask different things of it.

Not modelled, for good: audio and speech engines (numeric or vendor code), scanner and
advertiser (calls of the platform; what a scan finds is an input of
`ConnectionManager`), the diagnostic local loop and the model scheduler (sequential,
one phone), presentation of the screens, vendored code. Left out of modelled
parts: TTS playback, MTU negotiation, statistics, signature and storage of the
identity, the V4 JSON fallback, unmounting of the voice hook, `disconnectAll` and the
start and stop of scan and server in `CM`, the scanning flags and error texts of `useBLE`,
and what has no caller (`pruneStale`, `pruneExpired`, the caches' `cleanup`).

## 8. Running it

    tlc -workers 2 -config ReliableSender.cfg MC_ReliableSender
    tlapm ReliableLink_proofs.tla

The longest runs take about two minutes.
