--------------------------- MODULE GattWriteQueue ---------------------------
(***************************************************************************)
(* GattWriteQueue.kt: one FIFO of GATT writes per connection key, of which *)
(* only the head is handed to the Bluetooth stack, with the code that      *)
(* calls it: BLEGattClient (a key per client-role connection) and          *)
(* BLEGattServer (a key per remote address), whose send() checks the       *)
(* connection, enqueues and blocks on a latch for at most ten seconds.     *)
(*                                                                         *)
(* The queue is guarded by one monitor, so each of its operations is one   *)
(* action.  The caller's connection check, its enqueue, the completion     *)
(* callback and the disconnect callback are separate actions: they run on  *)
(* different threads and nothing orders them.                              *)
(***************************************************************************)
EXTENDS Naturals, Sequences, FiniteSets

CONSTANTS
  ClientConn,     \* client-role connections: "client-<identityHashCode>" keys
  ServerPeer,     \* remote addresses served by the GATT server
  NoKey,          \* not a key
  Thread,         \* the threads that call BLEModule's methods
  MaxWrites,      \* bound: writes ever enqueued
  MaxReconnects,  \* bound: links a server peer makes after its first
  MaxStops        \* bound: times the GATT server is stopped

Key == ClientConn \cup ServerPeer
Write == 1..MaxWrites

ASSUME KeyAssumption ==
  /\ ClientConn \cap ServerPeer = {}
  /\ NoKey \notin Key
ASSUME BoundAssumption ==
  /\ MaxWrites \in Nat
  /\ MaxReconnects \in Nat
  /\ MaxStops \in Nat

VARIABLES
  queues,      \* HashMap: key -> its pending writes, the head first
  inFlight,    \* keys whose head was submitted and has not completed
  count,       \* writes enqueued so far: they are numbered in that order
  keyOf,       \* the key a write was enqueued under
  told,        \* how many times a write's callback was invoked
  succeeded,   \* writes whose callback was invoked with true
  sending,     \* key for which a thread passed send()'s check, else NoKey
  awaiting,    \* write whose latch a thread waits on, else 0
  air,         \* what the Bluetooth stack did with a write
  callbacks,   \* writes whose completion callback is on its way
  link,        \* "up" or "down": the radio link of a key
  conn,        \* what the code believes of the connection of a key
  reconnects, stops

queueVars == <<queues, inFlight, count, keyOf, told, succeeded>>
linkVars == <<link, conn, reconnects, stops>>
vars == <<queues, inFlight, count, keyOf, told, succeeded, sending, awaiting,
          air, callbacks, link, conn, reconnects, stops>>

Air == {"none", "pending", "done", "failed", "lost"}

TypeOK ==
  /\ DOMAIN queues \subseteq Key
  /\ \A k \in DOMAIN queues : queues[k] \in Seq(Write)
  /\ inFlight \subseteq Key
  /\ count \in 0..MaxWrites
  /\ keyOf \in [Write -> Key \cup {NoKey}]
  /\ told \in [Write -> 0..1]
  /\ succeeded \subseteq Write
  /\ sending \in [Thread -> Key \cup {NoKey}]
  /\ awaiting \in [Thread -> 0..MaxWrites]
  /\ air \in [Write -> Air]
  /\ callbacks \subseteq Write
  /\ link \in [Key -> {"up", "down"}]
  /\ conn \in [Key -> {"open", "closing", "closed"}]
  /\ reconnects \in 0..MaxReconnects
  /\ stops \in 0..MaxStops

Init ==
  /\ queues = [k \in {} |-> <<>>]
  /\ inFlight = {}
  /\ count = 0
  /\ keyOf = [w \in Write |-> NoKey]
  /\ told = [w \in Write |-> 0]
  /\ succeeded = {}
  /\ sending = [t \in Thread |-> NoKey]
  /\ awaiting = [t \in Thread |-> 0]
  /\ air = [w \in Write |-> "none"]
  /\ callbacks = {}
  /\ link = [k \in Key |-> "up"]
  /\ conn = [k \in Key |-> "open"]
  /\ reconnects = 0
  /\ stops = 0

-----------------------------------------------------------------------------
(* The queue's private operations. *)

Elements(q) == {q[i] : i \in 1..Len(q)}

QueueOf(k) == IF k \in DOMAIN queues THEN queues[k] ELSE <<>>

\* The map with q under k; an empty queue is removed from it.
Put(k, q) ==
  IF q = <<>> THEN [j \in DOMAIN queues \ {k} |-> queues[j]]
  ELSE [j \in DOMAIN queues \cup {k} |-> IF j = k THEN q ELSE queues[j]]

\* settle(): the callbacks of the writes in T are invoked with true, of those
\* in F with false; a callback releases the latch its sender waits on.
Settle(T, F) ==
  /\ told' = [w \in Write |-> IF w \in T \cup F THEN told[w] + 1 ELSE told[w]]
  /\ succeeded' = succeeded \cup T
  /\ awaiting' = [t \in Thread |->
                    IF awaiting[t] \in T \cup F THEN 0 ELSE awaiting[t]]

\* Android refuses a write once the BluetoothGatt object is closed.  Before
\* that it may refuse or accept, on a dead link too.
MayAccept(k) == k \in ServerPeer \/ conn[k] # "closed"

\* submitHead(): the platform takes the write; on a dead link it is lost.
Submit(k, w) ==
  /\ MayAccept(k)
  /\ air' = [air EXCEPT ![w] = IF link[k] = "up" THEN "pending" ELSE "lost"]

\* Mutation: pumping polls the refused writes and submits nothing.
MutPumpLocked(k, q, n) ==
  /\ queues' = Put(k, SubSeq(q, n + 1, Len(q)))
  /\ inFlight' = inFlight \ {k} /\ UNCHANGED air

\* pumpLocked(): of the writes q left for k the first n are refused and
\* polled; the next one, if there is one, is accepted and stays as the head.
PumpLocked(k, q, n) ==
  /\ queues' = Put(k, SubSeq(q, n + 1, Len(q)))
  /\ IF n < Len(q)
     THEN Submit(k, q[n + 1]) /\ inFlight' = inFlight \cup {k}
     ELSE inFlight' = inFlight \ {k} /\ UNCHANGED air

Refused(q, n) == {q[i] : i \in 1..n}

-----------------------------------------------------------------------------
(* The native-module thread: send(), disconnect(), stop(). *)

Free(t) == sending[t] = NoKey /\ awaiting[t] = 0

\* send(): the connection is looked up, before the write is enqueued.
CheckConnected(t, k) ==
  /\ Free(t)
  /\ conn[k] = "open"
  /\ sending' = [sending EXCEPT ![t] = k]
  /\ UNCHANGED <<queueVars, awaiting, air, callbacks, linkVars>>

\* Mutation: the new write is put right behind the one in flight.
MutEnqueueBuffered(k, w) ==
  /\ k \in inFlight
  /\ queues' = Put(k, <<Head(QueueOf(k)), w>> \o Tail(QueueOf(k)))
  /\ UNCHANGED <<inFlight, told, succeeded, air>>

\* enqueue() behind a write in flight: the new one is buffered.
EnqueueBuffered(k, w) ==
  /\ k \in inFlight
  /\ queues' = Put(k, Append(QueueOf(k), w))
  /\ UNCHANGED <<inFlight, told, succeeded, air>>

\* enqueue() with nothing in flight: the head is submitted.
EnqueueAccepted(k, w) ==
  LET q == Append(QueueOf(k), w) IN
  /\ k \notin inFlight
  /\ Submit(k, Head(q))
  /\ queues' = Put(k, q)
  /\ inFlight' = inFlight \cup {k}
  /\ UNCHANGED <<told, succeeded>>

\* enqueue() with nothing in flight and the head refused: it is polled, the
\* new write's callback gets false and the rest is pumped.
EnqueueRefused(k, w) ==
  LET q == Tail(Append(QueueOf(k), w)) IN
  /\ k \notin inFlight
  /\ \E n \in 0..Len(q) :
       /\ PumpLocked(k, q, n)
       /\ Settle({}, {w} \cup Refused(q, n))

\* enqueue() and the start of the ten-second wait on its latch, which a
\* refused write has released already.
Enqueue(t) ==
  LET k == sending[t]
      w == count + 1
  IN /\ k # NoKey
     /\ w <= MaxWrites
     /\ sending' = [sending EXCEPT ![t] = NoKey]
     /\ count' = w
     /\ keyOf' = [keyOf EXCEPT ![w] = k]
     /\ \/ /\ EnqueueBuffered(k, w) \/ EnqueueAccepted(k, w)
           /\ awaiting' = [awaiting EXCEPT ![t] = w]
        \/ EnqueueRefused(k, w)
     /\ UNCHANGED <<callbacks, linkVars>>

\* Mutation: giving up also takes the write out of the queue and pumps it.
MutAwaitTimeout(t) ==
  LET k == keyOf[awaiting[t]] IN
  /\ awaiting[t] # 0
  /\ awaiting[t] = Head(QueueOf(k))
  /\ \E n \in 0..Len(Tail(queues[k])) :
       /\ PumpLocked(k, Tail(queues[k]), n)
       /\ Settle({}, {awaiting[t]} \cup Refused(Tail(queues[k]), n))
  /\ UNCHANGED <<count, keyOf, sending, callbacks, linkVars>>

\* await(10): the sender gives up; the write stays where it is.
AwaitTimeout(t) ==
  /\ awaiting[t] # 0
  /\ awaiting' = [awaiting EXCEPT ![t] = 0]
  /\ UNCHANGED <<queueVars, sending, air, callbacks, linkVars>>

\* Mutation: the queue is dropped, its callbacks are not invoked.
MutClear(K) ==
  /\ queues' = [k \in DOMAIN queues \ K |-> queues[k]]
  /\ inFlight' = inFlight \ (K \cap DOMAIN queues)
  /\ Settle({}, {})

\* clear() of every key in K.
Clear(K) ==
  /\ queues' = [k \in DOMAIN queues \ K |-> queues[k]]
  /\ inFlight' = inFlight \ (K \cap DOMAIN queues)
  /\ Settle({}, UNION {Elements(queues[k]) : k \in K \cap DOMAIN queues})

\* The link of the keys in K is gone: what the stack had not sent is lost.
Cut(K) ==
  /\ link' = [k \in Key |-> IF k \in K THEN "down" ELSE link[k]]
  /\ air' = [w \in Write |-> IF keyOf[w] \in K /\ air[w] = "pending"
                             THEN "lost" ELSE air[w]]

Close(K) == conn' = [k \in Key |-> IF k \in K THEN "closed" ELSE conn[k]]

\* BLEGattClient.disconnect(deviceId): close the gatt object, clear the
\* queue, remove the connection.
Disconnect(t, k) ==
  /\ Free(t)
  /\ k \in ClientConn
  /\ conn[k] # "closed"
  /\ Cut({k})
  /\ Clear({k})
  /\ Close({k})
  /\ UNCHANGED <<count, keyOf, sending, callbacks, reconnects, stops>>

\* BLEGattClient.disconnect() for all peers: the connections are removed and
\* closed; no queue is cleared.
DisconnectAll(t) ==
  /\ Free(t)
  /\ \E k \in ClientConn : conn[k] # "closed"
  /\ Cut(ClientConn)
  /\ Close(ClientConn)
  /\ UNCHANGED <<queueVars, sending, awaiting, callbacks, reconnects, stops>>

\* BLEGattServer.stop(), behind stopAdvertising: the clients are dropped
\* and every queue is cleared, the client-role ones with the server's own.
StopServer(t) ==
  /\ Free(t)
  /\ stops < MaxStops
  /\ stops' = stops + 1
  /\ Cut(ServerPeer)
  /\ Close(ServerPeer)
  /\ Clear(Key)
  /\ UNCHANGED <<count, keyOf, sending, callbacks, reconnects>>

-----------------------------------------------------------------------------
(* The Bluetooth stack and its Binder threads. *)

\* The stack finishes a submitted write and posts the completion callback.
Complete(w) ==
  /\ air[w] = "pending"
  /\ \E outcome \in {"done", "failed"} : air' = [air EXCEPT ![w] = outcome]
  /\ callbacks' = callbacks \cup {w}
  /\ UNCHANGED <<queueVars, sending, awaiting, linkVars>>

\* notifyCompleted() of key k: the head is popped and told the result, and
\* the queue is pumped.  With nothing in flight it does nothing.
NotifyCompleted(k, ok) ==
  IF k \in DOMAIN queues /\ k \in inFlight
  THEN LET head == Head(queues[k])
           q == Tail(queues[k])
       IN \E n \in 0..Len(q) :
            /\ PumpLocked(k, q, n)
            /\ IF ok THEN Settle({head}, Refused(q, n))
               ELSE Settle({}, {head} \cup Refused(q, n))
  ELSE UNCHANGED <<queues, inFlight, told, succeeded, awaiting, air>>

\* onCharacteristicWrite drops a callback of a removed connection;
\* onNotificationSent takes any callback that names the address.
Valid(k) == k \in ServerPeer \/ conn[k] # "closed"

\* Mutation: the status of the callback is ignored.
MutOnWritten(w) ==
  /\ w \in callbacks
  /\ callbacks' = callbacks \ {w}
  /\ IF Valid(keyOf[w]) THEN NotifyCompleted(keyOf[w], TRUE)
     ELSE UNCHANGED <<queues, inFlight, told, succeeded, awaiting, air>>
  /\ UNCHANGED <<count, keyOf, sending, linkVars>>

\* The completion callback reaches the app.
OnWritten(w) ==
  /\ w \in callbacks
  /\ callbacks' = callbacks \ {w}
  /\ IF Valid(keyOf[w]) THEN NotifyCompleted(keyOf[w], air[w] = "done")
     ELSE UNCHANGED <<queues, inFlight, told, succeeded, awaiting, air>>
  /\ UNCHANGED <<count, keyOf, sending, linkVars>>

LinkLost(k) ==
  /\ link[k] = "up"
  /\ Cut({k})
  /\ UNCHANGED <<queueVars, sending, awaiting, callbacks, conn, reconnects, stops>>

\* The stack posts a link's callbacks in order.
CallbacksDelivered(k) == \A w \in callbacks : keyOf[w] # k

\* onConnectionStateChange(DISCONNECTED): the queue is cleared.  The client
\* side closes the gatt object and removes the connection only later.
OnDisconnected(k) ==
  /\ link[k] = "down"
  /\ conn[k] = "open"
  /\ CallbacksDelivered(k)
  /\ Clear({k})
  /\ conn' = [conn EXCEPT ![k] = IF k \in ClientConn THEN "closing" ELSE "closed"]
  /\ UNCHANGED <<count, keyOf, sending, air, callbacks, link, reconnects, stops>>

\* The rest of the client's handler, outside the queue's monitor.
RemoveConnection(k) ==
  /\ conn[k] = "closing"
  /\ Close({k})
  /\ UNCHANGED <<queueVars, sending, awaiting, air, callbacks, link, reconnects, stops>>

\* A server peer connects again.  When that callback overtakes the one of the
\* old link's loss, ServerConnectionGuard ignores the latter: the queue is
\* not cleared, by either.
Reconnect(k) ==
  /\ k \in ServerPeer
  /\ link[k] = "down"
  /\ reconnects < MaxReconnects
  /\ reconnects' = reconnects + 1
  /\ link' = [link EXCEPT ![k] = "up"]
  /\ conn' = [conn EXCEPT ![k] = "open"]
  /\ UNCHANGED <<queueVars, sending, awaiting, air, callbacks, stops>>

Next ==
  \/ \E t \in Thread :
       \/ \E k \in Key : CheckConnected(t, k) \/ Disconnect(t, k)
       \/ Enqueue(t) \/ AwaitTimeout(t)
       \/ DisconnectAll(t) \/ StopServer(t)
  \/ \E w \in Write : Complete(w) \/ OnWritten(w)
  \/ \E k \in Key : \/ LinkLost(k) \/ OnDisconnected(k)
                    \/ RemoveConnection(k) \/ Reconnect(k)

Spec == Init /\ [][Next]_vars

\* The stack completes what it accepted while the link holds, delivers its
\* callbacks, and a handler that started finishes.
StackProceeds ==
  \/ \E w \in Write : Complete(w) \/ OnWritten(w)
  \/ \E k \in Key : OnDisconnected(k) \/ RemoveConnection(k)

FairSpec == Spec /\ WF_vars(StackProceeds)

-----------------------------------------------------------------------------
(* Properties. *)

Queued(w) == \E k \in DOMAIN queues : w \in Elements(queues[k])

\* No write is stranded: a key has an entry in the map exactly while a head
\* of it is in flight, so that a later completion or clear() moves its queue.
NothingIsStranded ==
  /\ DOMAIN queues = inFlight
  /\ \A k \in DOMAIN queues : queues[k] # <<>>

\* The completion callback is invoked exactly once: never while the write is
\* queued, once when it leaves the queue, whatever completes or clears it.
CallbackOnce ==
  \A w \in Write : told[w] = IF w <= count /\ ~Queued(w) THEN 1 ELSE 0

\* Writes of one connection go out in the order they were enqueued: none is
\* submitted while an older one of its key still waits for its turn.
OrderIsKept ==
  \A v, w \in Write :
    v < w /\ keyOf[v] = keyOf[w] /\ air[w] # "none" /\ told[v] = 0
      => keyOf[v] = NoKey \/ air[v] # "none"

\* A write is handed to the stack only after the callback of the one before
\* it: a key never has two of them between submission and callback.  stop()
\* of the server clears every queue behind the back of the stack, and is the
\* only call that breaks it.
OneWriteInTheAir ==
  stops = 0 =>
    \A v, w \in Write :
      /\ keyOf[v] = keyOf[w]
      /\ air[v] = "pending" \/ v \in callbacks
      /\ air[w] = "pending" \/ w \in callbacks
      => v = w

\* A callback reports success only for a write the stack completed with it
\* (unless a server was stopped, whose late completion is then taken for the
\* one of the next write).
NoFalseSuccess == stops = 0 => \A w \in succeeded : air[w] = "done"

\* A write on a client link that stays up settles, whatever the threads, the
\* server stop and the other connection do.
LiveLinkSettles ==
  <>[](\A w \in Write :
         keyOf[w] \in ClientConn /\ told[w] = 0 => link[keyOf[w]] = "down")
=============================================================================
