------------------------ MODULE ConnectionHook_proofs ------------------------
(* The connection entries of the native layer against the links below them, and
   what the instances of the hook show of them, for any number of devices, faults,
   screens, links and presses.

   The second part rests on one invariant, HookInv.  Whatever shows a peer native
   does not have is taken back by a BLE_DISCONNECTED on its way, and whatever
   hides a connected one is made good by a BLE_CONNECTED on its way; what a
   hydration still asks for is queued exactly once.  When the queues are empty,
   nothing is left to be taken back or made good. *)
EXTENDS ConnectionHook, FiniteSetTheorems, SequenceTheorems, TLAPS

\* The entries and what stands below them.
EntriesTyped ==
  /\ state \in [Key -> {"MISSING", "CONNECTING", "CONNECTED"}]
  /\ role \in [Key -> {"CLIENT", "SERVER", "STALE"}]
  /\ gatt \in [Device -> {"none", "opening", "failed", "ready"}]
  /\ server \in [Device -> {"down", "linked", "subscribed", "ending"}]
  /\ scanned \subseteq Device

ClientEntries == EntriesTyped /\ ClientEntryHasGatt

entryVars == <<state, role, gatt, server, scanned>>

\* JavaScript changes nothing of the native side but the calls it waits for.
LEMMA HookLeavesEntries == HookNext => UNCHANGED entryVars
BY DEF HookNext, entryVars, OpenConnectScreen, CloseConnectScreen, OnConnecting, OnConnected,
   OnDisconnected, OnConnectionError, PressConnect, PressDisconnect, ConnectDone,
   ConnectRefused, DisconnectDone, OnEnabled, OnDevice, AsksNext, OnIds, OnState,
   NativeIsUntouched, managerVars

LEMMA KeyOfIsKey == \A d \in Device : KeyOf(d) \in Key /\ d \in Key
BY KeysDiffer DEF KeyOf, Key, Raw, KeysDiffer

LEMMA ClientInit == Init => ClientEntries
BY KeysDiffer, KeyOfIsKey DEF Init, ManagerInit, ClientEntries, EntriesTyped, ClientEntryHasGatt, KeysDiffer

\* Taking an entry away leaves the others as they are.
LEMMA RemoveTyped ==
  ASSUME EntriesTyped, NEW k \in Key, RemoveEntry(k)
  PROVE  /\ state' \in [Key -> {"MISSING", "CONNECTING", "CONNECTED"}]
         /\ role' \in [Key -> {"CLIENT", "SERVER", "STALE"}]
         /\ state'[k] = "MISSING" /\ role'[k] = "CLIENT"
         /\ \A j \in Key \ {k} : state'[j] = state[j] /\ role'[j] = role[j]
BY DEF EntriesTyped, RemoveEntry

LEMMA NativeKeepsEntries == EntriesTyped /\ NativeNext => EntriesTyped'
<1> SUFFICES ASSUME EntriesTyped, NativeNext PROVE EntriesTyped'
  OBVIOUS
<1> USE KeyOfIsKey DEF EntriesTyped
<1>1. CASE NativeConnect \/ NativeQuery
  <2> DEFINE k == Head(toNative).key
  <2>1. /\ \/ UNCHANGED <<state, role, gatt>>
           \/ /\ state' = [state EXCEPT ![k] = "CONNECTING"]
              /\ role' = [role EXCEPT ![k] = "CLIENT"]
              /\ gatt' = [gatt EXCEPT ![k] = IF @ = "none" THEN "opening" ELSE @]
        /\ UNCHANGED <<server, scanned>>
    BY <1>1 DEF NativeConnect, NativeQuery, UpdatePeerState, GattConnect
  <2> QED BY <2>1
<1>2. CASE NativeDisconnect
  <2> DEFINE k == Head(toNative).key
  <2>1. /\ \/ UNCHANGED <<state, role, gatt>>
           \/ /\ state' = [state EXCEPT ![k] = "MISSING"]
              /\ role' = [role EXCEPT ![k] = "CLIENT"]
              /\ gatt' \in {gatt, [gatt EXCEPT ![k] = "none"]}
        /\ server' \in {server, [server EXCEPT ![k] = IF @ = "down" THEN @ ELSE "ending"]}
        /\ UNCHANGED scanned
    BY <1>2 DEF NativeDisconnect, RemoveEntry, CancelConnection
  <2> QED BY <2>1
<1>3. CASE \E d \in Device : ClientReady(d) \/ ClientSetupFails(d) \/ ClientWriteFails(d)
  BY <1>3 DEF ClientReady, ClientSetupFails, ClientWriteFails, OnConnectedAs, OnError, UpdatePeerState, RemoveEntry
<1>4. CASE \E d \in Device : ClientDrops(d) \/ ServerDrops(d) \/ ScanFinds(d)
  BY <1>4 DEF ClientDrops, ServerDrops, ScanFinds, DropEntry, RemoveEntry
<1>5. CASE \E d \in Device : ServerLinked(d) \/ ServerSubscribed(d)
  BY <1>5 DEF ServerLinked, ServerSubscribed, OnConnectedAs, UpdatePeerState
<1> QED BY <1>1, <1>2, <1>3, <1>4, <1>5 DEF NativeNext

LEMMA ClientStep == ClientEntries /\ NativeNext => ClientEntries'
<1> SUFFICES ASSUME ClientEntries, NativeNext PROVE ClientEntries'
  OBVIOUS
<1> USE KeyOfIsKey DEF ClientEntries, EntriesTyped, ClientEntryHasGatt
<1>1. CASE NativeConnect
  <2> DEFINE k == Head(toNative).key
  <2>1. /\ \/ UNCHANGED <<state, role, gatt>>
           \/ /\ state' = [state EXCEPT ![k] = "CONNECTING"]
              /\ role' = [role EXCEPT ![k] = "CLIENT"]
              /\ gatt' = [gatt EXCEPT ![k] = IF @ = "none" THEN "opening" ELSE @]
        /\ UNCHANGED <<server, scanned>>
    BY <1>1 DEF NativeConnect, UpdatePeerState, GattConnect
  <2>2. EntriesTyped'
    BY <2>1
  <2>3. ASSUME NEW d \in Device, role'[d] = "CLIENT"
        PROVE  /\ state'[d] = "CONNECTED" => gatt'[d] = "ready"
               /\ state'[d] = "CONNECTING" => gatt'[d] # "none"
    <3>1. CASE d = k
      BY <2>1, <2>3, <3>1
    <3>2. CASE d # k
      BY <2>1, <2>3, <3>2
    <3> QED BY <3>1, <3>2
  <2> QED BY <2>2, <2>3
<1>2. CASE NativeDisconnect
  <2> DEFINE k == Head(toNative).key
  <2>1. /\ \/ UNCHANGED <<state, role, gatt>>
           \/ /\ state' = [state EXCEPT ![k] = "MISSING"]
              /\ role' = [role EXCEPT ![k] = "CLIENT"]
              /\ gatt' \in {gatt, [gatt EXCEPT ![k] = "none"]}
        /\ server' \in {server, [server EXCEPT ![k] = IF @ = "down" THEN @ ELSE "ending"]}
        /\ UNCHANGED scanned
    BY <1>2 DEF NativeDisconnect, RemoveEntry, CancelConnection
  <2>2. EntriesTyped'
    BY <2>1
  <2>3. ASSUME NEW d \in Device, role'[d] = "CLIENT"
        PROVE  /\ state'[d] = "CONNECTED" => gatt'[d] = "ready"
               /\ state'[d] = "CONNECTING" => gatt'[d] # "none"
    <3>1. CASE d = k
      BY <2>1, <2>3, <3>1
    <3>2. CASE d # k
      BY <2>1, <2>3, <3>2
    <3> QED BY <3>1, <3>2
  <2> QED BY <2>2, <2>3
<1>3. CASE NativeQuery
  BY <1>3 DEF NativeQuery
<1>4. CASE \E d \in Device : ClientReady(d)
  BY <1>4 DEF ClientReady, OnConnectedAs, UpdatePeerState
<1>5. CASE \E d \in Device : ClientSetupFails(d)
  BY <1>5 DEF ClientSetupFails, OnError, RemoveEntry, Removable
<1>6. CASE \E d \in Device : ClientWriteFails(d)
  BY <1>6 DEF ClientWriteFails, OnError, RemoveEntry, Removable
<1>7. CASE \E d \in Device : ClientDrops(d)
  BY <1>7 DEF ClientDrops, DropEntry, RemoveEntry, Removable
<1>8. CASE \E d \in Device : ServerLinked(d)
  BY <1>8 DEF ServerLinked
<1>9. CASE \E d \in Device : ServerSubscribed(d)
  BY <1>9 DEF ServerSubscribed, OnConnectedAs, UpdatePeerState
<1>10. CASE \E d \in Device : ServerDrops(d)
  BY <1>10 DEF ServerDrops, DropEntry, RemoveEntry, Removable
<1>11. CASE \E d \in Device : ScanFinds(d)
  BY <1>11 DEF ScanFinds
<1> QED
  BY <1>1, <1>2, <1>3, <1>4, <1>5, <1>6, <1>7, <1>8, <1>9, <1>10, <1>11 DEF NativeNext

\* "The source of truth for connection state is peerStates": a client entry has
\* a GATT object, and a CONNECTED one a GATT object that is ready.
THEOREM ClientEntryAlwaysHasGatt == Spec => []ClientEntryHasGatt
<1>1. ClientEntries /\ [Next]_allVars => ClientEntries'
  <2> SUFFICES ASSUME ClientEntries, [Next]_allVars PROVE ClientEntries'
    OBVIOUS
  <2>1. CASE NativeNext
    BY <2>1, ClientStep
  <2>2. CASE HookNext \/ UNCHANGED allVars
    <3>1. UNCHANGED entryVars
      BY <2>2, HookLeavesEntries DEF entryVars, allVars, managerVars
    <3> QED BY <3>1 DEF entryVars, ClientEntries, EntriesTyped, ClientEntryHasGatt
  <2> QED BY <2>1, <2>2 DEF Next
<1>2. ClientEntries => ClientEntryHasGatt
  BY DEF ClientEntries
<1> QED BY <1>1, <1>2, ClientInit, PTL DEF Spec

-----------------------------------------------------------------------------
(* The server side: which calls reach native, and whose the entries are.    *)

CallSet ==
  [op : {"connect"}, key : Device, hook : Instance]
    \cup [op : {"disconnect", "state"}, key : Key, hook : Instance]
    \cup [op : {"enabled", "device", "ids"}, hook : Instance]

MessageSet ==
  [op : {"CONNECTING", "CONNECTED", "DISCONNECTED", "ERROR"}, key : Key]
    \cup [op : {"connectDone", "connectRefused", "disconnectDone"}, key : Key, hook : Instance]
    \cup [op : {"enabled", "device"}, hook : Instance]
    \cup [op : {"ids"}, hook : Instance, keys : SUBSET Key]
    \cup [op : {"state"}, hook : Instance, key : Key,
          is : {"MISSING", "CONNECTING", "CONNECTED"}]

QueuesTyped == toNative \in Seq(CallSet) /\ toJs \in Seq(MessageSet)

\* The instances of the hook.
HooksTyped ==
  /\ mounted \subseteq Instance
  /\ peers \in [Instance -> [Key -> {"NONE", "CONNECTING", "CONNECTED"}]]
  /\ pending \in [Instance -> SUBSET Key]
  /\ hydration \in [Instance -> {"off", "enabled", "device", "ids", "states", "done"}]
  /\ touched \in [Instance -> SUBSET Key]
  /\ ids \in [Instance -> SUBSET Key]
  /\ found \in [Instance -> SUBSET Key]
  /\ waits \in [Instance -> SUBSET Key]
  /\ unheard \in [Instance -> SUBSET Key]

Typed == EntriesTyped /\ QueuesTyped /\ HooksTyped

\* A server entry under the id of a device was made after a scan found it.
ServerKeyWasScanned == \A d \in Device : role[d] = "SERVER" => d \in scanned

ServerEntries ==
  Typed /\ ServerEntryHasLink /\ ServerKeyWasScanned

LEMMA OwnerOfKey ==
  /\ \A d \in Device : Owner(d) = d /\ Owner(RawKey[d]) = d /\ RawKey[d] \in Raw
  /\ \A k \in Key : Owner(k) \in Device /\ k \in {Owner(k), RawKey[Owner(k)]}
<1>1. \A d \in Device : RawKey[d] \in Raw /\ RawKey[d] \notin Device
  BY KeysDiffer DEF KeysDiffer, Raw
<1>2. \A c, d \in Device : RawKey[c] = RawKey[d] => c = d
  BY KeysDiffer DEF KeysDiffer, IsInjective
<1>3. \A d \in Device : Owner(d) = d /\ Owner(RawKey[d]) = d
  BY <1>1, <1>2 DEF Owner
<1>4. ASSUME NEW k \in Key PROVE \E d \in Device : k \in {d, RawKey[d]}
  BY DEF Key, Raw
<1> QED BY <1>1, <1>3, <1>4 DEF Owner

LEMMA CallFields ==
  ASSUME NEW c \in CallSet
  PROVE  /\ c.hook \in Instance
         /\ c.op = "connect" => c.key \in Device
         /\ c.op \in {"disconnect", "state"} => c.key \in Key
BY DEF CallSet

\* The list of the connected keys is asked about one by one.
LEMMA AskedOneByOne ==
  ASSUME NEW keys \in SUBSET Key, NEW i \in Instance
  PROVE  [n \in DOMAIN SetToSeq(keys) |-> Call("state", SetToSeq(keys)[n], i)] \in Seq(CallSet)
<1>1. IsFiniteSet(keys)
  BY FinitelyManyKeys, FS_Subset DEF FinitelyManyKeys
<1>2. Cardinality(keys) \in Nat /\ ExistsBijection(1 .. Cardinality(keys), keys)
  BY <1>1, FS_CardinalityType
<1>3. \E f \in [1 .. Cardinality(keys) -> keys] : IsInjective(f)
  BY <1>2 DEF ExistsBijection, Bijection, Injection, IsInjective
<1>4. SetToSeq(keys) \in [1 .. Cardinality(keys) -> keys]
  BY <1>3 DEF SetToSeq
<1>5. \A n \in 1 .. Cardinality(keys) : Call("state", SetToSeq(keys)[n], i) \in CallSet
  BY <1>4 DEF Call, CallSet
<1> QED BY <1>2, <1>4, <1>5

LEMMA MessageFields ==
  ASSUME NEW m \in MessageSet
  PROVE  /\ m.op \notin {"enabled", "device", "ids"} => m.key \in Key
         /\ m.op \notin {"CONNECTING", "CONNECTED", "DISCONNECTED", "ERROR"} => m.hook \in Instance
         /\ m.op = "ids" => m.keys \in SUBSET Key
         /\ m.op = "state" => m.is \in {"MISSING", "CONNECTING", "CONNECTED"}
BY DEF MessageSet

\* An available row is a scanned device without an entry, a row that is
\* CONNECTED an entry that is.
LEMMA RowIs ==
  ASSUME HooksTyped, NEW i \in Instance, NEW k \in Key
  PROVE  /\ Row(i, k, "IDLE") => i \in mounted \ {Home} /\ k \in scanned /\ peers[i][k] = "NONE"
         /\ Row(i, k, "CONNECTED") => i \in mounted \ {Home} /\ peers[i][k] = "CONNECTED"
<1>1. peers[i][k] \in {"NONE", "CONNECTING", "CONNECTED"}
  BY DEF HooksTyped
<1> QED BY <1>1 DEF Row, PeerRows

\* One answer of a hydration, and the question after it.
LEMMA AskedNext ==
  ASSUME QueuesTyped, OnEnabled \/ OnDevice
  PROVE  \E answer \in {"enabled", "device"}, question \in {"device", "ids"}, i \in Instance :
           /\ answer = "enabled" <=> question = "device"
           /\ AsksNext(answer, question)
           /\ toJs # <<>> /\ toJs' = Tail(toJs)
           /\ Head(toJs).op = answer /\ Head(toJs).hook = i
           /\ toNative' = Append(toNative, [op |-> question, hook |-> i])
<1>1. PICK answer \in {"enabled", "device"}, question \in {"device", "ids"} :
        (answer = "enabled" <=> question = "device") /\ AsksNext(answer, question)
  BY DEF OnEnabled, OnDevice
<1>2. toJs # <<>> /\ toJs' = Tail(toJs) /\ Head(toJs).op = answer
  BY <1>1 DEF AsksNext, Handles
<1>3. Head(toJs) \in MessageSet
  BY <1>2 DEF QueuesTyped
<1>4. Head(toJs).hook \in Instance
  BY <1>2, <1>3, MessageFields
<1> QED BY <1>1, <1>2, <1>4 DEF AsksNext

LEMMA ServerInit == Init => ServerEntries
<1> SUFFICES ASSUME Init PROVE ServerEntries
  OBVIOUS
<1>1. EntriesTyped
  BY ClientInit DEF ClientEntries
<1>2. QueuesTyped
  BY DEF Init, ManagerInit, QueuesTyped
<1>4. HooksTyped
  BY DEF Init, HooksTyped, Instance, Home
<1>3. ServerEntryHasLink /\ ServerKeyWasScanned
  BY KeyOfIsKey DEF Init, ManagerInit, ServerEntryHasLink, ServerKeyWasScanned, Key
<1> QED BY <1>1, <1>2, <1>3, <1>4 DEF ServerEntries, Typed

\* What JavaScript does: the entries stay, the queues keep their types.
LEMMA HookKeepsQueues == Typed /\ HookNext => QueuesTyped'
<1> SUFFICES ASSUME EntriesTyped, QueuesTyped, HooksTyped, HookNext PROVE QueuesTyped'
  BY DEF Typed
<1> USE DEF QueuesTyped
<1>1. CASE OpenConnectScreen
  <2> PICK i \in Instance : toNative' = Append(toNative, [op |-> "enabled", hook |-> i]) /\ toJs' = toJs
    BY <1>1 DEF OpenConnectScreen
  <2>1. [op |-> "enabled", hook |-> i] \in CallSet
    BY DEF CallSet
  <2> QED BY <2>1
<1>2. CASE CloseConnectScreen
  BY <1>2 DEF CloseConnectScreen, managerVars
<1>3. CASE \/ OnConnecting \/ OnConnected \/ OnDisconnected \/ OnConnectionError
           \/ ConnectDone \/ ConnectRefused \/ DisconnectDone \/ OnState
  <2>1. toJs # <<>> /\ toJs' = Tail(toJs) /\ toNative' = toNative
    BY <1>3 DEF OnConnecting, OnConnected, OnDisconnected, OnConnectionError, ConnectDone,
                ConnectRefused, DisconnectDone, OnState, Handles, NativeIsUntouched
  <2> QED BY <2>1
<1>4. CASE \E i \in Instance, k \in Key : PressConnect(i, k)
  <2> PICK i \in Instance, k \in Key : PressConnect(i, k)
    BY <1>4
  <2>1. Call("connect", k, i) \in CallSet
    BY RowIs DEF PressConnect, Call, CallSet, EntriesTyped
  <2> QED BY <2>1 DEF PressConnect
<1>5. CASE \E i \in Instance, k \in Key : PressDisconnect(i, k)
  <2> PICK i \in Instance, k \in Key : PressDisconnect(i, k)
    BY <1>5
  <2>1. Call("disconnect", k, i) \in CallSet
    BY DEF Call, CallSet
  <2> QED BY <2>1 DEF PressDisconnect
<1>6. CASE OnIds
  <2> DEFINE asked(keys, i) == [n \in DOMAIN SetToSeq(keys) |-> Call("state", SetToSeq(keys)[n], i)]
  <2>1. /\ toJs # <<>> /\ toJs' = Tail(toJs) /\ Head(toJs).op = "ids"
        /\ toNative' = toNative \o asked(Head(toJs).keys, Head(toJs).hook)
    BY <1>6 DEF OnIds, Handles
  <2>2. Head(toJs).keys \in SUBSET Key /\ Head(toJs).hook \in Instance
    <3>1. Head(toJs) \in MessageSet
      BY <2>1
    <3> QED BY <2>1, <3>1 DEF MessageSet
  <2>3. asked(Head(toJs).keys, Head(toJs).hook) \in Seq(CallSet)
    BY <2>2, AskedOneByOne
  <2> HIDE DEF asked
  <2> QED BY <2>1, <2>3
<1>7. CASE OnEnabled \/ OnDevice
  <2> PICK op \in {"device", "ids"}, i \in Instance :
        toJs # <<>> /\ toJs' = Tail(toJs) /\ toNative' = Append(toNative, [op |-> op, hook |-> i])
    BY <1>7, AskedNext
  <2>1. [op |-> op, hook |-> i] \in CallSet
    BY DEF CallSet
  <2> QED BY <2>1
<1> QED BY <1>1, <1>2, <1>3, <1>4, <1>5, <1>6, <1>7 DEF HookNext

PeerState == {"NONE", "CONNECTING", "CONNECTED"}

\* What an event that names a peer k does to every instance.
EventEffect(k) ==
  /\ toJs # <<>> /\ toJs' = Tail(toJs) /\ k = Head(toJs).key /\ k \in Key
  /\ Head(toJs).op \in {"CONNECTING", "CONNECTED", "DISCONNECTED"}
  /\ peers' \in [Instance -> [Key -> PeerState]]
  /\ \A i \in Instance, j \in Key : i \notin mounted \/ j # k => peers'[i][j] = peers[i][j]
  /\ \A i \in mounted : Head(toJs).op = "CONNECTED" => peers'[i][k] = "CONNECTED"
  /\ \A i \in mounted : Head(toJs).op = "DISCONNECTED" => peers'[i][k] = "NONE"
  /\ touched' = [i \in Instance |-> Touch(i, {k})]
  /\ pending' \in [Instance -> SUBSET Key]
  /\ \A i \in Instance : pending'[i] \subseteq pending[i]
  /\ unheard' \in [Instance -> SUBSET Key]
  /\ \A i \in Instance, j \in Key : j # k => (j \in unheard'[i] <=> j \in unheard[i])
  /\ NativeIsUntouched /\ UNCHANGED <<mounted, hydrationVars>>

LEMMA Events ==
  ASSUME QueuesTyped, HooksTyped, OnConnecting \/ OnConnected \/ OnDisconnected
  PROVE  EventEffect(Head(toJs).key)
<1> DEFINE h == Head(toJs)
<1>1. toJs # <<>> /\ toJs' = Tail(toJs) /\ h.op \in {"CONNECTING", "CONNECTED", "DISCONNECTED"}
  BY DEF OnConnecting, OnConnected, OnDisconnected, Handles
<1>2. h.key \in Key
  <2>1. h \in MessageSet
    BY <1>1 DEF QueuesTyped
  <2> HIDE DEF h
  <2> QED BY <1>1, <2>1, MessageFields
<1>3. peers \in [Instance -> [Key -> PeerState]] /\ pending \in [Instance -> SUBSET Key] /\ mounted \subseteq Instance
  BY DEF HooksTyped, PeerState
<1>4. PICK next \in [PeerState -> PeerState] :
        /\ peers' = [i \in Instance |-> IF i \in mounted THEN [peers[i] EXCEPT ![h.key] = next[@]] ELSE peers[i]]
        /\ h.op = "CONNECTED" => \A p \in PeerState : next[p] = "CONNECTED"
        /\ h.op = "DISCONNECTED" => \A p \in PeerState : next[p] = "NONE"
  <2>1. ASSUME OnConnecting PROVE \E next \in [PeerState -> PeerState] :
          /\ peers' = [i \in Instance |-> IF i \in mounted THEN [peers[i] EXCEPT ![h.key] = next[@]] ELSE peers[i]]
          /\ h.op = "CONNECTING"
    <3> DEFINE to == [p \in PeerState |-> IF p = "CONNECTED" THEN p ELSE "CONNECTING"]
    <3>1. to \in [PeerState -> PeerState]
      BY DEF PeerState
    <3>2. \A i \in Instance : [peers[i] EXCEPT ![h.key] = to[@]]
            = [peers[i] EXCEPT ![h.key] = IF @ = "CONNECTED" THEN @ ELSE "CONNECTING"]
      BY <1>2, <1>3
    <3>3. peers' = [i \in Instance |-> IF i \in mounted
                      THEN [peers[i] EXCEPT ![h.key] = IF @ = "CONNECTED" THEN @ ELSE "CONNECTING"]
                      ELSE peers[i]]
      BY <2>1 DEF OnConnecting, SetPeer
    <3>4. h.op = "CONNECTING"
      BY <2>1 DEF OnConnecting, Handles
    <3> HIDE DEF to, h
    <3>5. peers' = [i \in Instance |-> IF i \in mounted THEN [peers[i] EXCEPT ![h.key] = to[@]] ELSE peers[i]]
      BY <3>2, <3>3
    <3> QED BY <3>1, <3>4, <3>5
  <2>2. ASSUME NEW p \in {"CONNECTED", "NONE"},
               peers' = [i \in Instance |-> IF i \in mounted THEN [peers[i] EXCEPT ![h.key] = p] ELSE peers[i]]
        PROVE  \E next \in [PeerState -> PeerState] :
          /\ peers' = [i \in Instance |-> IF i \in mounted THEN [peers[i] EXCEPT ![h.key] = next[@]] ELSE peers[i]]
          /\ \A o \in PeerState : next[o] = p
    <3> DEFINE to == [o \in PeerState |-> p]
    <3>1. to \in [PeerState -> PeerState] /\ \A o \in PeerState : to[o] = p
      BY DEF PeerState
    <3>2. \A i \in Instance : [peers[i] EXCEPT ![h.key] = to[@]] = [peers[i] EXCEPT ![h.key] = p]
      BY <1>2, <1>3
    <3> HIDE DEF to, h
    <3>3. peers' = [i \in Instance |-> IF i \in mounted THEN [peers[i] EXCEPT ![h.key] = to[@]] ELSE peers[i]]
      BY <2>2, <3>2
    <3> QED BY <3>1, <3>3
  <2>3. CASE OnConnecting
    BY <2>1, <2>3
  <2>4. CASE OnConnected
    <3>1. /\ peers' = [i \in Instance |-> IF i \in mounted THEN [peers[i] EXCEPT ![h.key] = "CONNECTED"] ELSE peers[i]]
          /\ h.op = "CONNECTED"
      BY <2>4 DEF OnConnected, SetPeer, Handles
    <3> HIDE DEF h
    <3> QED BY <2>2, <3>1
  <2>5. CASE OnDisconnected
    <3>1. /\ peers' = [i \in Instance |-> IF i \in mounted THEN [peers[i] EXCEPT ![h.key] = "NONE"] ELSE peers[i]]
          /\ h.op = "DISCONNECTED"
      BY <2>5 DEF OnDisconnected, SetPeer, Handles
    <3> HIDE DEF h
    <3> QED BY <2>2, <3>1
  <2> QED BY <2>3, <2>4, <2>5
<1>5. touched' = [i \in Instance |-> Touch(i, {h.key})]
  BY DEF OnConnecting, OnConnected, OnDisconnected, NotePeerMutation
<1>6. pending' \in [Instance -> SUBSET Key] /\ \A i \in Instance : pending'[i] \subseteq pending[i]
  BY <1>3 DEF OnConnecting, OnConnected, OnDisconnected, NoLongerPending
<1>7. NativeIsUntouched /\ UNCHANGED <<mounted, hydrationVars>>
  BY DEF OnConnecting, OnConnected, OnDisconnected
<1>13. /\ unheard' \in [Instance -> SUBSET Key]
       /\ \A i \in Instance, j \in Key : j # h.key => (j \in unheard'[i] <=> j \in unheard[i])
  <2>1. unheard' = unheard \/ unheard' = [i \in Instance |-> unheard[i] \ {h.key}]
    BY DEF OnConnecting, OnConnected, OnDisconnected, NoLongerPending
  <2>2. unheard \in [Instance -> SUBSET Key]
    BY DEF HooksTyped
  <2> HIDE DEF h
  <2> QED BY <2>1, <2>2
<1> HIDE DEF h
<1>8. \A i \in Instance : peers'[i] = IF i \in mounted THEN [peers[i] EXCEPT ![h.key] = next[@]] ELSE peers[i]
  BY <1>4
<1>9. ASSUME NEW i \in Instance
      PROVE  /\ peers'[i] \in [Key -> PeerState]
             /\ \A j \in Key : i \notin mounted \/ j # h.key => peers'[i][j] = peers[i][j]
             /\ i \in mounted => peers'[i][h.key] = next[peers[i][h.key]] /\ peers[i][h.key] \in PeerState
  BY <1>2, <1>3, <1>4, <1>8
<1>10. peers' \in [Instance -> [Key -> PeerState]]
  BY <1>4, <1>9
<1>11. \A i \in mounted : /\ h.op = "CONNECTED" => peers'[i][h.key] = "CONNECTED"
                          /\ h.op = "DISCONNECTED" => peers'[i][h.key] = "NONE"
  BY <1>3, <1>4, <1>9
<1>12. EventEffect(h.key)
  BY <1>1, <1>2, <1>5, <1>6, <1>7, <1>9, <1>10, <1>11, <1>13 DEF EventEffect, h
<1> QED BY <1>12 DEF h

\* Only instance i changes its mind, and only about k.
OnePeer(i, k, p) ==
  /\ peers' \in [Instance -> [Key -> PeerState]]
  /\ peers'[i][k] = p
  /\ \A j \in Instance, l \in Key : j # i \/ l # k => peers'[j][l] = peers[j][l]

LEMMA PeersExcept ==
  ASSUME HooksTyped, NEW i \in Instance, NEW k \in Key, NEW p \in PeerState,
         peers' = [peers EXCEPT ![i][k] = p]
  PROVE  OnePeer(i, k, p)
<1>1. peers \in [Instance -> [Key -> PeerState]]
  BY DEF HooksTyped, PeerState
<1>2. peers' = [peers EXCEPT ![i] = [peers[i] EXCEPT ![k] = p]]
  BY <1>1
<1>3. [peers[i] EXCEPT ![k] = p] \in [Key -> PeerState]
  BY <1>1
<1>4. peers' \in [Instance -> [Key -> PeerState]]
  BY <1>1, <1>2, <1>3
<1>5. peers'[i][k] = p
  BY <1>1, <1>2
<1>6. ASSUME NEW j \in Instance, NEW l \in Key, j # i \/ l # k PROVE peers'[j][l] = peers[j][l]
  BY <1>1, <1>2, <1>6
<1> QED BY <1>4, <1>5, <1>6 DEF OnePeer

LEMMA HookKeepsHooks == QueuesTyped /\ HooksTyped /\ HookNext => HooksTyped'
<1> SUFFICES ASSUME QueuesTyped, HooksTyped, HookNext PROVE HooksTyped'
  OBVIOUS
<1> DEFINE h == Head(toJs)
<1>1. CASE OpenConnectScreen
  BY <1>1 DEF OpenConnectScreen, HooksTyped, Instance
<1>2. CASE CloseConnectScreen
  BY <1>2 DEF CloseConnectScreen, HooksTyped, Instance
<1>3. ASSUME toJs # <<>>
      PROVE  /\ h.op \notin {"enabled", "device", "ids"} => h.key \in Key
             /\ h.op \in {"connectDone", "connectRefused", "disconnectDone", "ids", "state"} => h.hook \in Instance
             /\ h.op = "ids" => h.keys \in SUBSET Key
  BY <1>3, MessageFields DEF QueuesTyped
<1>4. CASE OnConnecting \/ OnConnected \/ OnDisconnected
  <2> DEFINE k == h.key
  <2>1. EventEffect(k)
    BY <1>4, Events
  <2> HIDE DEF k
  <2> QED BY <2>1 DEF EventEffect, PeerState, HooksTyped, hydrationVars, Touch
<1>5. CASE OnConnectionError
  <2>1. ASSUME NEW i \in Instance, NEW k \in Key PROVE Revert(peers[i][k]) \in {"NONE", "CONNECTING", "CONNECTED"}
    BY DEF HooksTyped, Revert
  <2>2. peers' \in [Instance -> [Key -> {"NONE", "CONNECTING", "CONNECTED"}]]
    BY <1>5, <2>1 DEF OnConnectionError, HooksTyped
  <2>3. /\ touched' \in [Instance -> SUBSET Key] /\ pending' \in [Instance -> SUBSET Key]
        /\ unheard' \in [Instance -> SUBSET Key]
    BY <1>5 DEF OnConnectionError, Touch, HooksTyped
  <2> QED BY <1>5, <2>2, <2>3 DEF OnConnectionError, HooksTyped, hydrationVars
<1>6. CASE \E i \in Instance, k \in Key : PressConnect(i, k) \/ PressDisconnect(i, k)
  <2> PICK i \in Instance, k \in Key : PressConnect(i, k) \/ PressDisconnect(i, k)
    BY <1>6
  <2>1. Touch(i, {k}) \in SUBSET Key
    BY DEF Touch, HooksTyped
  <2>2. peers' = peers \/ peers' = [peers EXCEPT ![i][k] = "CONNECTING"]
    BY DEF PressConnect, PressDisconnect
  <2>3. peers' \in [Instance -> [Key -> {"NONE", "CONNECTING", "CONNECTED"}]]
    BY <2>2, PeersExcept DEF HooksTyped, OnePeer, PeerState
  <2>4. touched' = [touched EXCEPT ![i] = Touch(i, {k})]
    BY DEF PressConnect, PressDisconnect
  <2>5. pending' = pending \/ pending' = [pending EXCEPT ![i] = @ \cup {k}]
    BY DEF PressConnect, PressDisconnect
  <2>6. touched' \in [Instance -> SUBSET Key]
    BY <2>1, <2>4 DEF HooksTyped
  <2>7. pending[i] \cup {k} \in SUBSET Key
    BY DEF HooksTyped
  <2>8. pending' \in [Instance -> SUBSET Key]
    BY <2>5, <2>7 DEF HooksTyped
  <2>9. unheard' = unheard \/ unheard' = [unheard EXCEPT ![i] = @ \cup {k}]
    BY DEF PressConnect, PressDisconnect
  <2>10. unheard[i] \cup {k} \in SUBSET Key
    BY DEF HooksTyped
  <2>11. unheard' \in [Instance -> SUBSET Key]
    BY <2>9, <2>10 DEF HooksTyped
  <2> QED BY <2>3, <2>6, <2>8, <2>11 DEF PressConnect, PressDisconnect, HooksTyped, hydrationVars
<1>7. CASE ConnectDone
  BY <1>7 DEF ConnectDone, hookVars, HooksTyped
<1>8. CASE ConnectRefused \/ DisconnectDone
  <2> DEFINE i == h.hook
             k == h.key
  <2>1. i \in Instance /\ k \in Key
    BY <1>3, <1>8 DEF ConnectRefused, DisconnectDone, Handles
  <2>2. /\ pending' = [pending EXCEPT ![i] = @ \ {k}]
        /\ peers' = peers \/ peers' = [peers EXCEPT ![i][k] = "NONE"]
        /\ UNCHANGED <<mounted, hydrationVars, touched, unheard>>
    BY <1>8 DEF ConnectRefused, DisconnectDone
  <2> HIDE DEF i, k
  <2>3. peers' \in [Instance -> [Key -> {"NONE", "CONNECTING", "CONNECTED"}]]
    BY <2>1, <2>2, PeersExcept DEF HooksTyped, OnePeer, PeerState
  <2>4. pending' \in [Instance -> SUBSET Key]
    BY <2>1, <2>2 DEF HooksTyped
  <2> QED BY <2>2, <2>3, <2>4 DEF HooksTyped, hydrationVars
<1>9. ASSUME NEW i \in Instance, NEW listed \in SUBSET Key, NEW now \in SUBSET Key
      PROVE  Hydrated(i, listed, now) \in [Key -> {"NONE", "CONNECTING", "CONNECTED"}]
  BY DEF Hydrated, HooksTyped
<1>10. ASSUME NEW i \in Instance, NEW listed \in SUBSET Key, NEW now \in SUBSET Key,
              Finish(i, listed, now), UNCHANGED <<mounted, pending, unheard>>
       PROVE  HooksTyped'
  BY <1>9, <1>10 DEF Finish, HooksTyped
<1>11. CASE OnIds
  <2>1. h.hook \in Instance /\ h.keys \in SUBSET Key /\ {} \in SUBSET Key
    BY <1>3, <1>11 DEF OnIds, Handles
  <2>2. CASE Finish(h.hook, {}, {})
    BY <1>10, <1>11, <2>1, <2>2 DEF OnIds
  <2>3. CASE ~Finish(h.hook, {}, {})
    BY <1>11, <2>1, <2>3 DEF OnIds, HooksTyped, hydrationVars
  <2> QED BY <2>2, <2>3
<1>12. CASE OnState
  <2> DEFINE now == IF h.is = "CONNECTED" THEN found[h.hook] \cup {h.key} ELSE found[h.hook]
  <2>1. h.hook \in Instance /\ h.key \in Key
    BY <1>3, <1>12 DEF OnState, Handles
  <2>2. now \in SUBSET Key /\ ids[h.hook] \in SUBSET Key
    BY <2>1 DEF HooksTyped
  <2>3. CASE Finish(h.hook, ids[h.hook], now)
    BY <1>10, <1>12, <2>1, <2>2, <2>3 DEF OnState
  <2>4. CASE ~Finish(h.hook, ids[h.hook], now)
    <3>1. /\ UNCHANGED <<mounted, peers, pending, hydration, touched, ids, unheard>>
          /\ found' = found \/ found' = [found EXCEPT ![h.hook] = now]
          /\ waits' = waits \/ waits' = [waits EXCEPT ![h.hook] = @ \ {h.key}]
      BY <1>12, <2>4 DEF OnState, hydrationVars
    <3> HIDE DEF h, now
    <3>2. waits[h.hook] \ {h.key} \in SUBSET Key
      BY <2>1 DEF HooksTyped
    <3>3. found' \in [Instance -> SUBSET Key]
      BY <2>1, <2>2, <3>1 DEF HooksTyped
    <3>4. waits' \in [Instance -> SUBSET Key]
      BY <2>1, <3>1, <3>2 DEF HooksTyped
    <3> QED BY <3>1, <3>3, <3>4 DEF HooksTyped
  <2> QED BY <2>3, <2>4
<1>13. CASE OnEnabled \/ OnDevice
  <2> PICK question \in {"device", "ids"}, i \in Instance, answer \in {"enabled", "device"} :
        AsksNext(answer, question) /\ Head(toJs).hook = i
    BY <1>13, AskedNext
  <2> QED BY DEF AsksNext, HooksTyped
<1> QED BY <1>1, <1>2, <1>4, <1>5, <1>6, <1>7, <1>8, <1>11, <1>12, <1>13 DEF HookNext

\* Two calls are answered by what they were.
LEMMA EchoedCalls ==
  ASSUME NEW c \in CallSet, c.op \in {"enabled", "device"} PROVE c \in MessageSet
<1>1. c \in [op : {"enabled", "device", "ids"}, hook : Instance]
  BY DEF CallSet
<1>2. c \in [op : {"enabled", "device"}, hook : Instance]
  BY <1>1
<1> QED BY <1>2 DEF MessageSet

\* What native does to the queues.
LEMMA NativeKeepsQueues == EntriesTyped /\ QueuesTyped /\ NativeNext => QueuesTyped'
<1> SUFFICES ASSUME EntriesTyped, QueuesTyped, NativeNext PROVE QueuesTyped'
  OBVIOUS
<1> USE DEF QueuesTyped
<1> DEFINE k == Head(toNative).key
           answers == {Answer(a) : a \in {"connectDone", "connectRefused", "disconnectDone"}}
<1>1. ASSUME NEW j \in Key, NEW what \in {"CONNECTING", "CONNECTED", "DISCONNECTED", "ERROR"}
      PROVE  Event(what, j) \in MessageSet
  BY DEF Event, MessageSet
<1>2. ASSUME toNative # <<>>, k \in Key PROVE answers \subseteq MessageSet
  <2>1. Head(toNative).hook \in Instance
    BY <1>2, CallFields
  <2> QED BY <1>2, <2>1 DEF Answer, MessageSet
<1>3. CASE NativeConnect
  <2>1. toNative # <<>> /\ toNative' = Tail(toNative) /\ k \in Key
    BY <1>3, CallFields, KeyOfIsKey DEF NativeConnect, Calls
  <2>2. \/ \E m \in answers : toJs' = Append(toJs, m)
        \/ \E e \in MessageSet, m \in answers : toJs' = toJs \o <<e, m>>
    BY <1>1, <1>3, <2>1 DEF NativeConnect
  <2> HIDE DEF answers
  <2>3. toNative' \in Seq(CallSet) /\ answers \subseteq MessageSet
    BY <1>2, <2>1
  <2>4. ASSUME NEW e \in MessageSet, NEW m \in MessageSet PROVE toJs \o <<e, m>> \in Seq(MessageSet)
    <3>1. <<e, m>> \in Seq(MessageSet)
      OBVIOUS
    <3> QED BY <3>1, ConcatProperties
  <2>5. \A m \in MessageSet : Append(toJs, m) \in Seq(MessageSet)
    OBVIOUS
  <2> QED BY <2>2, <2>3, <2>4, <2>5
<1>4. CASE NativeDisconnect
  <2>1. toNative # <<>> /\ toNative' = Tail(toNative) /\ k \in Key
    BY <1>4, CallFields DEF NativeDisconnect, Calls
  <2>2. \/ \E m \in answers : toJs' = Append(toJs, m)
        \/ \E e \in MessageSet, m \in answers : toJs' = toJs \o <<e, m>>
    BY <1>1, <1>4, <2>1 DEF NativeDisconnect
  <2> HIDE DEF answers
  <2>3. toNative' \in Seq(CallSet) /\ answers \subseteq MessageSet
    BY <1>2, <2>1
  <2>4. ASSUME NEW e \in MessageSet, NEW m \in MessageSet PROVE toJs \o <<e, m>> \in Seq(MessageSet)
    <3>1. <<e, m>> \in Seq(MessageSet)
      OBVIOUS
    <3> QED BY <3>1, ConcatProperties
  <2>5. \A m \in MessageSet : Append(toJs, m) \in Seq(MessageSet)
    OBVIOUS
  <2> QED BY <2>2, <2>3, <2>4, <2>5
<1>5. CASE NativeQuery
  <2> DEFINE listed == [op |-> "ids", hook |-> Head(toNative).hook,
                        keys |-> {j \in Key : state[j] = "CONNECTED"}]
             told == [op |-> "state", hook |-> Head(toNative).hook, key |-> k, is |-> state[k]]
  <2>1. toNative # <<>> /\ toNative' = Tail(toNative) /\ Head(toNative).hook \in Instance
    BY <1>5, CallFields DEF NativeQuery, Calls
  <2>2. CASE Calls("ids") /\ toJs' = Append(toJs, listed)
    <3>1. listed \in [op : {"ids"}, hook : Instance, keys : SUBSET Key]
      BY <2>1
    <3>2. listed \in MessageSet
      BY <3>1 DEF MessageSet
    <3> HIDE DEF listed
    <3> QED BY <2>1, <2>2, <3>2
  <2>3. CASE Calls("state") /\ toJs' = Append(toJs, told)
    <3>1. k \in Key /\ state[k] \in {"MISSING", "CONNECTING", "CONNECTED"}
      BY <2>1, <2>3, CallFields DEF Calls, EntriesTyped
    <3>2. told \in [op : {"state"}, hook : Instance, key : Key,
                    is : {"MISSING", "CONNECTING", "CONNECTED"}]
      BY <2>1, <3>1
    <3>3. told \in MessageSet
      BY <3>2 DEF MessageSet
    <3> HIDE DEF told
    <3> QED BY <2>1, <2>3, <3>3
  <2>4. CASE (Calls("enabled") \/ Calls("device")) /\ toJs' = Append(toJs, Head(toNative))
    <3>1. Head(toNative) \in MessageSet
      BY <2>1, <2>4, EchoedCalls DEF Calls
    <3> QED BY <2>1, <2>4, <3>1
  <2> QED BY <1>5, <2>2, <2>3, <2>4 DEF NativeQuery
<1>6. CASE \E d \in Device :
             \/ ClientReady(d) \/ ClientSetupFails(d) \/ ClientWriteFails(d) \/ ClientDrops(d)
             \/ ServerLinked(d) \/ ServerSubscribed(d) \/ ServerDrops(d) \/ ScanFinds(d)
  <2>1. /\ toNative' = toNative
        /\ \/ toJs' = toJs
           \/ \E j \in Key, what \in {"CONNECTED", "DISCONNECTED", "ERROR"} :
                toJs' = Append(toJs, Event(what, j))
    BY <1>6, KeyOfIsKey DEF ClientReady, ClientSetupFails, ClientWriteFails, ClientDrops,
       ServerLinked, ServerSubscribed, ServerDrops, ScanFinds, OnConnectedAs, OnError, DropEntry, Emit
  <2>2. toJs' = toJs \/ \E m \in MessageSet : toJs' = Append(toJs, m)
    BY <1>1, <2>1
  <2> QED BY <2>1, <2>2
<1> QED BY <1>3, <1>4, <1>5, <1>6 DEF NativeNext

\* What native does to the entries of server links.
LEMMA ServerStep == ServerEntries /\ NativeNext => (ServerEntryHasLink /\ ServerKeyWasScanned)'
<1> SUFFICES ASSUME ServerEntries, NativeNext PROVE (ServerEntryHasLink /\ ServerKeyWasScanned)'
  OBVIOUS
<1> USE KeyOfIsKey, OwnerOfKey DEF ServerEntries, Typed, EntriesTyped, ServerEntryHasLink, ServerKeyWasScanned
<1>0. \A j \in Raw : j \in Key /\ j \notin Device
  BY KeysDiffer DEF KeysDiffer, Key
<1>1. CASE NativeConnect
  <2> DEFINE k == Head(toNative).key
  <2>1. k \in Device
    BY <1>1, CallFields DEF NativeConnect, Calls, QueuesTyped
  <2>2. /\ \/ UNCHANGED <<state, role>>
           \/ /\ state' = [state EXCEPT ![k] = "CONNECTING"]
              /\ role' = [role EXCEPT ![k] = "CLIENT"]
        /\ UNCHANGED <<server, scanned>>
    BY <1>1 DEF NativeConnect, UpdatePeerState
  <2> HIDE DEF k
  <2> QED BY <1>0, <2>1, <2>2
<1>2. CASE NativeDisconnect
  <2> DEFINE k == Head(toNative).key
  <2>1. k \in Key
    BY <1>2, CallFields DEF NativeDisconnect, Calls, QueuesTyped
  <2>2. /\ \/ UNCHANGED <<state, role>>
           \/ /\ state' = [state EXCEPT ![k] = "MISSING"]
              /\ role' = [role EXCEPT ![k] = "CLIENT"]
        /\ server' \in {server, [server EXCEPT ![k] = IF @ = "down" THEN @ ELSE "ending"]}
        /\ UNCHANGED scanned
    BY <1>2 DEF NativeDisconnect, RemoveEntry, CancelConnection
  <2> HIDE DEF k
  <2>3. \A d \in Device : server[d] \in {"subscribed", "ending"} => server'[d] \in {"subscribed", "ending"}
    BY <2>1, <2>2
  <2> QED BY <1>0, <2>1, <2>2, <2>3
<1>3. CASE NativeQuery
  BY <1>3 DEF NativeQuery
<1>4. CASE \E d \in Device : ClientReady(d)
  BY <1>0, <1>4 DEF ClientReady, OnConnectedAs, UpdatePeerState
<1>5. CASE \E d \in Device : ClientSetupFails(d) \/ ClientWriteFails(d)
  BY <1>0, <1>5 DEF ClientSetupFails, ClientWriteFails, OnError, RemoveEntry, Removable
<1>6. CASE \E d \in Device : ClientDrops(d)
  BY <1>0, <1>6 DEF ClientDrops, DropEntry, RemoveEntry, Removable
<1>7. CASE \E d \in Device : ServerLinked(d)
  BY <1>0, <1>7 DEF ServerLinked
<1>8. CASE \E d \in Device : ServerSubscribed(d)
  BY <1>0, <1>8 DEF ServerSubscribed, OnConnectedAs, UpdatePeerState, KeyOf
<1>9. CASE \E d \in Device : ServerDrops(d)
  BY <1>0, <1>9 DEF ServerDrops, DropEntry, RemoveEntry, Removable, KeyOf
<1>10. CASE \E d \in Device : ScanFinds(d)
  BY <1>10 DEF ScanFinds
<1> QED BY <1>1, <1>2, <1>3, <1>4, <1>5, <1>6, <1>7, <1>8, <1>9, <1>10 DEF NativeNext

\* Types, and what every entry of a server link stands on, never break.
LEMMA ServerEntriesStep == ServerEntries /\ [Next]_allVars => ServerEntries'
<1> SUFFICES ASSUME ServerEntries, [Next]_allVars PROVE ServerEntries'
  OBVIOUS
<1>1. CASE NativeNext /\ UNCHANGED hookVars
  <2>1. EntriesTyped' /\ QueuesTyped'
    BY <1>1, NativeKeepsEntries, NativeKeepsQueues DEF ServerEntries, Typed
  <2>2. HooksTyped'
    BY <1>1 DEF ServerEntries, Typed, HooksTyped, hookVars
  <2> QED BY <1>1, <2>1, <2>2, ServerStep DEF ServerEntries, Typed
<1>2. CASE HookNext
  <2>1. UNCHANGED entryVars
    BY <1>2, HookLeavesEntries
  <2>2. QueuesTyped' /\ HooksTyped'
    BY <1>2, HookKeepsQueues, HookKeepsHooks DEF ServerEntries, Typed
  <2> QED BY <2>1, <2>2
      DEF entryVars, ServerEntries, Typed, EntriesTyped, ServerEntryHasLink, ServerKeyWasScanned
<1>3. CASE UNCHANGED allVars
  BY <1>3 DEF allVars, managerVars, hookVars, ServerEntries, Typed, EntriesTyped, QueuesTyped,
     HooksTyped, ServerEntryHasLink, ServerKeyWasScanned
<1> QED BY <1>1, <1>2, <1>3 DEF Next

\* A server entry outlives its link only by a reconnect that overtook the report
\* of the old link, or by a scan that gave the device another key meanwhile.
THEOREM ServerEntryAlwaysHasLink == Spec => []ServerEntryHasLink
<1>1. ServerEntries => ServerEntryHasLink
  BY DEF ServerEntries
<1> QED BY <1>1, ServerEntriesStep, ServerInit, PTL DEF Spec

-----------------------------------------------------------------------------
(* What the instances of the hook show: the invariants.                      *)

\* HomeScreen stays, one ConnectScreen may be above it.  Nothing is left in an
\* instance that is not on the stack, and nothing is touched or found before its
\* hydration gets there.
Lifecycle ==
  /\ \E i \in Instance : mounted = {Home, i}
  /\ \A i \in Instance \ mounted :
       /\ hydration[i] \in {"off", "done"}
       /\ \A k \in Key : peers[i][k] = "NONE"
       /\ touched[i] = {} /\ found[i] = {} /\ pending[i] = {}
  /\ \A i \in mounted : hydration[i] # "off"
  /\ \A i \in mounted : hydration[i] \in {"enabled", "device"} => touched[i] = {}
  /\ \A i \in mounted : hydration[i] \in {"enabled", "device", "ids"} => found[i] = {}

\* m is a call or an answer of the hydration.
Query(m) == m.op \in {"enabled", "device", "ids", "state"}

SameQuery(m, n) == m.op = n.op /\ m.hook = n.hook /\ (m.op = "state" => m.key = n.key)

\* A call or an answer of an instance's hydration is one it still waits for.
Awaited(m) ==
  /\ hydration[m.hook] # "off"
  /\ m.hook \in mounted /\ m.op \in {"enabled", "device", "ids"} => hydration[m.hook] = m.op
  /\ m.hook \in mounted /\ m.op = "state" => hydration[m.hook] = "states" /\ m.key \in waits[m.hook]

QueriesAwaited ==
  /\ \A n \in DOMAIN toNative : Query(toNative[n]) => Awaited(toNative[n])
  /\ \A n \in DOMAIN toJs : Query(toJs[n]) => Awaited(toJs[n])

\* It is queued once.
QueriesOnce ==
  /\ \A m, n \in DOMAIN toNative :
       Query(toNative[m]) /\ toNative[m].hook \in mounted /\ SameQuery(toNative[m], toNative[n]) => m = n
  /\ \A m, n \in DOMAIN toJs :
       Query(toJs[m]) /\ toJs[m].hook \in mounted /\ SameQuery(toJs[m], toJs[n]) => m = n
  /\ \A m \in DOMAIN toNative, n \in DOMAIN toJs :
       Query(toNative[m]) /\ toNative[m].hook \in mounted => ~SameQuery(toNative[m], toJs[n])

\* An event of k is on its way to JavaScript, or one behind the message n.
Tells(m, k, what) == m.op = what /\ m.key = k
Told(k, what) == \E n \in DOMAIN toJs : Tells(toJs[n], k, what)
ToldAfter(n, k, what) == \E m \in DOMAIN toJs : m > n /\ Tells(toJs[m], k, what)

\* Native has no entry of k, and reported it when it had one.
Absent(k) == state[k] = "MISSING" /\ k \notin silent

\* A message that would make an instance show k.
Suggests(m, k) ==
  \/ m.op \in {"CONNECTING", "CONNECTED"} /\ m.key = k
  \/ m.op = "state" /\ m.key = k /\ m.is = "CONNECTED"

\* The user of instance i wants k, and native has not heard of it yet.
Requested(i, k) ==
  \E n \in DOMAIN toNative : Tells(toNative[n], k, "connect") /\ toNative[n].hook = i

\* Instance i shows k, or is about to, and knows of no reason to.
Misled(i, k) ==
  \/ peers[i][k] # "NONE" /\ ~Requested(i, k)
  \/ Hydrating(i) /\ k \in found[i] /\ k \notin touched[i]

\* Whatever shows an absent peer is taken back by a BLE_DISCONNECTED on its way.
AbsenceIsTold ==
  \A k \in Key : Absent(k) =>
    /\ \A n \in DOMAIN toJs : Suggests(toJs[n], k) => ToldAfter(n, k, "DISCONNECTED")
    /\ \A i \in mounted : Misled(i, k) => Told(k, "DISCONNECTED")

\* k is connected over a link that nobody has cancelled.
Live(k) ==
  /\ state[k] = "CONNECTED"
  /\ \/ role[k] = "CLIENT" /\ k \in Device /\ gatt[k] = "ready"
     \/ role[k] = "SERVER" /\ server[Owner(k)] = "subscribed"

\* A message that would make an instance lose k.
Denies(m, k) ==
  \/ m.op \in {"CONNECTING", "DISCONNECTED", "disconnectDone"} /\ m.key = k
  \/ m.op = "state" /\ m.key = k /\ m.is # "CONNECTED"
  \/ m.op = "ids" /\ k \notin m.keys

Asked(i, k) ==
  \/ \E n \in DOMAIN toNative : Tells(toNative[n], k, "state") /\ toNative[n].hook = i
  \/ \E n \in DOMAIN toJs : Tells(toJs[n], k, "state") /\ toJs[n].hook = i

\* Instance i shows k, or its hydration will: its answer about k is still to come,
\* says so already, or has not been asked for.  Or k is the peer of a CONNECT that
\* came before the end of the hydration.
Covered(i, k) ==
  \/ IF hydration[i] = "done" \/ k \in touched[i]
     THEN peers[i][k] = "CONNECTED"
     ELSE hydration[i] = "states" => k \in found[i] \/ Asked(i, k)
  \/ k \in unheard[i]

\* Whatever hides a live peer is made good by a BLE_CONNECTED on its way.
PresenceIsTold ==
  \A k \in Key : Live(k) =>
    /\ \A n \in DOMAIN toJs : Denies(toJs[n], k) => ToldAfter(n, k, "CONNECTED")
    /\ \A i \in mounted : Covered(i, k) \/ Told(k, "CONNECTED")

\* While a link waits for its subscription, no entry counts on it.
LinkedHasNoEntry ==
  \A k \in Key : server[Owner(k)] = "linked" => role[k] # "SERVER"

ScreensInv ==
  Lifecycle /\ QueriesAwaited /\ QueriesOnce /\ AbsenceIsTold /\ PresenceIsTold

HookInv == ServerEntries /\ LinkedHasNoEntry /\ ScreensInv

-----------------------------------------------------------------------------
(* What native does, seen from JavaScript.                                   *)

News(new) == {new[j] : j \in DOMAIN new}

\* A peer that is absent after a step was absent before it, or its
\* BLE_DISCONNECTED is among the news; nothing among them suggests it.
AbsentWith(news) ==
  \A k \in Key : Absent(k)' =>
    /\ Absent(k) \/ \E m \in news : Tells(m, k, "DISCONNECTED")
    /\ \A m \in news : ~Suggests(m, k)

\* The same of a live peer and BLE_CONNECTED.
PresentWith(news) ==
  \A k \in Key : Live(k)' =>
    /\ Live(k) \/ \E m \in news : Tells(m, k, "CONNECTED")
    /\ \A m \in news : ~Denies(m, k)

\* A callback of the stack changes nothing of the calls; a call is answered.
CallsWith(new) ==
  \/ toNative' = toNative /\ \A m \in News(new) : ~Query(m)
  \/ /\ toNative # <<>> /\ toNative' = Tail(toNative)
     /\ \A k \in Key : Tells(Head(toNative), k, "connect") => ~Absent(k)'
     /\ ~Query(Head(toNative))
     /\ \A m \in News(new) : ~Query(m)
  \/ /\ toNative # <<>> /\ toNative' = Tail(toNative)
     /\ Query(Head(toNative))
     /\ \E m \in MessageSet : new = <<m>> /\ SameQuery(Head(toNative), m)

NativeEffect(new) ==
  /\ new \in Seq(MessageSet) /\ toJs' = toJs \o new
  /\ AbsentWith(News(new)) /\ PresentWith(News(new)) /\ CallsWith(new)

LEMMA ShortNews ==
  ASSUME NEW m \in MessageSet, NEW n \in MessageSet, QueuesTyped
  PROVE  /\ <<>> \in Seq(MessageSet) /\ News(<<>>) = {} /\ toJs \o <<>> = toJs
         /\ <<m>> \in Seq(MessageSet) /\ News(<<m>>) = {m} /\ toJs \o <<m>> = Append(toJs, m)
         /\ <<m, n>> \in Seq(MessageSet) /\ News(<<m, n>>) = {m, n}
<1>1. <<>> \in Seq(MessageSet) /\ News(<<>>) = {}
  BY DEF News
<1>2. <<m>> \in Seq(MessageSet) /\ News(<<m>>) = {m}
  BY DEF News
<1>3. <<m, n>> \in Seq(MessageSet)
  OBVIOUS
<1>4. DOMAIN <<m, n>> = {1, 2} /\ <<m, n>>[1] = m /\ <<m, n>>[2] = n
  OBVIOUS
<1>5. News(<<m, n>>) = {m, n}
  BY <1>4 DEF News
<1>6. toJs \o <<>> = toJs /\ toJs \o <<m>> = Append(toJs, m)
  BY DEF QueuesTyped
<1> QED BY <1>1, <1>2, <1>3, <1>5, <1>6

\* The three ways in which a step tells JavaScript something.
LEMMA SaysNothing ==
  ASSUME QueuesTyped, toJs' = toJs, toNative' = toNative, AbsentWith({}), PresentWith({})
  PROVE  \E new : NativeEffect(new)
<1>1. <<>> \in Seq(MessageSet) /\ News(<<>>) = {} /\ toJs \o <<>> = toJs
  BY DEF News, QueuesTyped
<1>2. CallsWith(<<>>)
  BY <1>1 DEF CallsWith
<1> QED BY <1>1, <1>2 DEF NativeEffect

LEMMA SaysOne ==
  ASSUME QueuesTyped, NEW m \in MessageSet, toJs' = Append(toJs, m), AbsentWith({m}),
         PresentWith({m}), CallsWith(<<m>>)
  PROVE  \E new : NativeEffect(new)
BY ShortNews DEF NativeEffect

LEMMA SaysTwo ==
  ASSUME QueuesTyped, NEW m \in MessageSet, NEW n \in MessageSet, toJs' = toJs \o <<m, n>>,
         AbsentWith({m, n}), PresentWith({m, n}), CallsWith(<<m, n>>)
  PROVE  \E new : NativeEffect(new)
BY ShortNews DEF NativeEffect

LEMMA EventsAreMessages ==
  \A k \in Key, what \in {"CONNECTING", "CONNECTED", "DISCONNECTED", "ERROR"} :
    Event(what, k) \in MessageSet
BY DEF Event, MessageSet

LEMMA AnswersAreMessages ==
  ASSUME QueuesTyped, toNative # <<>>, Head(toNative).op \in {"connect", "disconnect"},
         NEW what \in {"connectDone", "connectRefused", "disconnectDone"}
  PROVE  Answer(what) \in MessageSet
<1>1. Head(toNative) \in CallSet
  BY DEF QueuesTyped
<1>2. Head(toNative).hook \in Instance /\ Head(toNative).key \in Key
  BY <1>1, CallFields, KeyOfIsKey
<1> QED BY <1>2 DEF Answer, MessageSet

\* An entry that goes with its event, or without one but marked silent.
LEMMA RemovalIsTold ==
  ASSUME EntriesTyped, NEW k \in Key, RemoveEntry(k), silent' = silent \/ silent' = silent \cup {k},
         \A d \in Device : gatt'[d] = "ready" => gatt[d] = "ready",
         \A d \in Device : server'[d] = "subscribed" => server[d] = "subscribed"
  PROVE  /\ \A j \in Key \ {k} : Absent(j)' => Absent(j)
         /\ \A j \in Key : Live(j)' => j # k /\ Live(j)
         /\ silent' = silent \cup {k} => ~Absent(k)'
<1>1. /\ state'[k] = "MISSING" /\ role'[k] = "CLIENT"
      /\ \A j \in Key \ {k} : state'[j] = state[j] /\ role'[j] = role[j]
  BY RemoveTyped
<1>2. \A j \in Key \ {k} : Absent(j)' => Absent(j)
  BY <1>1 DEF Absent
<1>3. \A j \in Key : Live(j)' => j # k /\ Live(j)
  BY <1>1, OwnerOfKey DEF Live
<1> QED BY <1>2, <1>3 DEF Absent

LEMMA ConnectEffect ==
  ASSUME ServerEntries, NativeConnect PROVE \E new : NativeEffect(new)
<1>1. PICK d \in Device :
         /\ QueuesTyped /\ EntriesTyped /\ toNative # <<>> /\ toNative' = Tail(toNative)
         /\ Head(toNative).op = "connect" /\ d = Head(toNative).key /\ d \in Key
  BY CallFields, KeyOfIsKey DEF NativeConnect, Calls, ServerEntries, Typed, QueuesTyped
<1>2. \A what \in {"connectDone", "connectRefused"} :
        /\ Answer(what) \in MessageSet /\ Answer(what).op = what
  BY <1>1, AnswersAreMessages DEF Answer
<1>3. Event("CONNECTING", d) \in MessageSet /\ Event("CONNECTING", d).op = "CONNECTING"
      /\ Event("CONNECTING", d).key = d
  BY <1>1, EventsAreMessages DEF Event
<1>4. CASE state[d] # "MISSING"
  <2>1. toJs' = Append(toJs, Answer("connectRefused")) /\ UNCHANGED <<state, role, gatt, server, silent>>
    BY <1>1, <1>4 DEF NativeConnect
  <2>2. AbsentWith({Answer("connectRefused")}) /\ PresentWith({Answer("connectRefused")})
    BY <1>2, <2>1 DEF AbsentWith, PresentWith, Absent, Live, Suggests, Denies
  <2>3. CallsWith(<<Answer("connectRefused")>>)
    <3>1. ~Absent(d)'
      BY <1>4, <2>1 DEF Absent
    <3>2. News(<<Answer("connectRefused")>>) = {Answer("connectRefused")}
      BY <1>1, <1>2, ShortNews
    <3> QED BY <1>1, <1>2, <3>1, <3>2 DEF CallsWith, Query, Tells
  <2> QED BY <1>1, <1>2, <2>1, <2>2, <2>3, SaysOne
<1>5. CASE state[d] = "MISSING"
  <2> DEFINE e == Event("CONNECTING", d)
             a == Answer("connectDone")
  <2>1. /\ toJs' = toJs \o <<e, a>>
        /\ state' = [state EXCEPT ![d] = "CONNECTING"] /\ role' = [role EXCEPT ![d] = "CLIENT"]
        /\ silent' = silent \ {d}
        /\ gatt' = [gatt EXCEPT ![d] = IF @ = "none" THEN "opening" ELSE @]
        /\ server' = server
    BY <1>1, <1>5 DEF NativeConnect, UpdatePeerState, GattConnect
  <2>2. e \in MessageSet /\ e.op = "CONNECTING" /\ e.key = d /\ a \in MessageSet /\ a.op = "connectDone"
    BY <1>2, <1>3
  <2> HIDE DEF e, a
  <2>3. state'[d] = "CONNECTING" /\ \A k \in Key \ {d} : state'[k] = state[k] /\ role'[k] = role[k]
    BY <1>1, <2>1 DEF EntriesTyped
  <2>4. \A k \in Device \ {d} : gatt'[k] = gatt[k]
    BY <1>1, <2>1 DEF EntriesTyped
  <2>5. ~Absent(d)' /\ ~Live(d)'
    BY <2>3 DEF Absent, Live
  <2>6. AbsentWith({e, a})
    BY <2>1, <2>2, <2>3, <2>5 DEF AbsentWith, Absent, Suggests
  <2>7. PresentWith({e, a})
    BY <2>1, <2>2, <2>3, <2>4, <2>5 DEF PresentWith, Live, Denies
  <2>8. CallsWith(<<e, a>>)
    <3>1. News(<<e, a>>) = {e, a}
      BY <1>1, <2>2, ShortNews
    <3> QED BY <1>1, <2>2, <2>5, <3>1 DEF CallsWith, Query, Tells
  <2> QED BY <1>1, <2>1, <2>2, <2>6, <2>7, <2>8, SaysTwo
<1> QED BY <1>4, <1>5

LEMMA DisconnectEffect ==
  ASSUME ServerEntries, NativeDisconnect PROVE \E new : NativeEffect(new)
<1>1. PICK k \in Key :
         /\ QueuesTyped /\ EntriesTyped /\ toNative # <<>> /\ toNative' = Tail(toNative)
         /\ Head(toNative).op = "disconnect" /\ k = Head(toNative).key
  BY CallFields, KeyOfIsKey DEF NativeDisconnect, Calls, ServerEntries, Typed, QueuesTyped
<1> DEFINE a == Answer("disconnectDone")
           e == Event("DISCONNECTED", k)
<1>2. a \in MessageSet /\ a.op = "disconnectDone" /\ a.key = k
  BY <1>1, AnswersAreMessages DEF Answer
<1>3. e \in MessageSet /\ e.op = "DISCONNECTED" /\ e.key = k
  BY <1>1, EventsAreMessages DEF Event
<1>4. \/ /\ state[k] = "MISSING" /\ toJs' = Append(toJs, a)
         /\ UNCHANGED <<state, role, gatt, server, silent>>
      \/ /\ RemoveEntry(k) /\ gatt' = [gatt EXCEPT ![k] = "none"]
         /\ toJs' = toJs \o <<e, a>> /\ UNCHANGED <<server, silent>>
      \/ /\ role[k] # "CLIENT" /\ k \in scanned /\ CancelConnection(k)
         /\ toJs' = Append(toJs, a) /\ UNCHANGED <<state, role, gatt, silent>>
      \/ /\ RemoveEntry(k) /\ silent' = silent \cup {k}
         /\ toJs' = Append(toJs, a) /\ UNCHANGED <<gatt, server>>
  BY <1>1 DEF NativeDisconnect
<1> HIDE DEF a, e
<1>5. CallsWith(<<a>>) /\ CallsWith(<<e, a>>)
  <2>1. News(<<a>>) = {a} /\ News(<<e, a>>) = {e, a}
    BY <1>1, <1>2, <1>3, ShortNews
  <2> QED BY <1>1, <1>2, <1>3, <2>1 DEF CallsWith, Query, Tells
<1>6. CASE state[k] = "MISSING" /\ toJs' = Append(toJs, a) /\ UNCHANGED <<state, role, gatt, server, silent>>
  <2>1. AbsentWith({a}) /\ PresentWith({a})
    BY <1>2, <1>6 DEF AbsentWith, PresentWith, Absent, Live, Suggests, Denies
  <2> QED BY <1>1, <1>2, <1>5, <1>6, <2>1, SaysOne
<1>7. CASE /\ RemoveEntry(k) /\ gatt' = [gatt EXCEPT ![k] = "none"]
           /\ toJs' = toJs \o <<e, a>> /\ UNCHANGED <<server, silent>>
  <2>1. \A d \in Device : gatt'[d] = "ready" => gatt[d] = "ready"
    BY <1>1, <1>7 DEF EntriesTyped
  <2>2. /\ \A j \in Key \ {k} : Absent(j)' => Absent(j)
        /\ \A j \in Key : Live(j)' => j # k /\ Live(j)
    BY <1>1, <1>7, <2>1, RemovalIsTold
  <2>3. AbsentWith({e, a}) /\ PresentWith({e, a})
    BY <1>2, <1>3, <2>2 DEF AbsentWith, PresentWith, Suggests, Denies, Tells
  <2> QED BY <1>1, <1>2, <1>3, <1>5, <1>7, <2>3, SaysTwo
<1>8. CASE /\ role[k] # "CLIENT" /\ k \in scanned /\ CancelConnection(k)
           /\ toJs' = Append(toJs, a) /\ UNCHANGED <<state, role, gatt, silent>>
  <2>1. k \in Device /\ Owner(k) = k
    BY <1>1, <1>8, OwnerOfKey DEF EntriesTyped
  <2>2. server'[k] # "subscribed" /\ \A d \in Device \ {k} : server'[d] = server[d]
    BY <1>1, <1>8, <2>1 DEF EntriesTyped, CancelConnection
  <2>3. \A j \in Key : Absent(j)' => Absent(j)
    BY <1>8 DEF Absent
  <2>4. \A j \in Key : Live(j)' => j # k /\ Live(j)
    BY <1>8, <2>1, <2>2, OwnerOfKey DEF Live
  <2>5. AbsentWith({a}) /\ PresentWith({a})
    BY <1>2, <2>3, <2>4 DEF AbsentWith, PresentWith, Suggests, Denies
  <2> QED BY <1>1, <1>2, <1>5, <1>8, <2>5, SaysOne
<1>9. CASE /\ RemoveEntry(k) /\ silent' = silent \cup {k}
           /\ toJs' = Append(toJs, a) /\ UNCHANGED <<gatt, server>>
  <2>1. /\ \A j \in Key \ {k} : Absent(j)' => Absent(j)
        /\ \A j \in Key : Live(j)' => j # k /\ Live(j)
        /\ ~Absent(k)'
    BY <1>1, <1>9, RemovalIsTold
  <2>2. AbsentWith({a}) /\ PresentWith({a})
    BY <1>2, <2>1 DEF AbsentWith, PresentWith, Suggests, Denies
  <2> QED BY <1>1, <1>2, <1>5, <1>9, <2>2, SaysOne
<1> QED BY <1>4, <1>6, <1>7, <1>8, <1>9

LEMMA QueryEffect ==
  ASSUME ServerEntries, NativeQuery PROVE \E new : NativeEffect(new)
<1> DEFINE c == Head(toNative)
<1>1. /\ QueuesTyped /\ EntriesTyped /\ toNative # <<>> /\ toNative' = Tail(toNative)
      /\ c \in CallSet /\ c.hook \in Instance
      /\ UNCHANGED <<state, role, gatt, server, silent>>
  BY CallFields DEF NativeQuery, Calls, ServerEntries, Typed, QueuesTyped
<1>2. \A k \in Key : (Absent(k)' <=> Absent(k)) /\ (Live(k)' <=> Live(k))
  BY <1>1 DEF Absent, Live
<1>3. CASE Calls("ids")
  <2> DEFINE m == [op |-> "ids", hook |-> c.hook, keys |-> {k \in Key : state[k] = "CONNECTED"}]
  <2>1. toJs' = Append(toJs, m) /\ c.op = "ids"
    BY <1>3 DEF NativeQuery, Calls
  <2>2. m \in [op : {"ids"}, hook : Instance, keys : SUBSET Key]
    BY <1>1
  <2>3. m \in MessageSet
    BY <2>2 DEF MessageSet
  <2>4. m.op = "ids" /\ m.hook = c.hook /\ \A k \in Key : k \in m.keys <=> state[k] = "CONNECTED"
    OBVIOUS
  <2> HIDE DEF m, c
  <2>5. AbsentWith({m}) /\ PresentWith({m})
    BY <1>2, <2>4 DEF AbsentWith, PresentWith, Suggests, Denies, Live
  <2>6. SameQuery(c, m) /\ Query(c)
    BY <2>1, <2>4 DEF SameQuery, Query
  <2>7. CallsWith(<<m>>)
    BY <1>1, <2>3, <2>6 DEF CallsWith, c
  <2> QED BY <1>1, <2>1, <2>3, <2>5, <2>7, SaysOne
<1>4. CASE Calls("state")
  <2> DEFINE m == [op |-> "state", hook |-> c.hook, key |-> c.key, is |-> state[c.key]]
  <2>1. toJs' = Append(toJs, m) /\ c.op = "state"
    BY <1>4 DEF NativeQuery, Calls
  <2>2. c.key \in Key /\ state[c.key] \in {"MISSING", "CONNECTING", "CONNECTED"}
    BY <1>1, <2>1, CallFields DEF EntriesTyped
  <2>3. m \in [op : {"state"}, hook : Instance, key : Key, is : {"MISSING", "CONNECTING", "CONNECTED"}]
    BY <1>1, <2>2
  <2>4. m \in MessageSet
    BY <2>3 DEF MessageSet
  <2>5. m.op = "state" /\ m.hook = c.hook /\ m.key = c.key /\ m.is = state[c.key]
    OBVIOUS
  <2> HIDE DEF m, c
  <2>6. AbsentWith({m}) /\ PresentWith({m})
    BY <1>2, <2>5 DEF AbsentWith, PresentWith, Suggests, Denies, Live, Absent
  <2>7. SameQuery(c, m) /\ Query(c)
    BY <2>1, <2>5 DEF SameQuery, Query
  <2>8. CallsWith(<<m>>)
    BY <1>1, <2>4, <2>7 DEF CallsWith, c
  <2> QED BY <1>1, <2>1, <2>4, <2>6, <2>8, SaysOne
<1>5. CASE Calls("enabled") \/ Calls("device")
  <2>1. toJs' = Append(toJs, c) /\ c.op \in {"enabled", "device"}
    BY <1>5 DEF NativeQuery, Calls
  <2>2. c \in MessageSet
    BY <1>1, <2>1, EchoedCalls
  <2> HIDE DEF c
  <2>3. AbsentWith({c}) /\ PresentWith({c})
    BY <1>2, <2>1 DEF AbsentWith, PresentWith, Suggests, Denies
  <2>4. SameQuery(c, c) /\ Query(c)
    BY <2>1 DEF SameQuery, Query
  <2>5. CallsWith(<<c>>)
    BY <1>1, <2>2, <2>4 DEF CallsWith, c
  <2> QED BY <1>1, <2>1, <2>2, <2>3, <2>5, SaysOne
<1> QED BY <1>3, <1>4, <1>5 DEF NativeQuery

\* The callbacks that announce a connection.
LEMMA ReadyEffect ==
  ASSUME ServerEntries, LinkedHasNoEntry, NEW d \in Device, ClientReady(d) \/ ServerSubscribed(d)
  PROVE  \E new : NativeEffect(new)
<1>1. QueuesTyped /\ EntriesTyped
  BY DEF ServerEntries, Typed
<1>2. PICK k \in Key, r \in {"CLIENT", "SERVER"} :
        /\ OnConnectedAs(k, r) /\ toNative' = toNative
        /\ \/ k = d /\ gatt' = [gatt EXCEPT ![d] = "ready"] /\ server' = server
           \/ /\ k = KeyOf(d) /\ server[d] = "linked"
              /\ server' = [server EXCEPT ![d] = "subscribed"] /\ gatt' = gatt
  BY KeyOfIsKey DEF ClientReady, ServerSubscribed
<1> DEFINE e == Event("CONNECTED", k)
<1>3. /\ toJs' = Append(toJs, e)
      /\ state' = [state EXCEPT ![k] = "CONNECTED"] /\ role' = [role EXCEPT ![k] = r]
      /\ silent' = silent \ {k}
  BY <1>2 DEF OnConnectedAs, UpdatePeerState, Emit
<1>4. e \in MessageSet /\ e.op = "CONNECTED" /\ e.key = k
  BY EventsAreMessages DEF Event
<1> HIDE DEF e
<1>5. state'[k] = "CONNECTED" /\ \A j \in Key \ {k} : state'[j] = state[j] /\ role'[j] = role[j]
  BY <1>1, <1>3 DEF EntriesTyped
<1>6. AbsentWith({e})
  BY <1>3, <1>4, <1>5 DEF AbsentWith, Absent, Suggests
<1>7. ASSUME NEW j \in Key, Live(j)', j # k PROVE Live(j)
  <2>1. CASE role[j] = "CLIENT"
    <3>1. j # d => gatt'[j] = gatt[j] \/ j \notin Device
      BY <1>1, <1>2 DEF EntriesTyped
    <3>2. CASE gatt' = gatt
      BY <1>5, <1>7, <2>1, <3>2 DEF Live
    <3>3. CASE k = d
      BY <1>5, <1>7, <2>1, <3>1, <3>3 DEF Live
    <3> QED BY <1>2, <3>2, <3>3
  <2>2. CASE role[j] = "SERVER"
    <3>1. CASE server' = server
      BY <1>5, <1>7, <2>2, <3>1 DEF Live
    <3>2. CASE server[d] = "linked" /\ server' = [server EXCEPT ![d] = "subscribed"]
      <4>1. Owner(j) # d
        BY <2>2, <3>2 DEF LinkedHasNoEntry
      <4>2. server'[Owner(j)] = server[Owner(j)]
        BY <1>1, <3>2, <4>1, OwnerOfKey DEF EntriesTyped
      <4> QED BY <1>5, <1>7, <2>2, <4>2 DEF Live
    <3> QED BY <1>2, <3>1, <3>2
  <2> QED BY <1>5, <1>7, <2>1, <2>2 DEF Live
<1>8. PresentWith({e})
  BY <1>4, <1>7 DEF PresentWith, Denies, Tells
<1>9. CallsWith(<<e>>)
  <2>1. News(<<e>>) = {e}
    BY <1>1, <1>4, ShortNews
  <2> QED BY <1>2, <1>4, <2>1 DEF CallsWith, Query
<1> QED BY <1>1, <1>3, <1>4, <1>6, <1>8, <1>9, SaysOne

\* The callbacks that may take an entry away.
LEMMA DropEffect ==
  ASSUME ServerEntries, NEW d \in Device,
         \/ ClientSetupFails(d) \/ ClientWriteFails(d) \/ ClientDrops(d) \/ ServerDrops(d)
  PROVE  \E new : NativeEffect(new)
<1>1. QueuesTyped /\ EntriesTyped
  BY DEF ServerEntries, Typed
<1>2. PICK k \in Key :
        /\ toNative' = toNative
        /\ \/ toJs' = toJs /\ UNCHANGED <<state, role, silent>>
           \/ toJs' = Append(toJs, Event("ERROR", k)) /\ UNCHANGED <<state, role, silent>>
           \/ toJs' = Append(toJs, Event("ERROR", k)) /\ RemoveEntry(k) /\ silent' = silent \cup {k}
           \/ toJs' = Append(toJs, Event("DISCONNECTED", k)) /\ RemoveEntry(k) /\ silent' = silent
  <2>1. CASE ClientSetupFails(d) \/ ClientWriteFails(d)
    BY <2>1, KeyOfIsKey DEF ClientSetupFails, ClientWriteFails, OnError, Emit
  <2>2. CASE ClientDrops(d) \/ ServerDrops(d)
    BY <2>2, KeyOfIsKey DEF ClientDrops, ServerDrops, DropEntry, Emit
  <2> QED BY <2>1, <2>2
<1>3. /\ \A c \in Device : gatt'[c] = "ready" => gatt[c] = "ready"
      /\ \A c \in Device : server'[c] = "subscribed" => server[c] = "subscribed"
  <2>1. /\ gatt' = gatt \/ \E s \in {"failed", "none"} : gatt' = [gatt EXCEPT ![d] = s]
        /\ server' = server \/ server' = [server EXCEPT ![d] = "down"]
    BY DEF ClientSetupFails, ClientWriteFails, OnError, ClientDrops, ServerDrops
  <2> QED BY <1>1, <2>1 DEF EntriesTyped
<1>4. \A what \in {"ERROR", "DISCONNECTED"} :
        Event(what, k) \in MessageSet /\ Event(what, k).op = what /\ Event(what, k).key = k
  BY EventsAreMessages DEF Event
<1>5. \A what \in {"ERROR", "DISCONNECTED"} : CallsWith(<<Event(what, k)>>)
  <2> SUFFICES ASSUME NEW what \in {"ERROR", "DISCONNECTED"} PROVE CallsWith(<<Event(what, k)>>)
    OBVIOUS
  <2>1. News(<<Event(what, k)>>) = {Event(what, k)}
    BY <1>1, <1>4, ShortNews
  <2> QED BY <1>2, <1>4, <2>1 DEF CallsWith, Query
<1>6. CASE UNCHANGED <<state, role, silent>>
  <2>1. \A j \in Key : (Absent(j)' => Absent(j)) /\ (Live(j)' => Live(j))
    BY <1>3, <1>6, OwnerOfKey DEF Absent, Live
  <2>2. CASE toJs' = toJs
    <3>1. AbsentWith({}) /\ PresentWith({})
      BY <2>1 DEF AbsentWith, PresentWith
    <3> QED BY <1>1, <1>2, <2>2, <3>1, SaysNothing
  <2>3. CASE toJs' = Append(toJs, Event("ERROR", k))
    <3>1. AbsentWith({Event("ERROR", k)}) /\ PresentWith({Event("ERROR", k)})
      BY <1>4, <2>1 DEF AbsentWith, PresentWith, Suggests, Denies
    <3> QED BY <1>1, <1>4, <1>5, <2>3, <3>1, SaysOne
  <2>4. CASE toJs' = Append(toJs, Event("DISCONNECTED", k)) /\ RemoveEntry(k)
    <3>1. \A j \in Key : Live(j)' => j # k /\ Live(j)
      BY <1>1, <1>3, <1>6, <2>4, RemovalIsTold
    <3>2. AbsentWith({Event("DISCONNECTED", k)}) /\ PresentWith({Event("DISCONNECTED", k)})
      BY <1>4, <2>1, <3>1 DEF AbsentWith, PresentWith, Suggests, Denies
    <3> QED BY <1>1, <1>4, <1>5, <2>4, <3>2, SaysOne
  <2>5. CASE toJs' = Append(toJs, Event("ERROR", k))
    BY <2>3, <2>5
  <2> QED BY <1>2, <2>2, <2>3, <2>4
<1>7. CASE RemoveEntry(k) /\ (silent' = silent \/ silent' = silent \cup {k})
  <2>1. /\ \A j \in Key \ {k} : Absent(j)' => Absent(j)
        /\ \A j \in Key : Live(j)' => j # k /\ Live(j)
        /\ silent' = silent \cup {k} => ~Absent(k)'
    BY <1>1, <1>3, <1>7, RemovalIsTold
  <2>2. CASE toJs' = Append(toJs, Event("ERROR", k)) /\ silent' = silent \cup {k}
    <3>1. AbsentWith({Event("ERROR", k)}) /\ PresentWith({Event("ERROR", k)})
      BY <1>4, <2>1, <2>2 DEF AbsentWith, PresentWith, Suggests, Denies
    <3> QED BY <1>1, <1>4, <1>5, <2>2, <3>1, SaysOne
  <2>3. CASE toJs' = Append(toJs, Event("DISCONNECTED", k))
    <3>1. AbsentWith({Event("DISCONNECTED", k)}) /\ PresentWith({Event("DISCONNECTED", k)})
      BY <1>4, <2>1 DEF AbsentWith, PresentWith, Suggests, Denies, Tells
    <3> QED BY <1>1, <1>4, <1>5, <2>3, <3>1, SaysOne
  <2>4. CASE UNCHANGED <<state, role, silent>>
    BY <1>6, <2>4
  <2> QED BY <1>2, <2>2, <2>3, <2>4
<1> QED BY <1>2, <1>6, <1>7

\* The callbacks that change no entry's state.
LEMMA QuietEffect ==
  ASSUME ServerEntries, NEW d \in Device, ServerLinked(d) \/ ScanFinds(d)
  PROVE  \E new : NativeEffect(new)
<1>1. QueuesTyped /\ EntriesTyped
  BY DEF ServerEntries, Typed
<1>2. UNCHANGED <<state, gatt, silent, toJs, toNative>>
  BY DEF ServerLinked, ScanFinds
<1>3. \A k \in Key : Absent(k)' => Absent(k)
  BY <1>2 DEF Absent
<1>4. \A k \in Key : Live(k)' => Live(k)
  <2>1. CASE ScanFinds(d)
    BY <1>2, <2>1 DEF ScanFinds, Live
  <2>2. CASE ServerLinked(d)
    <3>1. \A c \in Device : server'[c] = "subscribed" => server[c] = "subscribed"
      BY <1>1, <2>2 DEF ServerLinked, EntriesTyped
    <3>2. \A k \in Key : role'[k] \in {"CLIENT", "SERVER"} => role'[k] = role[k]
      BY <1>1, <2>2 DEF ServerLinked, EntriesTyped
    <3> QED BY <1>2, <3>1, <3>2, OwnerOfKey DEF Live
  <2> QED BY <2>1, <2>2
<1>5. AbsentWith({}) /\ PresentWith({})
  BY <1>3, <1>4 DEF AbsentWith, PresentWith
<1> QED BY <1>1, <1>2, <1>5, SaysNothing

LEMMA NativeEffects ==
  ASSUME ServerEntries, LinkedHasNoEntry, NativeNext PROVE \E new : NativeEffect(new)
BY ConnectEffect, DisconnectEffect, QueryEffect, ReadyEffect, DropEffect, QuietEffect DEF NativeNext

LEMMA LinkedStep ==
  ASSUME ServerEntries, LinkedHasNoEntry, NativeNext PROVE LinkedHasNoEntry'
<1>1. EntriesTyped /\ QueuesTyped
  BY DEF ServerEntries, Typed
<1> SUFFICES ASSUME NEW k \in Key, server'[Owner(k)] = "linked" PROVE role'[k] # "SERVER"
  BY DEF LinkedHasNoEntry
<1>2. Owner(k) \in Device /\ role[k] \in {"CLIENT", "SERVER", "STALE"}
  BY <1>1, OwnerOfKey DEF EntriesTyped
<1>3. server[Owner(k)] = "linked" => role[k] # "SERVER"
  BY DEF LinkedHasNoEntry
<1>4. CASE NativeConnect \/ NativeQuery
  BY <1>1, <1>2, <1>3, <1>4 DEF NativeConnect, NativeQuery, UpdatePeerState, EntriesTyped
<1>5. CASE NativeDisconnect
  <2>1. server' = server \/ \E d \in {Head(toNative).key} : CancelConnection(d)
    BY <1>5 DEF NativeDisconnect
  <2>2. server[Owner(k)] = "linked"
    BY <1>1, <1>2, <2>1 DEF CancelConnection, EntriesTyped
  <2>3. role' = role \/ role' = [role EXCEPT ![Head(toNative).key] = "CLIENT"]
    BY <1>5 DEF NativeDisconnect, RemoveEntry
  <2> QED BY <1>1, <1>3, <2>2, <2>3 DEF EntriesTyped
<1>6. CASE \E d \in Device : ClientReady(d) \/ ClientSetupFails(d) \/ ClientWriteFails(d) \/ ClientDrops(d)
  <2>1. server' = server
    BY <1>6 DEF ClientReady, ClientSetupFails, ClientWriteFails, ClientDrops, OnError
  <2>2. role' = role \/ \E j \in Key : role' = [role EXCEPT ![j] = "CLIENT"]
    BY <1>6, KeyOfIsKey DEF ClientReady, ClientSetupFails, ClientWriteFails, ClientDrops, OnError,
       OnConnectedAs, UpdatePeerState, DropEntry, RemoveEntry
  <2> QED BY <1>1, <1>3, <2>1, <2>2 DEF EntriesTyped
<1>7. CASE \E d \in Device : ServerDrops(d) \/ ScanFinds(d)
  <2>1. server[Owner(k)] = "linked"
    BY <1>1, <1>2, <1>7 DEF ServerDrops, ScanFinds, EntriesTyped
  <2>2. role' = role \/ \E j \in Key : role' = [role EXCEPT ![j] = "CLIENT"]
    BY <1>7, KeyOfIsKey DEF ServerDrops, ScanFinds, DropEntry, RemoveEntry
  <2> QED BY <1>1, <1>3, <2>1, <2>2 DEF EntriesTyped
<1>8. CASE \E d \in Device : ServerLinked(d)
  <2> PICK d \in Device : ServerLinked(d)
    BY <1>8
  <2>1. CASE Owner(k) = d
    BY <1>1, <2>1 DEF ServerLinked, EntriesTyped
  <2>2. CASE Owner(k) # d
    BY <1>1, <1>2, <1>3, <2>2 DEF ServerLinked, EntriesTyped
  <2> QED BY <2>1, <2>2
<1>9. CASE \E d \in Device : ServerSubscribed(d)
  <2> PICK d \in Device : ServerSubscribed(d)
    BY <1>9
  <2>1. Owner(KeyOf(d)) = d /\ KeyOf(d) \in Key
    BY OwnerOfKey, KeyOfIsKey DEF KeyOf
  <2>2. Owner(k) # d
    BY <1>1 DEF ServerSubscribed, EntriesTyped
  <2>3. role'[k] = role[k] /\ server'[Owner(k)] = server[Owner(k)]
    BY <1>1, <1>2, <2>1, <2>2 DEF ServerSubscribed, OnConnectedAs, UpdatePeerState, EntriesTyped
  <2> QED BY <1>3, <2>3
<1> QED BY <1>4, <1>5, <1>6, <1>7, <1>8, <1>9 DEF NativeNext

\* Where the messages of a queue are after a step.
LEMMA GrownJs ==
  ASSUME QueuesTyped, NEW new \in Seq(MessageSet), toJs' = toJs \o new
  PROVE  /\ \A n \in DOMAIN toJs : n \in DOMAIN toJs' /\ toJs'[n] = toJs[n]
         /\ \A n \in DOMAIN toJs' : n \in DOMAIN toJs \/ (n > Len(toJs) /\ toJs'[n] = new[n - Len(toJs)] /\ n - Len(toJs) \in DOMAIN new)
         /\ \A j \in DOMAIN new : Len(toJs) + j \in DOMAIN toJs' /\ toJs'[Len(toJs) + j] = new[j] /\ j > 0
         /\ DOMAIN toJs = 1 .. Len(toJs) /\ Len(toJs) \in Nat
<1>1. toJs \in Seq(MessageSet)
  BY DEF QueuesTyped
<1>2. /\ Len(toJs') = Len(toJs) + Len(new)
      /\ \A n \in 1 .. Len(toJs') : toJs'[n] = IF n <= Len(toJs) THEN toJs[n] ELSE new[n - Len(toJs)]
      /\ toJs' \in Seq(MessageSet)
  BY <1>1, ConcatProperties
<1>3. /\ DOMAIN toJs = 1 .. Len(toJs) /\ Len(toJs) \in Nat
      /\ DOMAIN new = 1 .. Len(new) /\ Len(new) \in Nat
      /\ DOMAIN toJs' = 1 .. Len(toJs')
  BY <1>1, <1>2
<1> QED BY <1>2, <1>3

LEMMA ShrunkJs ==
  ASSUME QueuesTyped, toJs # <<>>, toJs' = Tail(toJs)
  PROVE  /\ 1 \in DOMAIN toJs /\ Head(toJs) = toJs[1]
         /\ \A n \in DOMAIN toJs' : n \in Nat /\ n > 0 /\ n + 1 \in DOMAIN toJs /\ toJs'[n] = toJs[n + 1]
         /\ \A n \in DOMAIN toJs : n \in Nat /\ (n > 1 => n - 1 \in DOMAIN toJs' /\ toJs'[n - 1] = toJs[n]) /\ (n = 1 \/ n > 1)
BY DEF QueuesTyped

LEMMA ShrunkNative ==
  ASSUME QueuesTyped, toNative # <<>>, toNative' = Tail(toNative)
  PROVE  /\ 1 \in DOMAIN toNative /\ Head(toNative) = toNative[1]
         /\ \A n \in DOMAIN toNative' : n \in Nat /\ n > 0 /\ n + 1 \in DOMAIN toNative /\ toNative'[n] = toNative[n + 1]
         /\ \A n \in DOMAIN toNative : n \in Nat /\ (n > 1 => n - 1 \in DOMAIN toNative' /\ toNative'[n - 1] = toNative[n]) /\ (n = 1 \/ n > 1)
BY DEF QueuesTyped

\* What is on its way stays so when more is posted, and news come last.
LEMMA ToldGrows ==
  ASSUME QueuesTyped, NEW new \in Seq(MessageSet), toJs' = toJs \o new,
         NEW k \in Key, NEW what \in {"CONNECTED", "DISCONNECTED"}
  PROVE  /\ Told(k, what) => Told(k, what)'
         /\ \A n \in DOMAIN toJs : ToldAfter(n, k, what) => \E m \in DOMAIN toJs' : m > n /\ Tells(toJs'[m], k, what)
         /\ (\E m \in News(new) : Tells(m, k, what)) =>
              /\ Told(k, what)'
              /\ \A n \in DOMAIN toJs : \E m \in DOMAIN toJs' : m > n /\ Tells(toJs'[m], k, what)
<1>1. Told(k, what) => Told(k, what)'
  BY GrownJs DEF Told, Tells
<1>2. \A n \in DOMAIN toJs : ToldAfter(n, k, what) => \E m \in DOMAIN toJs' : m > n /\ Tells(toJs'[m], k, what)
  BY GrownJs DEF ToldAfter, Tells
<1>3. ASSUME NEW j \in DOMAIN new, Tells(new[j], k, what)
      PROVE  /\ Told(k, what)'
             /\ \A n \in DOMAIN toJs : \E m \in DOMAIN toJs' : m > n /\ Tells(toJs'[m], k, what)
  <2>1. Len(toJs) + j \in DOMAIN toJs' /\ Tells(toJs'[Len(toJs) + j], k, what) /\ j > 0 /\ j \in Nat
    BY <1>3, GrownJs
  <2>2. \A n \in DOMAIN toJs : Len(toJs) + j > n
    BY <2>1, GrownJs
  <2> QED BY <2>1, <2>2 DEF Told, Tells
<1> QED BY <1>1, <1>2, <1>3 DEF News

LEMMA NativeKeepsAbsence ==
  ASSUME QueuesTyped, AbsenceIsTold, NEW new, NativeEffect(new), UNCHANGED hookVars
  PROVE  AbsenceIsTold'
<1>1. new \in Seq(MessageSet) /\ toJs' = toJs \o new /\ AbsentWith(News(new)) /\ CallsWith(new)
  BY DEF NativeEffect
<1> SUFFICES ASSUME NEW k \in Key, Absent(k)'
             PROVE  /\ \A n \in DOMAIN toJs' : Suggests(toJs'[n], k) => ToldAfter(n, k, "DISCONNECTED")'
                    /\ \A i \in mounted' : Misled(i, k)' => Told(k, "DISCONNECTED")'
  BY DEF AbsenceIsTold
<1>2. \A m \in News(new) : ~Suggests(m, k)
  BY <1>1 DEF AbsentWith
<1>3. CASE \E m \in News(new) : Tells(m, k, "DISCONNECTED")
  <2>1. /\ Told(k, "DISCONNECTED")'
        /\ \A n \in DOMAIN toJs : \E m \in DOMAIN toJs' : m > n /\ Tells(toJs'[m], k, "DISCONNECTED")
    BY <1>1, <1>3, ToldGrows
  <2>2. \A n \in DOMAIN toJs' : Suggests(toJs'[n], k) => n \in DOMAIN toJs
    BY <1>1, <1>2, GrownJs DEF News
  <2> QED BY <2>1, <2>2 DEF ToldAfter
<1>4. CASE ~ \E m \in News(new) : Tells(m, k, "DISCONNECTED")
  <2>1. Absent(k)
    BY <1>1, <1>4 DEF AbsentWith
  <2>2. ASSUME NEW n \in DOMAIN toJs', Suggests(toJs'[n], k) PROVE ToldAfter(n, k, "DISCONNECTED")'
    <3>1. n \in DOMAIN toJs /\ toJs'[n] = toJs[n]
      BY <1>1, <1>2, <2>2, GrownJs DEF News
    <3>2. ToldAfter(n, k, "DISCONNECTED")
      BY <2>1, <2>2, <3>1 DEF AbsenceIsTold
    <3> QED BY <1>1, <3>1, <3>2, ToldGrows DEF ToldAfter
  <2>3. ASSUME NEW i \in mounted, Requested(i, k) PROVE Requested(i, k)'
    <3>1. CASE toNative' = toNative
      BY <2>3, <3>1 DEF Requested
    <3>2. CASE /\ toNative # <<>> /\ toNative' = Tail(toNative)
               /\ \A j \in Key : Tells(Head(toNative), j, "connect") => ~Absent(j)'
      <4> PICK n \in DOMAIN toNative : Tells(toNative[n], k, "connect") /\ toNative[n].hook = i
        BY <2>3 DEF Requested
      <4>1. n # 1
        BY <3>2, ShrunkNative
      <4>2. n - 1 \in DOMAIN toNative' /\ toNative'[n - 1] = toNative[n]
        BY <3>2, <4>1, ShrunkNative
      <4> QED BY <4>2 DEF Requested, Tells
    <3>3. CASE toNative # <<>> /\ toNative' = Tail(toNative) /\ Query(Head(toNative))
      <4> PICK n \in DOMAIN toNative : Tells(toNative[n], k, "connect") /\ toNative[n].hook = i
        BY <2>3 DEF Requested
      <4>1. n # 1
        BY <3>3, ShrunkNative DEF Query, Tells
      <4>2. n - 1 \in DOMAIN toNative' /\ toNative'[n - 1] = toNative[n]
        BY <3>3, <4>1, ShrunkNative
      <4> QED BY <4>2 DEF Requested, Tells
    <3> QED BY <1>1, <3>1, <3>2, <3>3 DEF CallsWith
  <2>4. Told(k, "DISCONNECTED") => Told(k, "DISCONNECTED")'
    BY <1>1, ToldGrows
  <2>5. ASSUME NEW i \in mounted, Misled(i, k)' PROVE Told(k, "DISCONNECTED")'
    <3>1. Misled(i, k)
      BY <2>3, <2>5 DEF Misled, hookVars, Hydrating
    <3> QED BY <2>1, <2>4, <3>1 DEF AbsenceIsTold
  <2> QED BY <2>2, <2>5 DEF hookVars
<1> QED BY <1>3, <1>4

LEMMA NativeKeepsPresence ==
  ASSUME QueuesTyped, PresenceIsTold, NEW new, NativeEffect(new), UNCHANGED hookVars
  PROVE  PresenceIsTold'
<1>1. new \in Seq(MessageSet) /\ toJs' = toJs \o new /\ PresentWith(News(new)) /\ CallsWith(new)
  BY DEF NativeEffect
<1> SUFFICES ASSUME NEW k \in Key, Live(k)'
             PROVE  /\ \A n \in DOMAIN toJs' : Denies(toJs'[n], k) => ToldAfter(n, k, "CONNECTED")'
                    /\ \A i \in mounted' : Covered(i, k)' \/ Told(k, "CONNECTED")'
  BY DEF PresenceIsTold
<1>2. \A m \in News(new) : ~Denies(m, k)
  BY <1>1 DEF PresentWith
<1>3. CASE \E m \in News(new) : Tells(m, k, "CONNECTED")
  <2>1. /\ Told(k, "CONNECTED")'
        /\ \A n \in DOMAIN toJs : \E m \in DOMAIN toJs' : m > n /\ Tells(toJs'[m], k, "CONNECTED")
    BY <1>1, <1>3, ToldGrows
  <2>2. \A n \in DOMAIN toJs' : Denies(toJs'[n], k) => n \in DOMAIN toJs
    BY <1>1, <1>2, GrownJs DEF News
  <2> QED BY <2>1, <2>2 DEF ToldAfter
<1>4. CASE ~ \E m \in News(new) : Tells(m, k, "CONNECTED")
  <2>1. Live(k)
    BY <1>1, <1>4 DEF PresentWith
  <2>2. ASSUME NEW n \in DOMAIN toJs', Denies(toJs'[n], k) PROVE ToldAfter(n, k, "CONNECTED")'
    <3>1. n \in DOMAIN toJs /\ toJs'[n] = toJs[n]
      BY <1>1, <1>2, <2>2, GrownJs DEF News
    <3>2. ToldAfter(n, k, "CONNECTED")
      BY <2>1, <2>2, <3>1 DEF PresenceIsTold
    <3> QED BY <1>1, <3>1, <3>2, ToldGrows DEF ToldAfter
  <2>3. ASSUME NEW i \in mounted, Asked(i, k) PROVE Asked(i, k)'
    <3>1. CASE \E n \in DOMAIN toJs : Tells(toJs[n], k, "state") /\ toJs[n].hook = i
      BY <1>1, <3>1, GrownJs DEF Asked
    <3>2. CASE \E n \in DOMAIN toNative : Tells(toNative[n], k, "state") /\ toNative[n].hook = i
      <4>1. CASE toNative' = toNative
        BY <3>2, <4>1 DEF Asked
      <4>2. CASE toNative # <<>> /\ toNative' = Tail(toNative) /\ ~Query(Head(toNative))
        BY <3>2, <4>2, ShrunkNative DEF Asked, Query, Tells
      <4>3. CASE /\ toNative # <<>> /\ toNative' = Tail(toNative)
                 /\ \E m \in MessageSet : new = <<m>> /\ SameQuery(Head(toNative), m)
        <5> PICK n \in DOMAIN toNative : Tells(toNative[n], k, "state") /\ toNative[n].hook = i
          BY <3>2
        <5> PICK m \in MessageSet : new = <<m>> /\ SameQuery(Head(toNative), m)
          BY <4>3
        <5>1. CASE n > 1
          BY <4>3, <5>1, ShrunkNative DEF Asked
        <5>2. CASE n = 1
          <6>1. Tells(m, k, "state") /\ m.hook = i
            BY <4>3, <5>2, ShrunkNative DEF SameQuery, Tells
          <6>2. 1 \in DOMAIN new /\ new[1] = m
            OBVIOUS
          <6>3. Len(toJs) + 1 \in DOMAIN toJs' /\ toJs'[Len(toJs) + 1] = m
            BY <1>1, <6>2, GrownJs
          <6> QED BY <6>1, <6>3 DEF Asked
        <5> QED BY <4>3, <5>1, <5>2, ShrunkNative
      <4> QED BY <1>1, <4>1, <4>2, <4>3 DEF CallsWith
    <3> QED BY <2>3, <3>1, <3>2 DEF Asked
  <2>4. Told(k, "CONNECTED") => Told(k, "CONNECTED")'
    BY <1>1, ToldGrows
  <2>5. ASSUME NEW i \in mounted PROVE Covered(i, k)' \/ Told(k, "CONNECTED")'
    <3>1. Covered(i, k) \/ Told(k, "CONNECTED")
      BY <2>1 DEF PresenceIsTold
    <3>2. Covered(i, k) => Covered(i, k)'
      BY <2>3 DEF Covered, hookVars
    <3> QED BY <2>4, <3>1, <3>2
  <2> QED BY <2>2, <2>5 DEF hookVars
<1> QED BY <1>3, <1>4

LEMMA SameQueries ==
  \A l, m, n : /\ SameQuery(m, n) => SameQuery(n, m) /\ (Query(m) <=> Query(n))
               /\ SameQuery(l, m) /\ SameQuery(m, n) => SameQuery(l, n)
               /\ SameQuery(m, n) /\ Query(m) => m.hook = n.hook /\ (Awaited(m) <=> Awaited(n))
BY DEF SameQuery, Query, Awaited

LEMMA NativeKeepsQueries ==
  ASSUME QueuesTyped, QueriesAwaited, QueriesOnce, NEW new, NativeEffect(new), UNCHANGED hookVars
  PROVE  QueriesAwaited' /\ QueriesOnce'
<1>1. new \in Seq(MessageSet) /\ toJs' = toJs \o new /\ CallsWith(new)
  BY DEF NativeEffect
<1>2. \A m : Awaited(m) => /\ hydration'[m.hook] # "off"
                           /\ m.hook \in mounted' /\ m.op \in {"enabled", "device", "ids"} => hydration'[m.hook] = m.op
                           /\ m.hook \in mounted' /\ m.op = "state" => hydration'[m.hook] = "states" /\ m.key \in waits'[m.hook]
  BY DEF Awaited, hookVars
<1>3. mounted' = mounted
  BY DEF hookVars
<1>4. CASE /\ \A m \in News(new) : ~Query(m)
           /\ toNative' = toNative \/ (toNative # <<>> /\ toNative' = Tail(toNative))
  <2>1. \A n \in DOMAIN toJs' : Query(toJs'[n]) => n \in DOMAIN toJs /\ toJs'[n] = toJs[n]
    BY <1>1, <1>4, GrownJs DEF News
  <2>2. PICK s \in {0, 1} : \A n \in DOMAIN toNative' : n \in Nat /\ n + s \in DOMAIN toNative /\ toNative'[n] = toNative[n + s]
    <3>1. CASE toNative' = toNative
      BY <3>1 DEF QueuesTyped
    <3>2. CASE toNative # <<>> /\ toNative' = Tail(toNative)
      BY <3>2, ShrunkNative
    <3> QED BY <1>4, <3>1, <3>2
  <2>3. QueriesAwaited'
    BY <1>2, <2>1, <2>2 DEF QueriesAwaited, Awaited
  <2>4. ASSUME NEW m \in DOMAIN toNative', NEW n \in DOMAIN toNative', Query(toNative'[m]),
               toNative'[m].hook \in mounted', SameQuery(toNative'[m], toNative'[n])
        PROVE  m = n
    <3>1. m + s = n + s
      BY <1>3, <2>2, <2>4 DEF QueriesOnce
    <3> QED BY <2>2, <3>1
  <2>5. ASSUME NEW m \in DOMAIN toJs', NEW n \in DOMAIN toJs', Query(toJs'[m]),
               toJs'[m].hook \in mounted', SameQuery(toJs'[m], toJs'[n])
        PROVE  m = n
    <3>1. Query(toJs'[n])
      BY <2>5, SameQueries
    <3> QED BY <1>3, <2>1, <2>5, <3>1 DEF QueriesOnce
  <2>6. ASSUME NEW m \in DOMAIN toNative', NEW n \in DOMAIN toJs', Query(toNative'[m]),
               toNative'[m].hook \in mounted', SameQuery(toNative'[m], toJs'[n])
        PROVE  FALSE
    <3>1. Query(toJs'[n])
      BY <2>6, SameQueries
    <3> QED BY <1>3, <2>1, <2>2, <2>6, <3>1 DEF QueriesOnce
  <2> QED BY <2>3, <2>4, <2>5, <2>6 DEF QueriesOnce, SameQuery, Query
<1>5. CASE /\ toNative # <<>> /\ toNative' = Tail(toNative) /\ Query(Head(toNative))
           /\ \E m \in MessageSet : new = <<m>> /\ SameQuery(Head(toNative), m)
  <2> PICK a \in MessageSet : new = <<a>> /\ SameQuery(Head(toNative), a)
    BY <1>5
  <2>1. 1 \in DOMAIN toNative /\ SameQuery(toNative[1], a) /\ Query(toNative[1]) /\ Query(a)
    BY <1>5, ShrunkNative, SameQueries
  <2>2. \A n \in DOMAIN toNative' : n \in Nat /\ n > 0 /\ n + 1 \in DOMAIN toNative /\ toNative'[n] = toNative[n + 1]
    BY <1>5, ShrunkNative
  <2>3. \A n \in DOMAIN toJs' : (n \in DOMAIN toJs /\ toJs'[n] = toJs[n]) \/ (n = Len(toJs) + 1 /\ toJs'[n] = a)
    <3>1. DOMAIN new = {1} /\ new[1] = a
      OBVIOUS
    <3> QED BY <1>1, <3>1, GrownJs
  <2>4. Awaited(a)
    BY <2>1, SameQueries DEF QueriesAwaited
  <2>5. QueriesAwaited'
    BY <1>2, <2>2, <2>3, <2>4 DEF QueriesAwaited, Awaited
  <2>6. ASSUME NEW m \in DOMAIN toNative', NEW n \in DOMAIN toNative', Query(toNative'[m]),
               toNative'[m].hook \in mounted', SameQuery(toNative'[m], toNative'[n])
        PROVE  m = n
    <3>1. m + 1 = n + 1
      BY <1>3, <2>2, <2>6 DEF QueriesOnce
    <3> QED BY <2>2, <3>1
  <2>7. ASSUME NEW n \in DOMAIN toJs, SameQuery(toJs[n], a), a.hook \in mounted PROVE FALSE
    <3>1. SameQuery(toNative[1], toJs[n]) /\ toNative[1].hook = a.hook
      BY <2>1, <2>7, SameQueries
    <3> QED BY <2>1, <2>7, <3>1 DEF QueriesOnce
  <2>8. ASSUME NEW m \in DOMAIN toJs', NEW n \in DOMAIN toJs', Query(toJs'[m]),
               toJs'[m].hook \in mounted', SameQuery(toJs'[m], toJs'[n])
        PROVE  m = n
    <3>1. SameQuery(toJs'[n], toJs'[m]) /\ toJs'[n].hook = toJs'[m].hook
      BY <2>8, SameQueries
    <3> QED BY <1>3, <2>3, <2>7, <2>8, <3>1 DEF QueriesOnce
  <2>9. ASSUME NEW m \in DOMAIN toNative', NEW n \in DOMAIN toJs', Query(toNative'[m]),
               toNative'[m].hook \in mounted', SameQuery(toNative'[m], toJs'[n])
        PROVE  FALSE
    <3>1. CASE n \in DOMAIN toJs /\ toJs'[n] = toJs[n]
      BY <1>3, <2>2, <2>9, <3>1 DEF QueriesOnce
    <3>2. CASE toJs'[n] = a
      <4>1. SameQuery(toNative[m + 1], toNative[1])
        BY <2>1, <2>2, <2>9, <3>2, SameQueries
      <4>2. m + 1 = 1
        BY <1>3, <2>1, <2>2, <2>9, <4>1 DEF QueriesOnce
      <4> QED BY <2>2, <4>2
    <3> QED BY <2>3, <3>1, <3>2
  <2> QED BY <2>5, <2>6, <2>8, <2>9 DEF QueriesOnce, SameQuery, Query
<1> QED BY <1>1, <1>4, <1>5 DEF CallsWith

LEMMA NativeStep ==
  ASSUME HookInv, NativeNext, UNCHANGED hookVars PROVE LinkedHasNoEntry' /\ ScreensInv'
<1>1. PICK new : NativeEffect(new)
  BY NativeEffects DEF HookInv
<1>2. QueuesTyped
  BY DEF HookInv, ServerEntries, Typed
<1>3. Lifecycle'
  BY DEF HookInv, ScreensInv, Lifecycle, hookVars, Hydrating
<1> QED
  BY <1>1, <1>2, <1>3, LinkedStep, NativeKeepsAbsence, NativeKeepsPresence, NativeKeepsQueries
     DEF HookInv, ScreensInv
-----------------------------------------------------------------------------
(* What the instances do.                                                    *)

\* Handling the head leaves the order of the others.
LEMMA TailTells ==
  ASSUME QueuesTyped, toJs # <<>>, toJs' = Tail(toJs), NEW k, NEW what
  PROVE  /\ Told(k, what) /\ ~Tells(Head(toJs), k, what) => Told(k, what)'
         /\ ToldAfter(1, k, what) => Told(k, what)'
         /\ \A n \in DOMAIN toJs' : ToldAfter(n + 1, k, what) => ToldAfter(n, k, what)'
<1>1. ASSUME NEW m \in DOMAIN toJs, m > 1, Tells(toJs[m], k, what) PROVE Told(k, what)'
  BY <1>1, ShrunkJs DEF Told, Tells
<1>2. ASSUME NEW n \in DOMAIN toJs', NEW m \in DOMAIN toJs, m > n + 1, Tells(toJs[m], k, what)
      PROVE  ToldAfter(n, k, what)'
  <2>1. n \in Nat /\ n > 0 /\ m \in Nat /\ m - 1 \in DOMAIN toJs' /\ toJs'[m - 1] = toJs[m] /\ m - 1 > n
    BY <1>2, ShrunkJs
  <2> QED BY <1>2, <2>1 DEF ToldAfter, Tells
<1>3. Told(k, what) /\ ~Tells(Head(toJs), k, what) => Told(k, what)'
  BY <1>1, ShrunkJs DEF Told
<1>4. ToldAfter(1, k, what) => Told(k, what)'
  BY <1>1 DEF ToldAfter
<1> QED BY <1>2, <1>3, <1>4 DEF ToldAfter

\* An instance is misled by nothing but a message that suggests the peer, and a
\* BLE_DISCONNECTED leaves no instance so.
LEMMA HandledAbsence ==
  ASSUME QueuesTyped, AbsenceIsTold, toJs # <<>>, toJs' = Tail(toJs),
         UNCHANGED <<state, silent, mounted>>,
         \A i \in mounted, k \in Key :
           /\ Misled(i, k)' => Misled(i, k) \/ Suggests(Head(toJs), k)
           /\ Tells(Head(toJs), k, "DISCONNECTED") => ~Misled(i, k)'
  PROVE  AbsenceIsTold'
<1> SUFFICES ASSUME NEW k \in Key, Absent(k)'
             PROVE  /\ \A n \in DOMAIN toJs' : Suggests(toJs'[n], k) => ToldAfter(n, k, "DISCONNECTED")'
                    /\ \A i \in mounted' : Misled(i, k)' => Told(k, "DISCONNECTED")'
  BY DEF AbsenceIsTold
<1>1. Absent(k)
  BY DEF Absent
<1>2. ASSUME NEW n \in DOMAIN toJs', Suggests(toJs'[n], k) PROVE ToldAfter(n, k, "DISCONNECTED")'
  <2>1. n + 1 \in DOMAIN toJs /\ Suggests(toJs[n + 1], k)
    BY <1>2, ShrunkJs
  <2>2. ToldAfter(n + 1, k, "DISCONNECTED")
    BY <1>1, <2>1 DEF AbsenceIsTold
  <2> QED BY <2>2, TailTells
<1>3. ASSUME NEW i \in mounted, Misled(i, k)' PROVE Told(k, "DISCONNECTED")'
  <2>1. CASE Suggests(Head(toJs), k)
    <3>1. ToldAfter(1, k, "DISCONNECTED")
      BY <1>1, <2>1, ShrunkJs DEF AbsenceIsTold
    <3> QED BY <3>1, TailTells
  <2>2. CASE Misled(i, k)
    <3>1. Told(k, "DISCONNECTED")
      BY <1>1, <2>2 DEF AbsenceIsTold
    <3> QED BY <1>3, <3>1, TailTells
  <2> QED BY <1>3, <2>1, <2>2
<1> QED BY <1>2, <1>3

\* An instance loses a live peer by nothing but a message that denies it, and a
\* BLE_CONNECTED leaves no instance without it.
LEMMA HandledPresence ==
  ASSUME QueuesTyped, PresenceIsTold, toJs # <<>>, toJs' = Tail(toJs),
         UNCHANGED <<state, role, gatt, server, mounted>>,
         \A i \in mounted, k \in Key :
           /\ Covered(i, k) => Covered(i, k)' \/ Denies(Head(toJs), k)
           /\ Tells(Head(toJs), k, "CONNECTED") => Covered(i, k)'
  PROVE  PresenceIsTold'
<1> SUFFICES ASSUME NEW k \in Key, Live(k)'
             PROVE  /\ \A n \in DOMAIN toJs' : Denies(toJs'[n], k) => ToldAfter(n, k, "CONNECTED")'
                    /\ \A i \in mounted' : Covered(i, k)' \/ Told(k, "CONNECTED")'
  BY DEF PresenceIsTold
<1>1. Live(k)
  BY DEF Live
<1>2. ASSUME NEW n \in DOMAIN toJs', Denies(toJs'[n], k) PROVE ToldAfter(n, k, "CONNECTED")'
  <2>1. n + 1 \in DOMAIN toJs /\ Denies(toJs[n + 1], k)
    BY <1>2, ShrunkJs
  <2>2. ToldAfter(n + 1, k, "CONNECTED")
    BY <1>1, <2>1 DEF PresenceIsTold
  <2> QED BY <2>2, TailTells
<1>3. ASSUME NEW i \in mounted PROVE Covered(i, k)' \/ Told(k, "CONNECTED")'
  <2>1. CASE Denies(Head(toJs), k)
    <3>1. ToldAfter(1, k, "CONNECTED")
      BY <1>1, <2>1, ShrunkJs DEF PresenceIsTold
    <3> QED BY <3>1, TailTells
  <2>2. CASE Covered(i, k) /\ ~Denies(Head(toJs), k)
    BY <2>2
  <2>3. CASE Told(k, "CONNECTED")
    BY <2>3, TailTells
  <2> QED BY <1>1, <2>1, <2>2, <2>3 DEF PresenceIsTold
<1> QED BY <1>2, <1>3


\* The queries that are left when one message is handled and no call is added.
LEMMA HandledQueries ==
  ASSUME QueuesTyped, QueriesAwaited, QueriesOnce, toJs # <<>>, toJs' = Tail(toJs),
         toNative' = toNative, mounted' = mounted,
         \A m : /\ Query(m) /\ Awaited(m)
                /\ Query(Head(toJs)) /\ m.hook \in mounted => ~SameQuery(Head(toJs), m)
                => Awaited(m)'
  PROVE  QueriesAwaited' /\ QueriesOnce'
<1>1. ASSUME NEW n \in DOMAIN toNative, Query(toNative[n]), toNative[n].hook \in mounted
      PROVE  ~SameQuery(Head(toJs), toNative[n])
  BY <1>1, ShrunkJs, SameQueries DEF QueriesOnce
<1>2. ASSUME NEW n \in DOMAIN toJs', Query(toJs[n + 1]), toJs[n + 1].hook \in mounted
      PROVE  ~SameQuery(Head(toJs), toJs[n + 1])
  <2>1. 1 \in DOMAIN toJs /\ Head(toJs) = toJs[1] /\ n + 1 \in DOMAIN toJs /\ n + 1 # 1
    BY ShrunkJs
  <2>2. SameQuery(toJs[n + 1], toJs[1]) => n + 1 = 1
    BY <1>2, <2>1 DEF QueriesOnce
  <2> QED BY <2>1, <2>2, SameQueries
<1>3. ASSUME NEW m, Query(m),
             \/ \E n \in DOMAIN toNative : m = toNative[n]
             \/ \E n \in DOMAIN toJs' : m = toJs[n + 1]
      PROVE  Awaited(m)'
  <2>1. Awaited(m)
    BY <1>3, ShrunkJs DEF QueriesAwaited
  <2> QED BY <1>1, <1>2, <1>3, <2>1
<1>4. QueriesAwaited'
  <2>1. ASSUME NEW n \in DOMAIN toNative', NEW m, m = toNative'[n], Query(m) PROVE Awaited(m)'
    BY <1>3, <2>1
  <2>2. ASSUME NEW n \in DOMAIN toJs', NEW m, m = toJs'[n], Query(m) PROVE Awaited(m)'
    <3>1. m = toJs[n + 1]
      BY <2>2, ShrunkJs
    <3> QED BY <1>3, <2>2, <3>1
  <2> QED BY <2>1, <2>2 DEF QueriesAwaited, Awaited
<1>5. ASSUME NEW m \in DOMAIN toJs', NEW n \in DOMAIN toJs', Query(toJs'[m]),
             toJs'[m].hook \in mounted', SameQuery(toJs'[m], toJs'[n])
      PROVE  m = n
  <2>1. /\ m \in Nat /\ m + 1 \in DOMAIN toJs /\ toJs'[m] = toJs[m + 1]
        /\ n \in Nat /\ n + 1 \in DOMAIN toJs /\ toJs'[n] = toJs[n + 1]
    BY ShrunkJs
  <2>2. m + 1 = n + 1
    BY <1>5, <2>1 DEF QueriesOnce
  <2> QED BY <2>1, <2>2
<1>6. ASSUME NEW m \in DOMAIN toNative', NEW n \in DOMAIN toJs', Query(toNative'[m]),
             toNative'[m].hook \in mounted', SameQuery(toNative'[m], toJs'[n])
      PROVE  FALSE
  BY <1>6, ShrunkJs DEF QueriesOnce
<1>7. \A m, n \in DOMAIN toNative' :
        Query(toNative'[m]) /\ toNative'[m].hook \in mounted' /\ SameQuery(toNative'[m], toNative'[n]) => m = n
  BY DEF QueriesOnce
<1> QED BY <1>4, <1>5, <1>6, <1>7 DEF QueriesOnce, SameQuery, Query

\* A message that belongs to no hydration: the hydrations stay as they are.
LEMMA HandledKeepsQueries ==
  ASSUME QueuesTyped, QueriesAwaited, QueriesOnce, toJs # <<>>, toJs' = Tail(toJs),
         UNCHANGED <<toNative, mounted, hydration, waits>>, ~Query(Head(toJs))
  PROVE  QueriesAwaited' /\ QueriesOnce'
<1>1. \A m : Awaited(m) => Awaited(m)'
  BY DEF Awaited
<1> QED BY <1>1, HandledQueries

LEMMA StillAsked ==
  ASSUME QueuesTyped, toJs # <<>>, toJs' = Tail(toJs), toNative' = toNative, NEW i, NEW k,
         Asked(i, k), ~(Tells(Head(toJs), k, "state") /\ Head(toJs).hook = i)
  PROVE  Asked(i, k)'
<1>1. CASE \E n \in DOMAIN toNative : Tells(toNative[n], k, "state") /\ toNative[n].hook = i
  BY <1>1 DEF Asked
<1>2. CASE \E n \in DOMAIN toJs : Tells(toJs[n], k, "state") /\ toJs[n].hook = i
  <2> PICK n \in DOMAIN toJs : Tells(toJs[n], k, "state") /\ toJs[n].hook = i
    BY <1>2
  <2>1. n - 1 \in DOMAIN toJs' /\ toJs'[n - 1] = toJs[n]
    BY ShrunkJs
  <2>2. \E m \in DOMAIN toJs' : Tells(toJs'[m], k, "state") /\ toJs'[m].hook = i
    BY <2>1
  <2> QED BY <2>2 DEF Asked, Tells
<1> QED BY <1>1, <1>2 DEF Asked

\* What an instance knows of k stays the same.
SameView(i, k) ==
  /\ hydration'[i] = hydration[i] /\ found'[i] = found[i]
  /\ peers'[i][k] = peers[i][k] /\ (k \in touched'[i] <=> k \in touched[i])
  /\ k \in unheard[i] => k \in unheard'[i]

LEMMA SameViews ==
  ASSUME QueuesTyped, toJs # <<>>, toJs' = Tail(toJs), toNative' = toNative, NEW i, NEW k,
         SameView(i, k), Head(toJs).op # "state" \/ Head(toJs).hook # i
  PROVE  (Misled(i, k)' => Misled(i, k)) /\ (Covered(i, k) => Covered(i, k)')
<1>1. Asked(i, k) => Asked(i, k)'
  BY StillAsked DEF Tells
<1> QED BY <1>1 DEF SameView, Misled, Covered, Hydrating, Requested

LEMMA EventStep ==
  ASSUME HookInv, OnConnecting \/ OnConnected \/ OnDisconnected PROVE ScreensInv'
<1> DEFINE h == Head(toJs)
<1>1. PICK k \in Key : k = h.key /\ EventEffect(k)
  BY Events DEF HookInv, ServerEntries, Typed, EventEffect
<1>2. /\ QueuesTyped /\ HooksTyped /\ toJs # <<>> /\ toJs' = Tail(toJs)
      /\ h.op \in {"CONNECTING", "CONNECTED", "DISCONNECTED"}
      /\ UNCHANGED <<state, role, gatt, server, silent, toNative, mounted, hydration, ids, found, waits>>
      /\ Lifecycle /\ QueriesAwaited /\ QueriesOnce /\ AbsenceIsTold /\ PresenceIsTold
  BY <1>1 DEF EventEffect, NativeIsUntouched, hydrationVars, HookInv, ScreensInv, ServerEntries, Typed
<1>3. /\ \A i \in Instance, j \in Key : i \notin mounted \/ j # k => peers'[i][j] = peers[i][j]
      /\ \A i \in mounted : h.op = "CONNECTED" => peers'[i][k] = "CONNECTED"
      /\ \A i \in mounted : h.op = "DISCONNECTED" => peers'[i][k] = "NONE"
      /\ \A i \in Instance : /\ Hydrating(i) => touched'[i] = touched[i] \cup {k}
                             /\ ~Hydrating(i) => touched'[i] = touched[i]
      /\ \A i \in Instance : pending'[i] \subseteq pending[i]
      /\ \A i \in Instance, j \in Key : j # k => (j \in unheard'[i] <=> j \in unheard[i])
      /\ mounted \subseteq Instance
  BY <1>1, <1>2 DEF EventEffect, Touch, HooksTyped
<1> HIDE DEF h
<1>4. Lifecycle'
  <2>1. \A i \in Instance \ mounted : ~Hydrating(i)
    BY <1>2 DEF Lifecycle, Hydrating
  <2>2. \A i \in Instance \ mounted : touched'[i] = {} /\ pending'[i] = {} /\ \A j \in Key : peers'[i][j] = "NONE"
    BY <1>2, <1>3, <2>1 DEF Lifecycle
  <2>3. \A i \in mounted : hydration[i] \in {"enabled", "device"} => touched'[i] = {}
    BY <1>2, <1>3 DEF Lifecycle, Hydrating
  <2> QED BY <1>2, <2>2, <2>3 DEF Lifecycle
<1>5. QueriesAwaited' /\ QueriesOnce'
  BY <1>2, HandledKeepsQueries DEF Query, h
<1>6. ASSUME NEW i \in mounted, NEW j \in Key, j # k
      PROVE  (Misled(i, j)' => Misled(i, j)) /\ (Covered(i, j) => Covered(i, j)')
  <2>1. SameView(i, j)
    BY <1>2, <1>3, <1>6 DEF SameView, Hydrating
  <2> QED BY <1>2, <2>1, SameViews DEF h
<1>7. ASSUME NEW i \in mounted PROVE Hydrating(i) => k \in touched'[i]
  BY <1>3
<1>8. AbsenceIsTold'
  <2>1. ASSUME NEW i \in mounted, Misled(i, k)' PROVE Suggests(h, k)
    BY <1>1, <1>2, <1>3, <1>7, <2>1 DEF Misled, Suggests, Hydrating
  <2>2. ASSUME NEW i \in mounted, Tells(h, k, "DISCONNECTED") PROVE ~Misled(i, k)'
    BY <1>2, <1>3, <1>7, <2>2 DEF Misled, Tells, Hydrating
  <2>3. \A j \in Key : Tells(h, j, "DISCONNECTED") => j = k
    BY <1>1 DEF Tells
  <2> QED BY <1>2, <1>6, <2>1, <2>2, <2>3, HandledAbsence DEF h
<1>9. PresenceIsTold'
  <2>1. ASSUME NEW i \in mounted PROVE Covered(i, k)' \/ Denies(h, k)
    BY <1>1, <1>2, <1>3, <1>7 DEF Covered, Denies, Hydrating, HooksTyped
  <2>2. ASSUME NEW i \in mounted, Tells(h, k, "CONNECTED") PROVE Covered(i, k)'
    BY <1>2, <1>3, <1>7, <2>2 DEF Covered, Tells, Hydrating, HooksTyped, Lifecycle
  <2>3. \A j \in Key : Tells(h, j, "CONNECTED") => j = k
    BY <1>1 DEF Tells
  <2> QED BY <1>2, <1>6, <2>1, <2>2, <2>3, HandledPresence DEF h
<1> QED BY <1>4, <1>5, <1>8, <1>9 DEF ScreensInv

\* An error reverts optimistic entries only; an instance that hydrates meanwhile
\* takes note of the peer it has reverted.
LEMMA ErrorStep == ASSUME HookInv, OnConnectionError PROVE ScreensInv'
<1> DEFINE single(i) == i \in mounted /\ Cardinality(pending[i]) = 1
<1>1. /\ QueuesTyped /\ HooksTyped /\ toJs # <<>> /\ toJs' = Tail(toJs) /\ Head(toJs).op = "ERROR"
      /\ UNCHANGED <<state, role, gatt, server, silent, toNative, mounted, hydration, ids, found, waits>>
      /\ Lifecycle /\ QueriesAwaited /\ QueriesOnce /\ AbsenceIsTold /\ PresenceIsTold
  BY DEF OnConnectionError, Handles, NativeIsUntouched, hydrationVars, HookInv, ScreensInv,
         ServerEntries, Typed
<1>2. \A i \in Instance :
        \/ touched'[i] = touched[i] /\ unheard'[i] = unheard[i]
        \/ /\ i \in mounted /\ Hydrating(i)
           /\ touched'[i] = touched[i] \cup pending[i] /\ unheard'[i] = unheard[i] \cup pending[i]
  BY DEF OnConnectionError, Touch
<1>3. \A i \in Instance : pending'[i] = {} \/ pending'[i] = pending[i]
  BY DEF OnConnectionError
<1>4. ASSUME NEW i \in Instance, NEW k \in Key
      PROVE  /\ peers'[i][k] = peers[i][k] \/ (i \in mounted /\ peers[i][k] = "CONNECTING" /\ peers'[i][k] = "NONE")
  <2>1. peers'[i] = IF single(i) THEN [j \in Key |-> IF j \in pending[i] THEN Revert(peers[i][j]) ELSE peers[i][j]]
                                 ELSE peers[i]
    BY DEF OnConnectionError
  <2> QED BY <2>1 DEF Revert
<1> HIDE DEF single
<1>5. mounted \subseteq Instance
  BY <1>1 DEF HooksTyped
<1>6. Lifecycle'
  <2>1. \A i \in Instance \ mounted : touched'[i] = {} /\ pending'[i] = {} /\ \A k \in Key : peers'[i][k] = "NONE"
    BY <1>1, <1>2, <1>3, <1>4 DEF Lifecycle
  <2>2. \A i \in mounted : hydration[i] \in {"enabled", "device"} => touched'[i] = {}
    BY <1>1, <1>2, <1>5 DEF Lifecycle, Hydrating
  <2> QED BY <1>1, <2>1, <2>2 DEF Lifecycle
<1>7. QueriesAwaited' /\ QueriesOnce'
  BY <1>1, HandledKeepsQueries DEF Query
<1>8. ASSUME NEW i \in mounted, NEW k \in Key
      PROVE  (Misled(i, k)' => Misled(i, k)) /\ (Covered(i, k) => Covered(i, k)')
  <2>1. i \in Instance
    BY <1>5
  <2>2. Asked(i, k) => Asked(i, k)'
    BY <1>1, StillAsked DEF Tells
  <2>3. Requested(i, k)' = Requested(i, k)
    BY <1>1 DEF Requested
  <2>4. peers'[i][k] = peers[i][k] \/ (peers[i][k] = "CONNECTING" /\ peers'[i][k] = "NONE")
    BY <1>4, <2>1
  <2>5. /\ k \in touched[i] => k \in touched'[i]
        /\ k \in unheard[i] => k \in unheard'[i]
        /\ k \in touched'[i] => k \in touched[i] \/ k \in unheard'[i]
    BY <1>2, <2>1
  <2>6. Misled(i, k)' => Misled(i, k)
    BY <1>1, <2>3, <2>4, <2>5 DEF Misled, Hydrating
  <2>7. Covered(i, k) => Covered(i, k)'
    BY <1>1, <2>2, <2>4, <2>5 DEF Covered
  <2> QED BY <2>6, <2>7
<1>9. \A k \in Key, what \in {"CONNECTED", "DISCONNECTED"} : ~Tells(Head(toJs), k, what)
  BY <1>1 DEF Tells
<1>10. AbsenceIsTold'
  BY <1>1, <1>8, <1>9, HandledAbsence
<1>11. PresenceIsTold'
  BY <1>1, <1>8, <1>9, HandledPresence
<1> QED BY <1>6, <1>7, <1>10, <1>11 DEF ScreensInv

\* The answer to a connect changes nothing that is shown, the answer to a
\* disconnect takes away the peer it names.
LEMMA AnswerStep ==
  ASSUME HookInv, ConnectDone \/ ConnectRefused \/ DisconnectDone PROVE ScreensInv'
<1> DEFINE h == Head(toJs)
<1>1. /\ QueuesTyped /\ HooksTyped /\ toJs # <<>> /\ toJs' = Tail(toJs)
      /\ h.op \in {"connectDone", "connectRefused", "disconnectDone"}
      /\ UNCHANGED <<state, role, gatt, server, silent, toNative, mounted, hydration, ids, found, waits, touched, unheard>>
      /\ Lifecycle /\ QueriesAwaited /\ QueriesOnce /\ AbsenceIsTold /\ PresenceIsTold
  BY DEF ConnectDone, ConnectRefused, DisconnectDone, Handles, NativeIsUntouched, hydrationVars,
         hookVars, HookInv, ScreensInv, ServerEntries, Typed
<1>2. h.key \in Key /\ h.hook \in Instance
  <2>1. h \in MessageSet
    BY <1>1 DEF QueuesTyped
  <2> HIDE DEF h
  <2> QED BY <1>1, <2>1, MessageFields
<1>3. \A i \in Instance : pending'[i] \subseteq pending[i]
  BY <1>1, <1>2 DEF HooksTyped, ConnectDone, ConnectRefused, DisconnectDone, hookVars
<1>4. ASSUME NEW i \in Instance, NEW k \in Key
      PROVE  \/ peers'[i][k] = peers[i][k]
             \/ i \in mounted /\ k = h.key /\ h.op = "disconnectDone" /\ peers'[i][k] = "NONE"
  <2>1. \/ peers' = peers
        \/ h.op = "disconnectDone" /\ h.hook \in mounted /\ peers' = [peers EXCEPT ![h.hook][h.key] = "NONE"]
    BY DEF ConnectDone, ConnectRefused, DisconnectDone, Handles, hookVars
  <2> HIDE DEF h
  <2>2. ASSUME peers' = [peers EXCEPT ![h.hook][h.key] = "NONE"] PROVE OnePeer(h.hook, h.key, "NONE")
    BY <1>1, <1>2, <2>2, PeersExcept DEF PeerState
  <2> QED BY <1>2, <2>1, <2>2 DEF OnePeer
<1> HIDE DEF h
<1>5. Lifecycle'
  <2>1. mounted \subseteq Instance
    BY <1>1 DEF HooksTyped
  <2>2. \A i \in Instance \ mounted : pending'[i] = {} /\ \A k \in Key : peers'[i][k] = "NONE"
    BY <1>1, <1>3, <1>4 DEF Lifecycle
  <2> QED BY <1>1, <2>1, <2>2 DEF Lifecycle
<1>6. QueriesAwaited' /\ QueriesOnce'
  BY <1>1, HandledKeepsQueries DEF Query, h
<1>7. ASSUME NEW i \in mounted, NEW k \in Key
      PROVE  /\ Misled(i, k)' => Misled(i, k)
             /\ Covered(i, k) => Covered(i, k)' \/ Denies(h, k)
  <2>1. i \in Instance
    BY <1>1 DEF HooksTyped
  <2>2. CASE peers'[i][k] = peers[i][k]
    <3>1. SameView(i, k)
      BY <1>1, <2>1, <2>2 DEF SameView
    <3> QED BY <1>1, <3>1, SameViews DEF h
  <2>3. CASE k = h.key /\ h.op = "disconnectDone" /\ peers'[i][k] = "NONE"
    <3>1. Denies(h, k)
      BY <2>3 DEF Denies
    <3>2. Misled(i, k)' => Misled(i, k)
      BY <1>1, <2>1, <2>3 DEF Misled, Hydrating
    <3> QED BY <3>1, <3>2
  <2> QED BY <1>4, <2>1, <2>2, <2>3
<1>8. \A k \in Key, what \in {"CONNECTED", "DISCONNECTED"} : ~Tells(h, k, what)
  BY <1>1 DEF Tells
<1>9. AbsenceIsTold'
  BY <1>1, <1>7, <1>8, HandledAbsence DEF h
<1>10. PresenceIsTold'
  BY <1>1, <1>7, <1>8, HandledPresence DEF h
<1> QED BY <1>5, <1>6, <1>9, <1>10 DEF ScreensInv

\* A message of one of the queues that a step leaves there.
Remains(m) ==
  \/ \E n \in DOMAIN toNative : m = toNative[n]
  \/ \E n \in DOMAIN toJs' : m = toJs'[n]

LEMMA GrownNative ==
  ASSUME QueuesTyped, NEW new \in Seq(CallSet), toNative' = toNative \o new
  PROVE  /\ \A n \in DOMAIN toNative : n \in DOMAIN toNative' /\ toNative'[n] = toNative[n]
         /\ \A n \in DOMAIN toNative' :
              \/ n \in DOMAIN toNative /\ toNative'[n] = toNative[n]
              \/ /\ n \in Nat /\ n - Len(toNative) \in DOMAIN new
                 /\ toNative'[n] = new[n - Len(toNative)]
         /\ \A j \in DOMAIN new : Len(toNative) + j \in DOMAIN toNative' /\ toNative'[Len(toNative) + j] = new[j]
         /\ Len(toNative) \in Nat
<1>1. toNative \in Seq(CallSet)
  BY DEF QueuesTyped
<1>2. /\ Len(toNative') = Len(toNative) + Len(new)
      /\ \A n \in 1 .. Len(toNative') : toNative'[n] = IF n <= Len(toNative) THEN toNative[n] ELSE new[n - Len(toNative)]
      /\ toNative' \in Seq(CallSet)
  BY <1>1, ConcatProperties
<1>3. /\ DOMAIN toNative = 1 .. Len(toNative) /\ Len(toNative) \in Nat
      /\ DOMAIN new = 1 .. Len(new) /\ Len(new) \in Nat
      /\ DOMAIN toNative' = 1 .. Len(toNative')
  BY <1>1, <1>2
<1> QED BY <1>2, <1>3

\* Calls are posted, at most one message is handled.
LEMMA MoreQueries ==
  ASSUME QueuesTyped, QueriesOnce, toJs' = toJs \/ (toJs # <<>> /\ toJs' = Tail(toJs)),
         NEW new \in Seq(CallSet), toNative' = toNative \o new,
         \A m : Remains(m) /\ Query(m) => Awaited(m)' /\ (m.hook \in mounted' => m.hook \in mounted),
         \A j \in DOMAIN new : Query(new[j]) => Awaited(new[j])',
         \A j \in DOMAIN new : Query(new[j]) /\ new[j].hook \in mounted' =>
           /\ \A m : Remains(m) => ~SameQuery(new[j], m)
           /\ \A l \in DOMAIN new : SameQuery(new[j], new[l]) => j = l
  PROVE  QueriesAwaited' /\ QueriesOnce'
<1>1. PICK s \in {0, 1} : \A n \in DOMAIN toJs' : n \in Nat /\ n + s \in DOMAIN toJs /\ toJs'[n] = toJs[n + s]
  <2>1. CASE toJs' = toJs
    BY <2>1 DEF QueuesTyped
  <2>2. CASE toJs # <<>> /\ toJs' = Tail(toJs)
    BY <2>2, ShrunkJs
  <2> QED BY <2>1, <2>2
<1>2. ASSUME NEW n \in DOMAIN toNative', NEW m, m = toNative'[n] PROVE Remains(m) \/ \E j \in DOMAIN new : m = new[j]
  BY <1>2, GrownNative DEF Remains
<1>3. \A n \in DOMAIN toJs' : Remains(toJs'[n])
  BY DEF Remains
<1>4. QueriesAwaited'
  <2>1. ASSUME NEW n \in DOMAIN toNative', NEW m, m = toNative'[n], Query(m) PROVE Awaited(m)'
    BY <1>2, <2>1
  <2>2. ASSUME NEW n \in DOMAIN toJs', NEW m, m = toJs'[n], Query(m) PROVE Awaited(m)'
    BY <1>3, <2>2
  <2> QED BY <2>1, <2>2 DEF QueriesAwaited, Awaited
<1>5. ASSUME NEW m \in DOMAIN toJs', NEW n \in DOMAIN toJs', Query(toJs'[m]),
             toJs'[m].hook \in mounted', SameQuery(toJs'[m], toJs'[n])
      PROVE  m = n
  <2>1. toJs'[m].hook \in mounted
    BY <1>3, <1>5
  <2>2. m + s = n + s
    BY <1>1, <1>5, <2>1 DEF QueriesOnce
  <2> QED BY <1>1, <2>2
<1>6. ASSUME NEW m \in DOMAIN toNative', NEW n \in DOMAIN toJs', Query(toNative'[m]),
             toNative'[m].hook \in mounted', SameQuery(toNative'[m], toJs'[n])
      PROVE  FALSE
  <2>1. CASE m \in DOMAIN toNative /\ toNative'[m] = toNative[m]
    <3>1. toNative[m].hook \in mounted
      BY <1>6, <2>1 DEF Remains
    <3> QED BY <1>1, <1>6, <2>1, <3>1 DEF QueriesOnce
  <2>2. CASE \E j \in DOMAIN new : toNative'[m] = new[j]
    BY <1>3, <1>6, <2>2
  <2> QED BY <2>1, <2>2, GrownNative
<1>7. ASSUME NEW m \in DOMAIN toNative', NEW n \in DOMAIN toNative', Query(toNative'[m]),
             toNative'[m].hook \in mounted', SameQuery(toNative'[m], toNative'[n])
      PROVE  m = n
  <2>1. SameQuery(toNative'[n], toNative'[m]) /\ Query(toNative'[n]) /\ toNative'[n].hook \in mounted'
    BY <1>7, SameQueries
  <2>2. CASE m \in DOMAIN toNative /\ toNative'[m] = toNative[m] /\ n \in DOMAIN toNative /\ toNative'[n] = toNative[n]
    <3>1. toNative[m].hook \in mounted
      BY <1>7, <2>2 DEF Remains
    <3> QED BY <1>7, <2>2, <3>1 DEF QueriesOnce
  <2>3. CASE m \in DOMAIN toNative /\ toNative'[m] = toNative[m] /\ \E j \in DOMAIN new : toNative'[n] = new[j]
    BY <2>1, <2>3 DEF Remains
  <2>4. CASE n \in DOMAIN toNative /\ toNative'[n] = toNative[n] /\ \E j \in DOMAIN new : toNative'[m] = new[j]
    BY <1>7, <2>4 DEF Remains
  <2>5. CASE /\ m \in Nat /\ m - Len(toNative) \in DOMAIN new /\ toNative'[m] = new[m - Len(toNative)]
             /\ n \in Nat /\ n - Len(toNative) \in DOMAIN new /\ toNative'[n] = new[n - Len(toNative)]
    <3>1. m - Len(toNative) = n - Len(toNative)
      BY <1>7, <2>5
    <3> QED BY <2>5, <3>1, GrownNative
  <2> QED BY <2>2, <2>3, <2>4, <2>5, GrownNative
<1> QED BY <1>4, <1>5, <1>6, <1>7 DEF QueriesOnce, SameQuery, Query

\* One call that is no query, or none at all.
LEMMA OneMoreCall ==
  ASSUME QueuesTyped, QueriesAwaited, QueriesOnce, toJs' = toJs,
         mounted' \subseteq mounted, waits' = waits, hydration' = hydration,
         \E c \in CallSet : ~Query(c) /\ toNative' = Append(toNative, c)
  PROVE  QueriesAwaited' /\ QueriesOnce'
<1> PICK c \in CallSet : ~Query(c) /\ toNative' = Append(toNative, c)
  OBVIOUS
<1>1. <<c>> \in Seq(CallSet) /\ toNative' = toNative \o <<c>> /\ DOMAIN <<c>> = {1} /\ <<c>>[1] = c
  BY DEF QueuesTyped
<1>2. \A m : Remains(m) /\ Query(m) => Awaited(m)
  BY DEF Remains, QueriesAwaited
<1>3. \A m : Remains(m) /\ Query(m) => Awaited(m)'
  BY <1>2 DEF Awaited
<1> QED BY <1>1, <1>3, MoreQueries

\* No message is handled: who was not misled stays so, who was covered too.
LEMMA NothingHandled ==
  ASSUME toJs' = toJs, UNCHANGED <<state, role, gatt, server, silent>>, AbsenceIsTold, PresenceIsTold,
         \A i \in mounted', k \in Key :
           /\ Misled(i, k)' => i \in mounted /\ Misled(i, k)
           /\ Covered(i, k)' \/ (i \in mounted /\ ~Covered(i, k))
  PROVE  AbsenceIsTold' /\ PresenceIsTold'
<1>1. \A k \in Key, what \in {"CONNECTED", "DISCONNECTED"} : Told(k, what)' = Told(k, what)
  BY DEF Told
<1>2. ASSUME NEW k \in Key, Absent(k)'
      PROVE  /\ \A n \in DOMAIN toJs' : Suggests(toJs'[n], k) => ToldAfter(n, k, "DISCONNECTED")'
             /\ \A i \in mounted' : Misled(i, k)' => Told(k, "DISCONNECTED")'
  <2>1. Absent(k)
    BY <1>2 DEF Absent
  <2> QED BY <1>1, <2>1 DEF AbsenceIsTold, ToldAfter
<1>3. ASSUME NEW k \in Key, Live(k)'
      PROVE  /\ \A n \in DOMAIN toJs' : Denies(toJs'[n], k) => ToldAfter(n, k, "CONNECTED")'
             /\ \A i \in mounted' : Covered(i, k)' \/ Told(k, "CONNECTED")'
  <2>1. Live(k)
    BY <1>3 DEF Live
  <2> QED BY <1>1, <2>1 DEF PresenceIsTold, ToldAfter
<1> QED BY <1>2, <1>3 DEF AbsenceIsTold, PresenceIsTold

\* A call more leaves the earlier ones where they are.
LEMMA StillCalled ==
  ASSUME QueuesTyped, toJs' = toJs, NEW c \in CallSet, toNative' = Append(toNative, c), NEW i, NEW k
  PROVE  /\ Requested(i, k) => Requested(i, k)'
         /\ Tells(c, k, "connect") /\ c.hook = i => Requested(i, k)'
         /\ Asked(i, k) => Asked(i, k)'
<1>1. /\ \A n \in DOMAIN toNative : n \in DOMAIN toNative' /\ toNative'[n] = toNative[n]
      /\ Len(toNative') \in DOMAIN toNative' /\ toNative'[Len(toNative')] = c
  BY DEF QueuesTyped
<1>2. Requested(i, k) => Requested(i, k)'
  BY <1>1 DEF Requested
<1>3. Tells(c, k, "connect") /\ c.hook = i => Requested(i, k)'
  BY <1>1 DEF Requested, Tells
<1>4. Asked(i, k) => Asked(i, k)'
  BY <1>1 DEF Asked
<1> QED BY <1>2, <1>3, <1>4

LEMMA PressStep ==
  ASSUME HookInv, NEW i \in Instance, NEW k \in Key, PressConnect(i, k) \/ PressDisconnect(i, k)
  PROVE  ScreensInv'
<1>1. /\ QueuesTyped /\ HooksTyped /\ EntriesTyped
      /\ UNCHANGED <<state, role, gatt, server, silent, toJs, mounted, hydration, ids, found, waits>>
      /\ Lifecycle /\ QueriesAwaited /\ QueriesOnce /\ AbsenceIsTold /\ PresenceIsTold
  BY DEF PressConnect, PressDisconnect, hydrationVars, HookInv, ScreensInv, ServerEntries, Typed
<1>2. i \in mounted /\ i # Home /\ mounted \subseteq Instance
  BY <1>1, RowIs DEF PressConnect, PressDisconnect, HooksTyped
<1>3. PICK c \in CallSet :
        /\ toNative' = Append(toNative, c) /\ ~Query(c) /\ c.key = k /\ c.hook = i
        /\ PressConnect(i, k) => c.op = "connect"
  <2>1. CASE PressConnect(i, k)
    <3>1. k \in Device
      BY <1>1, <2>1, RowIs DEF PressConnect, EntriesTyped
    <3>2. Call("connect", k, i) \in CallSet
      BY <3>1 DEF Call, CallSet
    <3> QED BY <2>1, <3>2 DEF PressConnect, Call, Query
  <2>2. CASE PressDisconnect(i, k)
    <3>1. Call("disconnect", k, i) \in CallSet
      BY DEF Call, CallSet
    <3>2. ~PressConnect(i, k)
      BY <1>1, <2>2, RowIs DEF PressConnect, PressDisconnect
    <3> QED BY <2>2, <3>1, <3>2 DEF PressDisconnect, Call, Query
  <2> QED BY <2>1, <2>2
<1>4. QueriesAwaited' /\ QueriesOnce'
  BY <1>1, <1>3, OneMoreCall
<1>5. \A j \in Instance : /\ Hydrating(j) /\ j = i => touched'[j] = touched[j] \cup {k}
                          /\ ~Hydrating(j) \/ j # i => touched'[j] = touched[j]
  BY <1>1 DEF PressConnect, PressDisconnect, Touch, HooksTyped
<1>6. /\ \A j \in Instance : j # i => pending'[j] = pending[j]
      /\ \A j \in Instance, l \in Key : l \in unheard[j] => l \in unheard'[j]
  BY <1>1 DEF PressConnect, PressDisconnect, HooksTyped
<1>7. \A j \in Instance, l \in Key : j # i \/ l # k => peers'[j][l] = peers[j][l]
  BY <1>1, PeersExcept DEF PressConnect, PressDisconnect, OnePeer, PeerState
<1>8. Lifecycle'
  <2>1. \A j \in Instance \ mounted : ~Hydrating(j) /\ j # i
    BY <1>1, <1>2 DEF Lifecycle, Hydrating
  <2>2. \A j \in Instance \ mounted : touched'[j] = {} /\ pending'[j] = {} /\ \A l \in Key : peers'[j][l] = "NONE"
    BY <1>1, <1>5, <1>6, <1>7, <2>1 DEF Lifecycle
  <2>3. \A j \in mounted : hydration[j] \in {"enabled", "device"} => touched'[j] = {}
    BY <1>1, <1>2, <1>5 DEF Lifecycle, Hydrating
  <2> QED BY <1>1, <2>2, <2>3 DEF Lifecycle
<1>9. ASSUME NEW j \in mounted, NEW l \in Key, j # i \/ l # k
      PROVE  (Misled(j, l)' => Misled(j, l)) /\ (Covered(j, l) => Covered(j, l)')
  <2>1. /\ peers'[j][l] = peers[j][l] /\ (l \in touched'[j] <=> l \in touched[j])
        /\ l \in unheard[j] => l \in unheard'[j]
    BY <1>2, <1>5, <1>6, <1>7, <1>9
  <2>2. (Requested(j, l) => Requested(j, l)') /\ (Asked(j, l) => Asked(j, l)')
    BY <1>1, <1>3, StillCalled
  <2> QED BY <1>1, <2>1, <2>2 DEF Misled, Covered, Hydrating
<1>10. (Misled(i, k)' => Misled(i, k)) /\ (Covered(i, k)' \/ ~Covered(i, k))
  <2>1. CASE PressConnect(i, k)
    <3>1. Requested(i, k)'
      BY <1>1, <1>3, <2>1, StillCalled DEF Tells
    <3>2. peers[i][k] = "NONE" /\ (k \in unheard[i] => k \in unheard'[i])
      BY <1>1, <1>6, <2>1, RowIs DEF PressConnect
    <3>3. Misled(i, k)' => Misled(i, k)
      BY <1>1, <1>2, <1>5, <3>1 DEF Misled, Hydrating
    <3>4. CASE Hydrating(i)
      <4>1. k \in unheard'[i]
        BY <1>1, <2>1, <3>4 DEF PressConnect, HooksTyped
      <4> QED BY <3>3, <4>1 DEF Covered
    <3>5. CASE hydration[i] \in {"enabled", "device"}
      <4>1. k \notin touched'[i] /\ hydration'[i] \notin {"done", "states"}
        BY <1>1, <1>2, <1>5, <3>5 DEF Lifecycle, Hydrating
      <4> QED BY <3>3, <4>1 DEF Covered
    <3>6. CASE hydration[i] = "done"
      BY <3>2, <3>3, <3>6 DEF Covered
    <3> QED BY <1>1, <1>2, <3>4, <3>5, <3>6 DEF Lifecycle, HooksTyped, Hydrating
  <2>2. CASE PressDisconnect(i, k)
    <3>1. peers[i][k] = "CONNECTED" /\ peers' = peers
      BY <1>1, <2>2, RowIs DEF PressDisconnect
    <3>2. (Requested(i, k) => Requested(i, k)') /\ (Asked(i, k) => Asked(i, k)')
      BY <1>1, <1>3, StillCalled
    <3>3. (k \in touched[i] => k \in touched'[i]) /\ (k \in unheard[i] => k \in unheard'[i])
      BY <1>2, <1>5, <1>6
    <3> QED BY <1>1, <3>1, <3>2, <3>3 DEF Misled, Covered, Hydrating
  <2> QED BY <2>1, <2>2
<1>11. AbsenceIsTold' /\ PresenceIsTold'
  BY <1>1, <1>9, <1>10, NothingHandled
<1> QED BY <1>4, <1>8, <1>11 DEF ScreensInv

LEMMA OpenStep == ASSUME HookInv, OpenConnectScreen PROVE ScreensInv'
<1>1. /\ QueuesTyped /\ HooksTyped
      /\ UNCHANGED <<state, role, gatt, server, silent, toJs, peers, pending, touched, ids, found, waits, unheard>>
      /\ Lifecycle /\ QueriesAwaited /\ QueriesOnce /\ AbsenceIsTold /\ PresenceIsTold
  BY DEF OpenConnectScreen, HookInv, ScreensInv, ServerEntries, Typed
<1>2. PICK i \in Instance :
        /\ mounted = {Home} /\ mounted' = {Home, i} /\ hydration[i] = "off"
        /\ hydration' = [hydration EXCEPT ![i] = "enabled"]
        /\ toNative' = Append(toNative, [op |-> "enabled", hook |-> i])
  BY DEF OpenConnectScreen
<1>3. i \notin mounted /\ mounted \subseteq Instance
  BY <1>1, <1>2 DEF Lifecycle, HooksTyped
<1>4. hydration'[i] = "enabled" /\ \A j \in Instance \ {i} : hydration'[j] = hydration[j]
  BY <1>1, <1>2 DEF HooksTyped
<1>5. PICK c \in CallSet :
        /\ c.op = "enabled" /\ c.hook = i /\ toNative' = Append(toNative, c)
  <2>1. [op |-> "enabled", hook |-> i] \in CallSet
    BY DEF CallSet
  <2> QED BY <1>2, <2>1
<1>6. Lifecycle'
  <2>1. \A j \in Instance \ mounted' : j \notin mounted /\ hydration'[j] = hydration[j]
    BY <1>2, <1>4
  <2>2. \A j \in mounted : hydration'[j] = hydration[j]
    BY <1>3, <1>4
  <2>3. found[i] = {} /\ touched[i] = {}
    BY <1>1, <1>3 DEF Lifecycle
  <2> QED BY <1>1, <1>2, <1>4, <2>1, <2>2, <2>3 DEF Lifecycle, Hydrating
<1>7. QueriesAwaited' /\ QueriesOnce'
  <2>1. <<c>> \in Seq(CallSet) /\ toNative' = toNative \o <<c>> /\ DOMAIN <<c>> = {1} /\ <<c>>[1] = c
    BY <1>1, <1>5 DEF QueuesTyped
  <2>2. ASSUME NEW m, Remains(m), Query(m)
        PROVE  Awaited(m)' /\ (m.hook \in mounted' => m.hook \in mounted) /\ ~SameQuery(c, m)
    <3>1. Awaited(m) /\ m.hook \in Instance
      <4>1. m \in CallSet \/ m \in MessageSet
        BY <1>1, <2>2 DEF Remains, QueuesTyped
      <4> QED BY <1>1, <2>2, <4>1, CallFields, MessageFields DEF Remains, QueriesAwaited, Query
    <3>2. m.hook # i
      BY <1>2, <3>1 DEF Awaited
    <3>3. hydration'[m.hook] = hydration[m.hook] /\ (m.hook \in mounted' => m.hook \in mounted)
      BY <1>2, <1>4, <3>1, <3>2
    <3> QED BY <1>1, <1>5, <3>1, <3>2, <3>3 DEF Awaited, SameQuery
  <2>3. Awaited(c)'
    BY <1>4, <1>5 DEF Awaited
  <2>4. \A m : Remains(m) => ~SameQuery(c, m)
    BY <1>5, <2>2, SameQueries DEF Query
  <2> QED BY <1>1, <2>1, <2>2, <2>3, <2>4, MoreQueries
<1>8. ASSUME NEW j \in mounted, NEW k \in Key
      PROVE  (Misled(j, k)' => Misled(j, k)) /\ (Covered(j, k) => Covered(j, k)')
  <2>1. hydration'[j] = hydration[j]
    BY <1>3, <1>4
  <2>2. (Requested(j, k) => Requested(j, k)') /\ (Asked(j, k) => Asked(j, k)')
    BY <1>1, <1>5, StillCalled
  <2> QED BY <1>1, <2>1, <2>2 DEF Misled, Covered, Hydrating
<1>9. ASSUME NEW k \in Key PROVE ~Misled(i, k)' /\ Covered(i, k)'
  <2>1. peers[i][k] = "NONE" /\ found[i] = {} /\ touched[i] = {}
    BY <1>1, <1>3 DEF Lifecycle
  <2> QED BY <1>1, <1>4, <2>1 DEF Misled, Covered
<1>10. \A j \in mounted' : j \in mounted \/ j = i
  BY <1>2
<1>11. AbsenceIsTold' /\ PresenceIsTold'
  BY <1>1, <1>8, <1>9, <1>10, NothingHandled
<1> QED BY <1>6, <1>7, <1>11 DEF ScreensInv

LEMMA CloseStep == ASSUME HookInv, CloseConnectScreen PROVE ScreensInv'
<1>1. /\ QueuesTyped /\ HooksTyped
      /\ UNCHANGED <<state, role, gatt, server, silent, toJs, toNative>>
      /\ Lifecycle /\ QueriesAwaited /\ QueriesOnce /\ AbsenceIsTold /\ PresenceIsTold
  BY DEF CloseConnectScreen, managerVars, HookInv, ScreensInv, ServerEntries, Typed
<1>2. PICK i \in mounted \ {Home} :
        /\ mounted' = {Home}
        /\ pending' = [pending EXCEPT ![i] = {}]
        /\ peers' = [peers EXCEPT ![i] = [k \in Key |-> "NONE"]]
        /\ hydration' = [hydration EXCEPT ![i] = "done"]
        /\ touched' = [touched EXCEPT ![i] = {}]
        /\ found' = [found EXCEPT ![i] = {}] /\ waits' = [waits EXCEPT ![i] = {}]
        /\ unheard' = [unheard EXCEPT ![i] = {}]
  BY DEF CloseConnectScreen
<1>3. i \in Instance /\ i # Home /\ mounted = {Home, i} /\ Home \in Instance
  BY <1>1 DEF Lifecycle, HooksTyped, Instance
<1>4. /\ hydration'[i] = "done" /\ touched'[i] = {} /\ found'[i] = {} /\ pending'[i] = {}
      /\ \A k \in Key : peers'[i][k] = "NONE"
      /\ \A j \in Instance \ {i} :
           /\ hydration'[j] = hydration[j] /\ touched'[j] = touched[j] /\ found'[j] = found[j]
           /\ pending'[j] = pending[j] /\ peers'[j] = peers[j] /\ waits'[j] = waits[j]
           /\ unheard'[j] = unheard[j]
  BY <1>1, <1>2, <1>3 DEF HooksTyped
<1>5. Lifecycle'
  <2>1. \A j \in Instance \ mounted' : j = i \/ j \in Instance \ mounted
    BY <1>2, <1>3
  <2>2. mounted' = {Home, Home} /\ mounted' \subseteq mounted /\ i \notin mounted'
    BY <1>2, <1>3
  <2>3. \A j \in mounted' : j \in Instance \ {i}
    BY <1>2, <1>3
  <2>4. \A j \in Instance \ mounted : j # i
    BY <1>3
  <2> QED BY <1>1, <1>3, <1>4, <2>1, <2>2, <2>3, <2>4 DEF Lifecycle, Hydrating
<1>6. QueriesAwaited' /\ QueriesOnce'
  <2>1. <<>> \in Seq(CallSet) /\ toNative' = toNative \o <<>> /\ DOMAIN <<>> = {}
    BY <1>1 DEF QueuesTyped
  <2>2. ASSUME NEW m, Remains(m), Query(m)
        PROVE  Awaited(m)' /\ (m.hook \in mounted' => m.hook \in mounted)
    <3>1. Awaited(m) /\ m.hook \in Instance
      <4>1. m \in CallSet \/ m \in MessageSet
        BY <1>1, <2>2 DEF Remains, QueuesTyped
      <4> QED BY <1>1, <2>2, <4>1, CallFields, MessageFields DEF Remains, QueriesAwaited, Query
    <3> QED BY <1>2, <1>3, <1>4, <3>1 DEF Awaited
  <2> QED BY <1>1, <2>1, <2>2, MoreQueries
<1>7. ASSUME NEW j \in mounted', NEW k \in Key
      PROVE  j \in mounted /\ (Misled(j, k)' => Misled(j, k)) /\ (Covered(j, k) => Covered(j, k)')
  <2>1. j \in Instance \ {i} /\ j \in mounted
    BY <1>2, <1>3
  <2> QED BY <1>1, <1>4, <2>1 DEF Misled, Covered, Hydrating, Requested, Asked
<1>8. AbsenceIsTold' /\ PresenceIsTold'
  BY <1>1, <1>7, NothingHandled
<1> QED BY <1>5, <1>6, <1>8 DEF ScreensInv

\* The keys of a list are asked about in some order, each once.
StateCalls(keys, i) == [n \in DOMAIN SetToSeq(keys) |-> Call("state", SetToSeq(keys)[n], i)]

LEMMA AskedOnce ==
  ASSUME NEW keys \in SUBSET Key, NEW i \in Instance
  PROVE  \E asked \in Seq(CallSet) :
           /\ asked = StateCalls(keys, i)
           /\ \A n \in DOMAIN asked : asked[n].op = "state" /\ asked[n].hook = i /\ asked[n].key \in keys
           /\ \A m, n \in DOMAIN asked : asked[m].key = asked[n].key => m = n
           /\ \A k \in keys : \E n \in DOMAIN asked : asked[n].key = k
<1> DEFINE f == SetToSeq(keys)
           asked == [n \in DOMAIN f |-> Call("state", f[n], i)]
           S == 1 .. Cardinality(keys)
<1>1. asked \in Seq(CallSet)
  BY AskedOneByOne
<1>2. IsFiniteSet(keys)
  BY FinitelyManyKeys, FS_Subset DEF FinitelyManyKeys
<1>3. Cardinality(keys) \in Nat /\ ExistsBijection(S, keys)
  BY <1>2, FS_CardinalityType
<1>4. \E g \in [S -> keys] : IsInjective(g)
  BY <1>3 DEF ExistsBijection, Bijection, Injection, IsInjective
<1>5. f \in [S -> keys] /\ IsInjective(f)
  BY <1>4 DEF SetToSeq
<1>6. Cardinality(S) = Cardinality(keys)
  BY <1>3, FS_Interval
<1> HIDE DEF f, S
<1>7. f \in Injection(S, keys)
  BY <1>5 DEF Injection, IsInjective
<1>8. f \in Surjection(S, keys)
  BY <1>2, <1>6, <1>7, FS_Injection
<1>9. \A k \in keys : \E n \in S : f[n] = k
  BY <1>8 DEF Surjection
<1>10. /\ \A n \in DOMAIN asked : asked[n].op = "state" /\ asked[n].hook = i /\ asked[n].key \in keys
       /\ \A m, n \in DOMAIN asked : asked[m].key = asked[n].key => m = n
       /\ \A k \in keys : \E n \in DOMAIN asked : asked[n].key = k
  BY <1>5, <1>9 DEF Call, IsInjective
<1>11. asked = StateCalls(keys, i)
  BY DEF StateCalls, f
<1> HIDE DEF asked
<1> QED BY <1>1, <1>10, <1>11

\* The query that is answered is queued nowhere else.
LEMMA OnlyQuery ==
  ASSUME QueuesTyped, QueriesOnce, toJs # <<>>, toJs' = Tail(toJs), Query(Head(toJs)),
         Head(toJs).hook \in mounted, NEW m, Remains(m)
  PROVE  ~SameQuery(Head(toJs), m)
<1> SUFFICES ASSUME SameQuery(Head(toJs), m) PROVE FALSE
  OBVIOUS
<1>1. SameQuery(m, Head(toJs)) /\ Query(m) /\ m.hook \in mounted
  BY SameQueries
<1>2. 1 \in DOMAIN toJs /\ Head(toJs) = toJs[1]
  BY ShrunkJs
<1>3. CASE \E n \in DOMAIN toNative : m = toNative[n]
  BY <1>1, <1>2, <1>3 DEF QueriesOnce
<1>4. CASE \E n \in DOMAIN toJs' : m = toJs'[n]
  <2> PICK n \in DOMAIN toJs' : m = toJs'[n]
    BY <1>4
  <2>1. n \in Nat /\ n > 0 /\ n + 1 \in DOMAIN toJs /\ m = toJs[n + 1]
    BY ShrunkJs
  <2>2. n + 1 = 1
    BY <1>1, <1>2, <2>1 DEF QueriesOnce
  <2> QED BY <2>1, <2>2
<1> QED BY <1>3, <1>4 DEF Remains

\* The hydration of i ends: what was touched meanwhile stays as it is.
LEMMA FinishFields ==
  ASSUME HooksTyped, NEW i \in Instance, NEW listed, NEW now, Finish(i, listed, now)
  PROVE  /\ hydration'[i] = "done" /\ touched'[i] = {} /\ found'[i] = {} /\ waits'[i] = {}
         /\ \A j \in Instance \ {i} :
              /\ hydration'[j] = hydration[j] /\ touched'[j] = touched[j]
              /\ found'[j] = found[j] /\ waits'[j] = waits[j] /\ peers'[j] = peers[j]
         /\ \A k \in Key : IF k \in touched[i] THEN peers'[i][k] = peers[i][k]
                           ELSE IF k \in now THEN peers'[i][k] = "CONNECTED"
                           ELSE peers'[i][k] = peers[i][k] \/ (k \notin listed /\ peers'[i][k] = "NONE")
<1>1. peers'[i] = Hydrated(i, listed, now) /\ \A j \in Instance \ {i} : peers'[j] = peers[j]
  BY DEF Finish, HooksTyped
<1>2. \A k \in Key : Hydrated(i, listed, now)[k] = IF k \in touched[i] THEN peers[i][k]
                                                   ELSE IF k \in now THEN "CONNECTED"
                                                   ELSE IF k \in listed THEN peers[i][k]
                                                   ELSE "NONE"
  BY DEF Hydrated
<1> QED BY <1>1, <1>2 DEF Finish, HooksTyped

\* An answer that is only shown: the next question is posted.
LEMMA AskStep == ASSUME HookInv, OnEnabled \/ OnDevice PROVE ScreensInv'
<1> DEFINE h == Head(toJs)
<1>1. /\ QueuesTyped /\ HooksTyped
      /\ Lifecycle /\ QueriesAwaited /\ QueriesOnce /\ AbsenceIsTold /\ PresenceIsTold
      /\ mounted \subseteq Instance
  BY DEF HookInv, ScreensInv, ServerEntries, Typed, HooksTyped
<1>2. PICK answer \in {"enabled", "device"}, question \in {"device", "ids"}, i \in Instance :
        /\ answer = "enabled" <=> question = "device"
        /\ AsksNext(answer, question)
        /\ toJs # <<>> /\ toJs' = Tail(toJs) /\ h.op = answer /\ h.hook = i
        /\ toNative' = Append(toNative, [op |-> question, hook |-> i])
  BY <1>1, AskedNext
<1>3. /\ UNCHANGED <<state, role, gatt, server, silent, mounted, peers, pending, touched, ids, found,
                     waits, unheard>>
      /\ hydration' = IF i \in mounted THEN [hydration EXCEPT ![i] = question] ELSE hydration
  BY <1>2 DEF AsksNext
<1>4. PICK c \in CallSet : c.op = question /\ c.hook = i /\ toNative' = Append(toNative, c)
  <2>1. [op |-> question, hook |-> i] \in CallSet
    BY DEF CallSet
  <2> QED BY <1>2, <2>1
<1>5. Query(h) /\ hydration[i] # "off" /\ (i \in mounted => hydration[i] = answer)
  <2>1. Query(h)
    BY <1>2 DEF Query
  <2>2. Awaited(h)
    BY <1>1, <1>2, <2>1, ShrunkJs DEF QueriesAwaited
  <2> QED BY <1>1, <1>2, <2>1, <2>2 DEF Awaited
<1>6. \A m : Remains(m) /\ i \in mounted => ~SameQuery(h, m)
  BY <1>1, <1>2, <1>5, OnlyQuery
<1> HIDE DEF h
<1>7. /\ \A j \in Instance : j # i \/ i \notin mounted => hydration'[j] = hydration[j]
      /\ i \in mounted => hydration'[i] = question
  BY <1>1, <1>3 DEF HooksTyped
<1>8. Lifecycle'
  <2>1. ASSUME i \in mounted PROVE touched[i] = {} /\ found[i] = {}
    BY <1>1, <1>5, <2>1 DEF Lifecycle
  <2>2. \A j \in Instance \ mounted : hydration'[j] = hydration[j]
    BY <1>7
  <2> QED BY <1>1, <1>3, <1>7, <2>1, <2>2 DEF Lifecycle
<1>9. <<c>> \in Seq(CallSet) /\ toNative' = toNative \o <<c>> /\ DOMAIN <<c>> = {1} /\ <<c>>[1] = c
  BY <1>1, <1>4 DEF QueuesTyped
<1>10. ASSUME NEW m, Remains(m), Query(m)
       PROVE  Awaited(m)' /\ (i \in mounted => m.hook # i)
  <2>1. Awaited(m) /\ m.hook \in Instance
    <3>1. m \in CallSet \/ m \in MessageSet
      BY <1>1, <1>2, <1>10 DEF Remains, QueuesTyped
    <3>2. Awaited(m)
      BY <1>1, <1>2, <1>10, ShrunkJs DEF Remains, QueriesAwaited
    <3> QED BY <1>10, <3>1, <3>2, CallFields, MessageFields DEF Query
  <2>2. i \in mounted => m.hook # i
    BY <1>2, <1>5, <1>6, <1>10, <2>1 DEF Awaited, SameQuery, Query
  <2>3. hydration'[m.hook] = hydration[m.hook]
    BY <1>7, <2>1, <2>2
  <2> QED BY <1>3, <2>1, <2>2, <2>3 DEF Awaited
<1>11. QueriesAwaited' /\ QueriesOnce'
  <2>1. Awaited(c)'
    BY <1>3, <1>4, <1>5, <1>7 DEF Awaited
  <2>2. \A m : Remains(m) /\ c.hook \in mounted' => ~SameQuery(c, m)
    <3> SUFFICES ASSUME NEW m, Remains(m), i \in mounted, SameQuery(c, m) PROVE FALSE
      BY <1>3, <1>4
    <3>1. Query(m) /\ m.hook = i
      BY <1>4 DEF SameQuery, Query
    <3> QED BY <1>10, <3>1
  <2>3. \A m : Remains(m) /\ Query(m) => Awaited(m)' /\ (m.hook \in mounted' => m.hook \in mounted)
    BY <1>3, <1>10
  <2> QED BY <1>1, <1>2, <1>9, <2>1, <2>2, <2>3, MoreQueries
<1>12. ASSUME NEW j, NEW k
       PROVE  (Requested(j, k) => Requested(j, k)') /\ (Asked(j, k) => Asked(j, k)')
  <2>1. Requested(j, k) => Requested(j, k)'
    BY <1>1, <1>9, GrownNative DEF Requested, Tells
  <2>2. (\E n \in DOMAIN toNative : Tells(toNative[n], k, "state") /\ toNative[n].hook = j) => Asked(j, k)'
    BY <1>1, <1>9, GrownNative DEF Asked, Tells
  <2>3. ASSUME NEW n \in DOMAIN toJs, Tells(toJs[n], k, "state"), toJs[n].hook = j PROVE Asked(j, k)'
    <3>1. n > 1
      BY <1>1, <1>2, <2>3, ShrunkJs DEF Tells, h
    <3>2. n - 1 \in DOMAIN toJs' /\ toJs'[n - 1] = toJs[n]
      BY <1>1, <1>2, <3>1, ShrunkJs
    <3> QED BY <2>3, <3>2 DEF Asked, Tells
  <2> QED BY <2>1, <2>2, <2>3 DEF Asked
<1>13. ASSUME NEW j \in mounted, NEW k \in Key
       PROVE  (Misled(j, k)' => Misled(j, k)) /\ (Covered(j, k) => Covered(j, k)')
  <2>1. CASE j # i
    BY <1>1, <1>3, <1>7, <1>12, <2>1 DEF Misled, Covered, Hydrating
  <2>2. CASE j = i
    <3>1. touched[i] = {} /\ found[i] = {} /\ hydration'[i] \in {"device", "ids"}
      BY <1>1, <1>5, <1>7, <2>2 DEF Lifecycle
    <3> QED BY <1>3, <1>12, <2>2, <3>1 DEF Misled, Covered
  <2> QED BY <2>1, <2>2
<1>14. \A k \in Key, what \in {"CONNECTED", "DISCONNECTED"} : ~Tells(h, k, what)
  BY <1>2 DEF Tells
<1>15. AbsenceIsTold'
  BY <1>1, <1>2, <1>3, <1>13, <1>14, HandledAbsence DEF h
<1>16. PresenceIsTold'
  BY <1>1, <1>2, <1>3, <1>13, <1>14, HandledPresence DEF h
<1> QED BY <1>8, <1>11, <1>15, <1>16 DEF ScreensInv

LEMMA IdsStep == ASSUME HookInv, OnIds PROVE ScreensInv'
<1> DEFINE h == Head(toJs)
<1>1. /\ QueuesTyped /\ HooksTyped /\ toJs # <<>> /\ toJs' = Tail(toJs) /\ h.op = "ids"
      /\ UNCHANGED <<state, role, gatt, server, silent, mounted, pending, unheard>>
      /\ Lifecycle /\ QueriesAwaited /\ QueriesOnce /\ AbsenceIsTold /\ PresenceIsTold
      /\ mounted \subseteq Instance
  BY DEF OnIds, Handles, HookInv, ScreensInv, ServerEntries, Typed, HooksTyped
<1>2. PICK i \in Instance, keys \in SUBSET Key : i = h.hook /\ keys = h.keys
  <2>1. h \in MessageSet
    BY <1>1 DEF QueuesTyped
  <2> HIDE DEF h
  <2> QED BY <1>1, <2>1, MessageFields
<1>3. \/ i \in mounted /\ keys = {} /\ Finish(i, {}, {})
      \/ /\ i \in mounted /\ keys # {}
         /\ hydration' = [hydration EXCEPT ![i] = "states"] /\ waits' = [waits EXCEPT ![i] = keys]
         /\ UNCHANGED <<peers, touched, found>>
      \/ i \notin mounted /\ UNCHANGED <<peers, touched, hydration, found, waits>>
  BY <1>2 DEF OnIds, hydrationVars
<1>4. PICK asked \in Seq(CallSet) :
        /\ toNative' = toNative \o asked
        /\ \A n \in DOMAIN asked : asked[n].op = "state" /\ asked[n].hook = i /\ asked[n].key \in keys
        /\ \A m, n \in DOMAIN asked : asked[m].key = asked[n].key => m = n
        /\ \A k \in keys : \E n \in DOMAIN asked : asked[n].key = k
  <2>1. toNative' = toNative \o StateCalls(keys, i)
    BY <1>2 DEF OnIds, StateCalls
  <2> QED BY <2>1, AskedOnce
<1>5. Query(h) /\ hydration[i] # "off" /\ (i \in mounted => hydration[i] = "ids")
  <2>1. Query(h)
    BY <1>1 DEF Query
  <2>2. Awaited(h)
    BY <1>1, <2>1, ShrunkJs DEF QueriesAwaited
  <2> QED BY <1>1, <1>2, <2>1, <2>2 DEF Awaited
<1>6. \A m : Remains(m) /\ i \in mounted => ~SameQuery(h, m)
  BY <1>1, <1>2, <1>5, OnlyQuery
<1> HIDE DEF h
\* Nothing happens to the other instances.
<1>7. \A j \in Instance \ {i} :
        /\ hydration'[j] = hydration[j] /\ touched'[j] = touched[j] /\ found'[j] = found[j]
        /\ waits'[j] = waits[j] /\ peers'[j] = peers[j]
  BY <1>1, <1>3, FinishFields DEF HooksTyped
<1>8. i \in mounted =>
        /\ hydration'[i] = IF keys = {} THEN "done" ELSE "states"
        /\ keys # {} => waits'[i] = keys /\ touched'[i] = touched[i] /\ peers'[i] = peers[i]
        /\ keys = {} => \A k \in Key : IF k \in touched[i] THEN peers'[i][k] = peers[i][k]
                                       ELSE peers'[i][k] \in {peers[i][k], "NONE"}
        /\ found[i] = {} /\ found'[i] = {}
  <2>1. i \in mounted => found[i] = {}
    BY <1>1, <1>5 DEF Lifecycle
  <2>2. CASE i \in mounted /\ keys = {} /\ Finish(i, {}, {})
    BY <1>1, <2>1, <2>2, FinishFields
  <2>3. CASE i \in mounted /\ keys # {}
    BY <1>1, <1>3, <2>1, <2>3 DEF HooksTyped
  <2> QED BY <1>3, <2>2, <2>3
<1>9. i \notin mounted => UNCHANGED <<peers, touched, hydration, found, waits>>
  BY <1>3
<1>10. Lifecycle'
  <2>1. CASE i \in mounted
    <3>1. hydration'[i] \in {"done", "states"}
      BY <1>8, <2>1
    <3>2. \A j \in Instance \ mounted : j \in Instance \ {i}
      BY <2>1
    <3> QED BY <1>1, <1>7, <2>1, <3>1, <3>2 DEF Lifecycle
  <2>2. CASE i \notin mounted
    BY <1>1, <1>9, <2>2 DEF Lifecycle, Hydrating
  <2> QED BY <2>1, <2>2
<1>11. ASSUME NEW m, Remains(m), Query(m)
       PROVE  Awaited(m)' /\ (i \in mounted => m.hook # i)
  <2>1. Awaited(m) /\ m.hook \in Instance
    <3>1. m \in CallSet \/ m \in MessageSet
      BY <1>1, <1>11 DEF Remains, QueuesTyped
    <3>2. Awaited(m)
      BY <1>1, <1>11, ShrunkJs DEF Remains, QueriesAwaited
    <3> QED BY <1>11, <3>1, <3>2, CallFields, MessageFields DEF Query
  <2>2. i \in mounted => m.hook # i
    BY <1>1, <1>2, <1>5, <1>6, <1>11, <2>1 DEF Awaited, SameQuery, Query
  <2>3. CASE m.hook # i
    <3>1. hydration'[m.hook] = hydration[m.hook] /\ waits'[m.hook] = waits[m.hook]
      BY <1>7, <2>1, <2>3
    <3> QED BY <1>1, <2>1, <2>3, <3>1 DEF Awaited
  <2>4. CASE i \notin mounted
    BY <1>1, <1>9, <2>1, <2>4 DEF Awaited
  <2> QED BY <2>2, <2>3, <2>4
<1>12. QueriesAwaited' /\ QueriesOnce'
  <2>1. ASSUME NEW n \in DOMAIN asked PROVE Awaited(asked[n])'
    <3>1. asked[n].op = "state" /\ asked[n].hook = i /\ asked[n].key \in keys
      BY <1>4
    <3> QED BY <1>1, <1>5, <1>8, <1>9, <3>1 DEF Awaited
  <2>2. ASSUME NEW n \in DOMAIN asked, asked[n].hook \in mounted', NEW m, Remains(m) PROVE ~SameQuery(asked[n], m)
    <3>1. i \in mounted /\ asked[n].hook = i /\ Query(asked[n])
      BY <1>1, <1>4, <2>2 DEF Query
    <3>2. SameQuery(asked[n], m) => Query(m) /\ m.hook = i
      BY <3>1 DEF SameQuery, Query
    <3> QED BY <1>11, <2>2, <3>1, <3>2
  <2>3. \A m, n \in DOMAIN asked : SameQuery(asked[m], asked[n]) => m = n
    BY <1>4 DEF SameQuery
  <2> QED BY <1>1, <1>4, <1>11, <2>1, <2>2, <2>3, MoreQueries
<1>13. ASSUME NEW j, NEW k
       PROVE  /\ Requested(j, k) => Requested(j, k)'
              /\ Asked(j, k) => Asked(j, k)'
              /\ j = i /\ k \in keys => Asked(j, k)'
  <2>1. ASSUME Requested(j, k) PROVE Requested(j, k)'
    <3> PICK n \in DOMAIN toNative : Tells(toNative[n], k, "connect") /\ toNative[n].hook = j
      BY <2>1 DEF Requested
    <3>1. n \in DOMAIN toNative' /\ toNative'[n] = toNative[n]
      BY <1>1, <1>4, GrownNative
    <3> QED BY <3>1 DEF Requested, Tells
  <2>2. (\E n \in DOMAIN toNative : Tells(toNative[n], k, "state") /\ toNative[n].hook = j) => Asked(j, k)'
    BY <1>1, <1>4, GrownNative DEF Asked, Tells
  <2>3. ASSUME NEW n \in DOMAIN toJs, Tells(toJs[n], k, "state"), toJs[n].hook = j PROVE Asked(j, k)'
    <3>1. n > 1
      BY <1>1, <2>3, ShrunkJs DEF Tells, h
    <3>2. n - 1 \in DOMAIN toJs' /\ toJs'[n - 1] = toJs[n]
      BY <1>1, <3>1, ShrunkJs
    <3> QED BY <2>3, <3>2 DEF Asked, Tells
  <2>4. ASSUME j = i, k \in keys PROVE Asked(j, k)'
    <3> PICK n \in DOMAIN asked : asked[n].key = k /\ asked[n].op = "state" /\ asked[n].hook = i
      BY <1>4, <2>4
    <3>1. Len(toNative) + n \in DOMAIN toNative' /\ toNative'[Len(toNative) + n] = asked[n]
      BY <1>1, <1>4, GrownNative
    <3> QED BY <2>4, <3>1 DEF Asked, Tells
  <2> QED BY <2>1, <2>2, <2>3, <2>4 DEF Asked
<1>14. ASSUME NEW j \in mounted, NEW k \in Key
       PROVE  /\ Misled(j, k)' => Misled(j, k)
              /\ Covered(j, k) => Covered(j, k)' \/ Denies(h, k)
  <2>1. CASE j # i
    BY <1>1, <1>7, <1>13, <2>1 DEF Misled, Covered, Hydrating
  <2>2. CASE j = i
    <3>1. Misled(j, k)' => Misled(j, k)
      BY <1>1, <1>5, <1>8, <1>13, <2>2 DEF Misled, Hydrating
    <3>2. k \notin keys => Denies(h, k)
      BY <1>1, <1>2 DEF Denies
    <3>3. Covered(j, k) /\ k \in keys => Covered(j, k)'
      BY <1>1, <1>5, <1>8, <1>13, <2>2 DEF Covered
    <3> QED BY <3>1, <3>2, <3>3
  <2> QED BY <2>1, <2>2
<1>15. \A k \in Key, what \in {"CONNECTED", "DISCONNECTED"} : ~Tells(h, k, what)
  BY <1>1 DEF Tells
<1>16. AbsenceIsTold'
  BY <1>1, <1>14, <1>15, HandledAbsence DEF h
<1>17. PresenceIsTold'
  BY <1>1, <1>14, <1>15, HandledPresence DEF h
<1> QED BY <1>10, <1>12, <1>16, <1>17 DEF ScreensInv

LEMMA StateStep == ASSUME HookInv, OnState PROVE ScreensInv'
<1> DEFINE h == Head(toJs)
<1>1. /\ QueuesTyped /\ HooksTyped /\ toJs # <<>> /\ toJs' = Tail(toJs) /\ h.op = "state"
      /\ UNCHANGED <<state, role, gatt, server, silent, toNative, mounted, pending, unheard>>
      /\ Lifecycle /\ QueriesAwaited /\ QueriesOnce /\ AbsenceIsTold /\ PresenceIsTold
      /\ mounted \subseteq Instance
  BY DEF OnState, Handles, NativeIsUntouched, HookInv, ScreensInv, ServerEntries, Typed, HooksTyped
<1>2. PICK i \in Instance, k \in Key, now \in SUBSET Key :
        /\ i = h.hook /\ k = h.key
        /\ now = IF h.is = "CONNECTED" THEN found[i] \cup {k} ELSE found[i]
  <2>1. h \in MessageSet
    BY <1>1 DEF QueuesTyped
  <2> HIDE DEF h
  <2>2. h.hook \in Instance /\ h.key \in Key
    BY <1>1, <2>1, MessageFields
  <2>3. found[h.hook] \in SUBSET Key
    BY <1>1, <2>2 DEF HooksTyped
  <2>4. (IF h.is = "CONNECTED" THEN found[h.hook] \cup {h.key} ELSE found[h.hook]) \in SUBSET Key
    BY <2>2, <2>3
  <2> QED BY <2>2, <2>4
<1>3. \/ i \in mounted /\ waits[i] = {k} /\ Finish(i, ids[i], now)
      \/ /\ i \in mounted /\ waits[i] # {k}
         /\ found' = [found EXCEPT ![i] = now] /\ waits' = [waits EXCEPT ![i] = @ \ {k}]
         /\ UNCHANGED <<peers, touched, hydration>>
      \/ i \notin mounted /\ UNCHANGED <<peers, touched, hydration, found, waits>>
  BY <1>2 DEF OnState, hydrationVars
<1>4. Query(h) /\ (i \in mounted => hydration[i] = "states" /\ k \in waits[i])
  <2>1. Query(h)
    BY <1>1 DEF Query
  <2>2. Awaited(h)
    BY <1>1, <2>1, ShrunkJs DEF QueriesAwaited
  <2> QED BY <1>1, <1>2, <2>1, <2>2 DEF Awaited
<1>5. \A m : Remains(m) /\ i \in mounted => ~SameQuery(h, m)
  BY <1>1, <1>2, <1>4, OnlyQuery
<1> HIDE DEF h
\* Nothing happens to the other instances.
<1>6. \A j \in Instance \ {i} :
        /\ hydration'[j] = hydration[j] /\ touched'[j] = touched[j] /\ found'[j] = found[j]
        /\ waits'[j] = waits[j] /\ peers'[j] = peers[j]
  BY <1>1, <1>3, FinishFields DEF HooksTyped
<1>7. i \in mounted =>
        \/ /\ waits[i] = {k} /\ hydration'[i] = "done"
           /\ \A l \in Key : IF l \in touched[i] THEN peers'[i][l] = peers[i][l]
                             ELSE IF l \in now THEN peers'[i][l] = "CONNECTED"
                             ELSE peers'[i][l] \in {peers[i][l], "NONE"}
        \/ /\ hydration'[i] = "states" /\ waits'[i] = waits[i] \ {k} /\ found'[i] = now
           /\ touched'[i] = touched[i] /\ peers'[i] = peers[i]
  <2>1. CASE i \in mounted /\ waits[i] = {k} /\ Finish(i, ids[i], now)
    BY <1>1, <2>1, FinishFields
  <2>2. CASE i \in mounted /\ waits[i] # {k}
    BY <1>1, <1>3, <1>4, <2>2 DEF HooksTyped
  <2> QED BY <1>3, <2>1, <2>2
<1>8. i \notin mounted => UNCHANGED <<peers, touched, hydration, found, waits>>
  BY <1>3
<1>9. Lifecycle'
  <2>1. CASE i \in mounted
    <3>1. hydration'[i] \in {"done", "states"}
      BY <1>7, <2>1
    <3>2. \A j \in Instance \ mounted : j \in Instance \ {i}
      BY <2>1
    <3> QED BY <1>1, <1>6, <2>1, <3>1, <3>2 DEF Lifecycle
  <2>2. CASE i \notin mounted
    BY <1>1, <1>8, <2>2 DEF Lifecycle, Hydrating
  <2> QED BY <2>1, <2>2
<1>10. ASSUME NEW m, Remains(m), Query(m) PROVE Awaited(m)'
  <2>1. Awaited(m) /\ m.hook \in Instance
    <3>1. m \in CallSet \/ m \in MessageSet
      BY <1>1, <1>10 DEF Remains, QueuesTyped
    <3>2. Awaited(m)
      BY <1>1, <1>10, ShrunkJs DEF Remains, QueriesAwaited
    <3> QED BY <1>10, <3>1, <3>2, CallFields, MessageFields DEF Query
  <2>2. CASE m.hook # i
    <3>1. hydration'[m.hook] = hydration[m.hook] /\ waits'[m.hook] = waits[m.hook]
      BY <1>6, <2>1, <2>2
    <3> QED BY <1>1, <2>1, <2>2, <3>1 DEF Awaited
  <2>3. CASE m.hook = i /\ i \in mounted
    <3>1. m.op = "state" /\ m.key \in waits[i]
      BY <1>4, <1>10, <2>1, <2>3 DEF Awaited, Query
    <3>2. m.key # k
      BY <1>1, <1>2, <1>5, <1>10, <2>3, <3>1 DEF SameQuery
    <3>3. hydration'[i] = "states" /\ waits'[i] = waits[i] \ {k}
      BY <1>7, <2>3, <3>1, <3>2
    <3> QED BY <1>1, <2>3, <3>1, <3>2, <3>3 DEF Awaited
  <2>4. CASE i \notin mounted
    BY <1>1, <1>8, <2>1, <2>4 DEF Awaited
  <2> QED BY <2>2, <2>3, <2>4
<1>11. QueriesAwaited' /\ QueriesOnce'
  <2>1. <<>> \in Seq(CallSet) /\ toNative' = toNative \o <<>> /\ DOMAIN <<>> = {}
    BY <1>1 DEF QueuesTyped
  <2> QED BY <1>1, <1>10, <2>1, MoreQueries
<1>12. ASSUME NEW j \in mounted, NEW l \in Key, j # i
       PROVE  (Misled(j, l)' => Misled(j, l)) /\ (Covered(j, l) => Covered(j, l)')
  <2>1. SameView(j, l)
    BY <1>1, <1>6, <1>12 DEF SameView
  <2> QED BY <1>1, <1>2, <1>12, <2>1, SameViews DEF h
<1>13. ASSUME NEW l \in Key, i \in mounted
       PROVE  /\ Misled(i, l)' => Misled(i, l) \/ Suggests(h, l)
              /\ Covered(i, l) => Covered(i, l)' \/ Denies(h, l)
  <2>1. Requested(i, l) => Requested(i, l)'
    BY <1>1 DEF Requested
  <2>2. l \in now => l \in found[i] \/ Suggests(h, l)
    BY <1>1, <1>2 DEF Suggests
  <2>3. Misled(i, l)' => Misled(i, l) \/ Suggests(h, l)
    BY <1>1, <1>4, <1>7, <1>13, <2>1, <2>2 DEF Misled, Hydrating
  <2>4. l \in found[i] \/ l = k => l \in now \/ Denies(h, l)
    BY <1>1, <1>2 DEF Denies
  <2>5. Asked(i, l) => l \in waits[i]
    <3>1. ASSUME NEW m, Tells(m, l, "state"), m.hook = i, Query(m) => Awaited(m) PROVE l \in waits[i]
      BY <1>13, <3>1 DEF Awaited, Query, Tells
    <3>2. \A n \in DOMAIN toNative : Query(toNative[n]) => Awaited(toNative[n])
      BY <1>1 DEF QueriesAwaited
    <3>3. \A n \in DOMAIN toJs : Query(toJs[n]) => Awaited(toJs[n])
      BY <1>1 DEF QueriesAwaited
    <3> QED BY <3>1, <3>2, <3>3 DEF Asked
  <2>6. Asked(i, l) /\ l # k => Asked(i, l)'
    BY <1>1, <1>2, StillAsked DEF Tells, h
  <2>7. Covered(i, l) => Covered(i, l)' \/ Denies(h, l)
    BY <1>1, <1>4, <1>7, <1>13, <2>4, <2>5, <2>6 DEF Covered
  <2> QED BY <2>3, <2>7
<1>14. \A l \in Key, what \in {"CONNECTED", "DISCONNECTED"} : ~Tells(h, l, what)
  BY <1>1 DEF Tells
<1>15. AbsenceIsTold'
  BY <1>1, <1>12, <1>13, <1>14, HandledAbsence DEF h
<1>16. PresenceIsTold'
  BY <1>1, <1>12, <1>13, <1>14, HandledPresence DEF h
<1> QED BY <1>9, <1>11, <1>15, <1>16 DEF ScreensInv

LEMMA ScreensInit == Init => LinkedHasNoEntry /\ ScreensInv
<1> SUFFICES ASSUME Init PROVE LinkedHasNoEntry /\ ScreensInv
  OBVIOUS
<1>1. /\ toNative = <<>> /\ toJs = <<>> /\ mounted = {Home} /\ Home \in Instance
      /\ state = [k \in Key |-> "MISSING"] /\ server = [d \in Device |-> "down"]
      /\ peers = [i \in Instance |-> [k \in Key |-> "NONE"]]
      /\ pending = [i \in Instance |-> {}] /\ touched = [i \in Instance |-> {}]
      /\ found = [i \in Instance |-> {}]
      /\ hydration = [i \in Instance |-> IF i = Home THEN "done" ELSE "off"]
  BY DEF Init, ManagerInit, Instance
<1>2. LinkedHasNoEntry
  BY <1>1, OwnerOfKey DEF LinkedHasNoEntry
<1>3. Lifecycle
  <2>1. mounted = {Home, Home}
    BY <1>1
  <2> QED BY <1>1, <2>1 DEF Lifecycle, Hydrating
<1>4. DOMAIN toNative = {} /\ DOMAIN toJs = {}
  BY <1>1
<1>5. QueriesAwaited /\ QueriesOnce
  BY <1>4 DEF QueriesAwaited, QueriesOnce
<1>6. AbsenceIsTold
  BY <1>1, <1>4 DEF AbsenceIsTold, Misled, Hydrating
<1>7. PresenceIsTold
  BY <1>1 DEF PresenceIsTold, Live
<1> QED BY <1>2, <1>3, <1>5, <1>6, <1>7 DEF ScreensInv

LEMMA HookInvStep == HookInv /\ [Next]_allVars => HookInv'
<1> SUFFICES ASSUME HookInv, [Next]_allVars PROVE HookInv'
  OBVIOUS
<1>1. ServerEntries'
  BY ServerEntriesStep DEF HookInv
<1>2. CASE NativeNext /\ UNCHANGED hookVars
  BY <1>1, <1>2, NativeStep DEF HookInv
<1>3. CASE HookNext
  <2>1. LinkedHasNoEntry'
    <3>1. UNCHANGED entryVars
      BY <1>3, HookLeavesEntries
    <3> QED BY <3>1 DEF HookInv, LinkedHasNoEntry, entryVars
  <2>2. ScreensInv'
    BY <1>3, OpenStep, CloseStep, EventStep, ErrorStep, PressStep, AnswerStep, AskStep, IdsStep, StateStep
       DEF HookNext
  <2> QED BY <1>1, <2>1, <2>2 DEF HookInv
<1>4. CASE UNCHANGED allVars
  <2>1. UNCHANGED hookVars /\ UNCHANGED <<state, role, gatt, server, toNative, toJs, silent>>
    BY <1>4 DEF allVars, managerVars
  <2>2. Lifecycle'
    BY <2>1 DEF HookInv, ScreensInv, Lifecycle, hookVars, Hydrating
  <2>3. QueriesAwaited' /\ QueriesOnce'
    BY <2>1 DEF HookInv, ScreensInv, QueriesAwaited, QueriesOnce, Awaited, Query, SameQuery, hookVars
  <2>4. AbsenceIsTold' /\ PresenceIsTold'
    BY <2>1 DEF HookInv, ScreensInv, AbsenceIsTold, PresenceIsTold, Absent, Live, Suggests, Denies,
       ToldAfter, Told, Tells, Misled, Covered, Hydrating, Requested, Asked, hookVars
  <2>5. LinkedHasNoEntry'
    BY <2>1 DEF HookInv, LinkedHasNoEntry
  <2> QED BY <1>1, <2>2, <2>3, <2>4, <2>5 DEF HookInv, ScreensInv
<1> QED BY <1>2, <1>3, <1>4 DEF Next

\* Once every event and answer is handled, an instance of the hook shows every
\* peer that is connected over a link nobody has cancelled, whichever calls,
\* callbacks and hydrations overtook each other before, or the peer is one whose
\* CONNECT came before the end of the hydration, with no event of it since.
THEOREM ConnectedIsAlwaysShown == Spec => []ConnectedIsShown
<1>1. HookInv => ConnectedIsShown
  <2> SUFFICES ASSUME HookInv, NEW i \in Instance, Quiet(i), NEW k \in Key,
                      state[k] = "CONNECTED", Linked(k)
               PROVE  \/ peers[i][k] = "CONNECTED" /\ LegacyState(i) = "CONNECTED"
                      \/ k \in unheard[i]
    BY DEF ConnectedIsShown
  <2>1. Live(k)
    BY DEF Linked, Live
  <2>2. i \in mounted /\ hydration[i] = "done" /\ DOMAIN toJs = {}
    BY DEF Quiet
  <2>3. Covered(i, k)
    BY <2>1, <2>2 DEF HookInv, ScreensInv, PresenceIsTold, Told
  <2>4. peers[i][k] = "CONNECTED" \/ k \in unheard[i]
    BY <2>2, <2>3 DEF Covered
  <2>5. DOMAIN peers[i] = Key
    BY DEF HookInv, ServerEntries, Typed, HooksTyped
  <2>6. peers[i][k] = "CONNECTED" => "CONNECTED" \in Range(peers[i])
    BY <2>5 DEF Range
  <2> QED BY <2>4, <2>6 DEF LegacyState
<1>2. Init => HookInv
  BY ServerInit, ScreensInit DEF HookInv
<1> QED BY <1>1, <1>2, HookInvStep, PTL DEF Spec

\* An instance shows a peer native does not have only if native dropped that
\* entry without a BLE_DISCONNECTED: no hydration, late answer or optimistic
\* entry of the hook's own brings one back.
THEOREM GhostsAreSilent == Spec => []OnlySilentGhosts
<1>1. HookInv => OnlySilentGhosts
  <2> SUFFICES ASSUME HookInv, NEW i \in Instance, Quiet(i), NEW k \in Key, peers[i][k] # "NONE"
               PROVE  state[k] # "MISSING" \/ k \in silent
    BY DEF OnlySilentGhosts
  <2>1. i \in mounted /\ DOMAIN toJs = {} /\ DOMAIN toNative = {}
    BY DEF Quiet
  <2>2. Misled(i, k)
    BY <2>1 DEF Misled, Requested
  <2>3. ~Absent(k)
    BY <2>1, <2>2 DEF HookInv, ScreensInv, AbsenceIsTold, Told
  <2> QED BY <2>3 DEF Absent
<1>2. Init => HookInv
  BY ServerInit, ScreensInit DEF HookInv
<1> QED BY <1>1, <1>2, HookInvStep, PTL DEF Spec
=============================================================================
