--------------------------- MODULE ConnectionManager ---------------------------
(* The native side of the connections of one phone: BLEConnectionManager with
   the connection lists of BLEGattClient and BLEGattServer below it, and the two
   queues between it and JavaScript.  The methods of BLEModule run one at a time
   on the native module thread, each with its answer; the callbacks of the
   Bluetooth stack come in between. *)
EXTENDS Sequences, Naturals, Functions

CONSTANTS
  Device,        \* the other phones
  FirstScanned,  \* those a scan has found before the model starts
  RawKey,        \* [Device -> key]: the Bluetooth address of each
  MaxInputs,     \* bound: links the other phones open to our server and
                 \* buttons the user presses, together
  MaxFaults      \* bound: failures reported by the stack

Raw == {RawKey[d] : d \in Device}
Key == Device \cup Raw

ASSUME KeysDiffer ==
  /\ FirstScanned \subseteq Device
  /\ Device \cap Raw = {}
  /\ IsInjective(RawKey)
  /\ DOMAIN RawKey = Device

VARIABLES
  state,     \* peerStates: "MISSING", "CONNECTING" or "CONNECTED" per key
  role,      \* the role of an entry; "STALE": SERVER, of an older generation
  gatt,      \* BLEGattClient.connections: "none", "opening", "failed", "ready"
  server,    \* the links to our GATT server: "down", "linked", "subscribed",
             \* "ending" (cancelled by us)
  scanned,   \* the devices in deviceMap
  toNative,  \* calls the native module thread has not run yet
  toJs,      \* events and answers JavaScript has not handled yet
  inputs,    \* links opened to our server and buttons pressed so far
  faults,    \* failures reported so far
  silent     \* history: keys whose entry went without a BLE_DISCONNECTED

managerVars == <<state, role, gatt, server, scanned, toNative, toJs, inputs,
                 faults, silent>>

Owner(k) == CHOOSE d \in Device : k \in {d, RawKey[d]}

ManagerInit ==
  /\ state = [k \in Key |-> "MISSING"]
  /\ role = [k \in Key |-> "CLIENT"]
  /\ gatt = [d \in Device |-> "none"]
  /\ server = [d \in Device |-> "down"]
  /\ scanned = FirstScanned
  /\ toNative = <<>> /\ toJs = <<>>
  /\ inputs = 0 /\ faults = 0
  /\ silent = {}

Event(what, k) == [op |-> what, key |-> k]
Emit(what, k) == toJs' = Append(toJs, Event(what, k))

Input == inputs < MaxInputs /\ inputs' = inputs + 1

(* updatePeerState, and the event every caller of it emits. *)
UpdatePeerState(k, s, r) ==
  /\ state' = [state EXCEPT ![k] = s]
  /\ role' = [role EXCEPT ![k] = r]
  /\ silent' = silent \ {k}

MutRemovable(k, r) == state[k] = "CONNECTED" /\ role[k] = r

(* shouldEmitDisconnectEvent: an entry of the expected role and generation. *)
Removable(k, r) == state[k] # "MISSING" /\ role[k] = r

RemoveEntry(k) ==
  /\ state' = [state EXCEPT ![k] = "MISSING"]
  /\ role' = [role EXCEPT ![k] = "CLIENT"]

(* A disconnect callback of either role: the event only if it removed the
   entry. *)
DropEntry(k, r) ==
  IF Removable(k, r)
  THEN RemoveEntry(k) /\ Emit("DISCONNECTED", k) /\ UNCHANGED silent
  ELSE UNCHANGED <<state, role, toJs, silent>>

(* findDeviceIdByAddress(address) ?: address. *)
KeyOf(d) == IF d \in scanned THEN d ELSE RawKey[d]

-------------------------------------------------------------------------------
(* The methods of BLEModule. *)

Calls(op) == toNative # <<>> /\ Head(toNative).op = op
Answer(what) == [op |-> what, key |-> Head(toNative).key, hook |-> Head(toNative).hook]

(* BLEGattClient.connect ignores the request if it still has a connection of
   that device. *)
GattConnect(d) == gatt' = [gatt EXCEPT ![d] = IF @ = "none" THEN "opening" ELSE @]

(* connect(): an entry that exists refuses the call. *)
NativeConnect ==
  LET d == Head(toNative).key IN
  /\ Calls("connect")
  /\ IF state[d] # "MISSING"
     THEN /\ toJs' = Append(toJs, Answer("connectRefused"))
          /\ UNCHANGED <<state, role, gatt, silent>>
     ELSE /\ UpdatePeerState(d, "CONNECTING", "CLIENT")
          /\ GattConnect(d)
          /\ toJs' = toJs \o <<Event("CONNECTING", d), Answer("connectDone")>>
  /\ toNative' = Tail(toNative)
  /\ UNCHANGED <<server, scanned, inputs, faults>>

(* BLEGattServer.cancelConnection: its report comes later, if there is a link. *)
CancelConnection(d) ==
  server' = [server EXCEPT ![d] = IF @ = "down" THEN @ ELSE "ending"]

(* disconnect(deviceId): a client link is closed and reported here.  Of a server
   link the callback does both, unless deviceMap has no device under that key:
   then the entry is removed, and nothing is cancelled or reported. *)
NativeDisconnect ==
  LET k == Head(toNative).key IN
  /\ Calls("disconnect")
  /\ \/ /\ state[k] = "MISSING"
        /\ toJs' = Append(toJs, Answer("disconnectDone"))
        /\ UNCHANGED <<state, role, gatt, server, silent>>
     \/ /\ Removable(k, "CLIENT")
        /\ RemoveEntry(k)
        /\ gatt' = [gatt EXCEPT ![k] = "none"]
        /\ toJs' = toJs \o <<Event("DISCONNECTED", k), Answer("disconnectDone")>>
        /\ UNCHANGED <<server, silent>>
     \/ /\ state[k] # "MISSING" /\ role[k] # "CLIENT" /\ k \in scanned
        /\ CancelConnection(k)
        /\ toJs' = Append(toJs, Answer("disconnectDone"))
        /\ UNCHANGED <<state, role, gatt, silent>>
     \/ /\ state[k] # "MISSING" /\ role[k] # "CLIENT" /\ k \notin scanned
        /\ RemoveEntry(k)
        /\ silent' = silent \cup {k}
        /\ toJs' = Append(toJs, Answer("disconnectDone"))
        /\ UNCHANGED <<gatt, server>>
  /\ toNative' = Tail(toNative)
  /\ UNCHANGED <<scanned, inputs, faults>>

(* getConnectedDeviceIds and getConnectionState read the entries as they are
   when the call runs; isBluetoothEnabled and getDeviceId answer something that
   no connection depends on. *)
NativeQuery ==
  /\ \/ /\ Calls("enabled") \/ Calls("device")
        /\ toJs' = Append(toJs, Head(toNative))
     \/ /\ Calls("ids")
        /\ toJs' = Append(toJs, [op |-> "ids", hook |-> Head(toNative).hook,
                                 keys |-> {k \in Key : state[k] = "CONNECTED"}])
     \/ /\ Calls("state")
        /\ toJs' = Append(toJs, [op |-> "state", hook |-> Head(toNative).hook,
                                 key |-> Head(toNative).key,
                                 is |-> state[Head(toNative).key]])
  /\ toNative' = Tail(toNative)
  /\ UNCHANGED <<state, role, gatt, server, scanned, inputs, faults, silent>>

-------------------------------------------------------------------------------
(* Callbacks of the Bluetooth stack, on threads of its own. *)

(* The listeners of the manager for both roles: onConnected, onClientConnected. *)
OnConnectedAs(k, r) == UpdatePeerState(k, "CONNECTED", r) /\ Emit("CONNECTED", k)

(* onDescriptorWrite: notifications are on, the connection is ready. *)
ClientReady(d) ==
  /\ gatt[d] = "opening"
  /\ gatt' = [gatt EXCEPT ![d] = "ready"]
  /\ OnConnectedAs(d, "CLIENT")
  /\ UNCHANGED <<server, scanned, toNative, inputs, faults>>

(* onError: the entry goes before the error, which names no peer, is posted. *)
OnError(d) ==
  /\ faults < MaxFaults /\ faults' = faults + 1
  /\ Emit("ERROR", d)
  /\ IF Removable(d, "CLIENT")
     THEN RemoveEntry(d) /\ silent' = silent \cup {d}
     ELSE UNCHANGED <<state, role, silent>>
  /\ UNCHANGED <<server, scanned, toNative, inputs>>

(* A step of onServicesDiscovered or the subscription fails.  The link is
   given up, by us or by the stack; until then its entry refuses another. *)
ClientSetupFails(d) ==
  /\ gatt[d] = "opening"
  /\ gatt' = [gatt EXCEPT ![d] = "failed"]
  /\ OnError(d)

(* onCharacteristicWrite with an error: the link itself stays. *)
ClientWriteFails(d) ==
  /\ gatt[d] = "ready"
  /\ OnError(d)
  /\ UNCHANGED gatt

(* onConnectionStateChange(DISCONNECTED) of the client side. *)
ClientDrops(d) ==
  /\ gatt[d] # "none"
  /\ gatt' = [gatt EXCEPT ![d] = "none"]
  /\ DropEntry(d, "CLIENT")
  /\ UNCHANGED <<server, scanned, toNative, inputs, faults>>

(* A phone opens a link to our server.  ServerConnectionGuard numbers it; if it
   replaces a link whose end was not reported yet, one we have cancelled
   included, that report is ignored when it comes, and the entries of the old
   number stay. *)
ServerLinked(d) ==
  /\ Input
  /\ server' = [server EXCEPT ![d] = "linked"]
  /\ role' = [k \in Key |-> IF Owner(k) = d /\ role[k] = "SERVER" THEN "STALE"
                                                               ELSE role[k]]
  /\ UNCHANGED <<state, gatt, scanned, toNative, toJs, faults, silent>>

(* The other phone enables notifications: only now the peer is announced. *)
ServerSubscribed(d) ==
  /\ server[d] = "linked"
  /\ server' = [server EXCEPT ![d] = "subscribed"]
  /\ OnConnectedAs(KeyOf(d), "SERVER")
  /\ UNCHANGED <<gatt, scanned, toNative, inputs, faults>>

MutServerDrops(d) ==
  /\ server[d] # "down"
  /\ server' = [server EXCEPT ![d] = "down"]
  /\ IF server[d] = "ending" THEN UNCHANGED <<state, role, toJs, silent>>
                             ELSE DropEntry(KeyOf(d), "SERVER")
  /\ UNCHANGED <<gatt, scanned, toNative, inputs, faults>>

(* The link ends, and its number is the current one. *)
ServerDrops(d) ==
  /\ server[d] # "down"
  /\ server' = [server EXCEPT ![d] = "down"]
  /\ DropEntry(KeyOf(d), "SERVER")
  /\ UNCHANGED <<gatt, scanned, toNative, inputs, faults>>

(* onDeviceDiscovered puts the device in deviceMap under its iTantra id. *)
ScanFinds(d) ==
  /\ d \notin scanned
  /\ scanned' = scanned \cup {d}
  /\ UNCHANGED <<state, role, gatt, server, toNative, toJs, inputs, faults, silent>>

NativeNext ==
  \/ NativeConnect \/ NativeDisconnect \/ NativeQuery
  \/ \E d \in Device :
       \/ ClientReady(d) \/ ClientSetupFails(d) \/ ClientWriteFails(d)
       \/ ClientDrops(d)
       \/ ServerLinked(d) \/ ServerSubscribed(d) \/ ServerDrops(d)
       \/ ScanFinds(d)

-------------------------------------------------------------------------------
(* Properties. *)

(* Under the role the entry of a key has, its link exists. *)
Linked(k) ==
  CASE role[k] = "CLIENT" -> k \in Device /\ gatt[k] = "ready"
    [] role[k] = "SERVER" -> server[Owner(k)] = "subscribed"
    [] OTHER -> FALSE

(* "The source of truth for connection state is peerStates": what it calls a
   client connection is one the GATT client has, and an attempt has a GATT object
   whose callbacks can end it, across refused connects, failed set-ups, failed
   writes, and both roles of one peer overtaking each other. *)
ClientEntryHasGatt ==
  \A d \in Device :
    role[d] = "CLIENT" =>
      /\ state[d] = "CONNECTED" => gatt[d] = "ready"
      /\ state[d] = "CONNECTING" => gatt[d] # "none"

(* A server entry outlives its link in two ways only: a reconnect that overtook
   the report of the old link (the entry keeps the old number), and a scan that
   gave the device another key after it had connected. *)
ServerEntryHasLink ==
  \A k \in Key :
    /\ k \in Raw => role[k] # "CLIENT" \/ state[k] = "MISSING"
    /\ state[k] = "CONNECTED" /\ role[k] = "SERVER"
         => \/ server[Owner(k)] \in {"subscribed", "ending"}
            \/ (k \in Raw /\ Owner(k) \in scanned)
===============================================================================
