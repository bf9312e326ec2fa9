----------------------------- MODULE ConnectionHook -----------------------------
(* useBLE: every screen that uses the hook has an instance of it with its own
   map of peers, fed by native events and by one hydration when it mounts.  The
   instance of HomeScreen lives as long as the application; ConnectScreen mounts
   a new one each time it is opened, and its buttons connect and disconnect.

   A watermark is modelled by what it is compared for: from the snapshot of an
   instance on, until its hydration is done, touched holds the peers whose
   mutation count differs from the one in the snapshot.
   disconnect() without a device has no caller and is left out. *)
EXTENDS ConnectionManager, FiniteSets, SequencesExt

CONSTANT
  MaxMounts    \* bound: times ConnectScreen is opened

ASSUME FinitelyManyKeys == IsFiniteSet(Key)

Home == 0
Instance == {Home} \cup 1..MaxMounts

VARIABLES
  mounted,     \* instances that are on the navigation stack
  peers,       \* the map of each instance; "NONE" is no entry
  pending,     \* pendingConnectsRef
  hydration,   \* "off", the answer it waits for, or "done"
  touched,     \* peers mutated since the hydration's snapshot
  ids, found,  \* the listed peers, and those of them found CONNECTED
  waits,       \* listed peers whose state is still being asked for
  unheard      \* history: peers touched since the snapshot by a CONNECT or by the
               \* clean-up after an error, of which no event has come since

hookVars == <<mounted, peers, pending, hydration, touched, ids, found, waits,
              unheard>>
hydrationVars == <<hydration, ids, found, waits>>
allVars == <<managerVars, hookVars>>

(* The application starts: nothing is connected, HomeScreen has mounted. *)
Init ==
  /\ ManagerInit
  /\ mounted = {Home}
  /\ peers = [i \in Instance |-> [k \in Key |-> "NONE"]]
  /\ pending = [i \in Instance |-> {}]
  /\ hydration = [i \in Instance |-> IF i = Home THEN "done" ELSE "off"]
  /\ touched = [i \in Instance |-> {}]
  /\ ids = [i \in Instance |-> {}] /\ found = ids /\ waits = ids
  /\ unheard = touched

Call(what, k, i) == [op |-> what, key |-> k, hook |-> i]

-------------------------------------------------------------------------------
(* Mounting. *)

OpenConnectScreen ==
  /\ mounted = {Home}
  /\ \E i \in Instance :
       /\ hydration[i] = "off" /\ (i = 1 \/ hydration[i - 1] # "off")
       /\ mounted' = {Home, i}
       /\ hydration' = [hydration EXCEPT ![i] = "enabled"]
       /\ toNative' = Append(toNative, [op |-> "enabled", hook |-> i])
  /\ UNCHANGED <<state, role, gatt, server, scanned, toJs, inputs, faults, silent,
                 peers, pending, touched, ids, found, waits, unheard>>

(* The instance and its state go; the answers it is still waiting for have no
   effect any more. *)
CloseConnectScreen ==
  \E i \in mounted \ {Home} :
    /\ mounted' = {Home}
    /\ pending' = [pending EXCEPT ![i] = {}]
    /\ peers' = [peers EXCEPT ![i] = [k \in Key |-> "NONE"]]
    /\ hydration' = [hydration EXCEPT ![i] = "done"]
    /\ touched' = [touched EXCEPT ![i] = {}] /\ ids' = [ids EXCEPT ![i] = {}]
    /\ found' = [found EXCEPT ![i] = {}] /\ waits' = [waits EXCEPT ![i] = {}]
    /\ unheard' = [unheard EXCEPT ![i] = {}]
    /\ UNCHANGED managerVars

-------------------------------------------------------------------------------
(* Events: each touches the peer it names, in every mounted instance. *)

Handles(op) == toJs # <<>> /\ Head(toJs).op = op /\ toJs' = Tail(toJs)
NativeIsUntouched == UNCHANGED <<state, role, gatt, server, scanned, toNative, inputs,
                               faults, silent>>

SetPeer(k, next(_)) ==
  peers' = [i \in Instance |-> IF i \in mounted
                               THEN [peers[i] EXCEPT ![k] = next(@)] ELSE peers[i]]

Hydrating(i) == hydration[i] \in {"ids", "states"}

Touch(i, keys) == IF Hydrating(i) THEN touched[i] \cup keys ELSE touched[i]

NotePeerMutation(k) == touched' = [i \in Instance |-> Touch(i, {k})]

(* BLE_CONNECTED and BLE_DISCONNECTED end the pending connect of their peer. *)
NoLongerPending(k) == /\ pending' = [i \in Instance |-> pending[i] \ {k}]
                      /\ unheard' = [i \in Instance |-> unheard[i] \ {k}]

OnConnecting ==
  LET k       == Head(toJs).key
      next(p) == IF p = "CONNECTED" THEN p ELSE "CONNECTING"
  IN /\ Handles("CONNECTING")
     /\ SetPeer(k, next) /\ NotePeerMutation(k)
     /\ NativeIsUntouched /\ UNCHANGED <<mounted, pending, hydrationVars, unheard>>

OnConnected ==
  LET k       == Head(toJs).key
      next(p) == "CONNECTED"
  IN /\ Handles("CONNECTED")
     /\ SetPeer(k, next) /\ NotePeerMutation(k) /\ NoLongerPending(k)
     /\ NativeIsUntouched /\ UNCHANGED <<mounted, hydrationVars>>

OnDisconnected ==
  LET k       == Head(toJs).key
      next(p) == "NONE"
  IN /\ Handles("DISCONNECTED")
     /\ SetPeer(k, next) /\ NotePeerMutation(k) /\ NoLongerPending(k)
     /\ NativeIsUntouched /\ UNCHANGED <<mounted, hydrationVars>>

(* An optimistic entry that is still CONNECTING goes; any other stays. *)
Revert(p) == IF p = "CONNECTING" THEN "NONE" ELSE p

(* The error names no peer: an instance with exactly one pending connect takes
   it for that one, every other instance keeps what it has. *)
OnConnectionError ==
  LET single(i) == i \in mounted /\ Cardinality(pending[i]) = 1 IN
  /\ Handles("ERROR")
  /\ peers' = [i \in Instance |->
                IF single(i) THEN [k \in Key |-> IF k \in pending[i] THEN Revert(peers[i][k])
                                                                 ELSE peers[i][k]]
                             ELSE peers[i]]
  /\ touched' = [i \in Instance |-> IF single(i) THEN Touch(i, pending[i]) ELSE touched[i]]
  /\ unheard' = [i \in Instance |-> IF single(i) /\ Hydrating(i)
                                     THEN unheard[i] \cup pending[i] ELSE unheard[i]]
  /\ pending' = [i \in Instance |-> IF single(i) THEN {} ELSE pending[i]]
  /\ NativeIsUntouched /\ UNCHANGED <<mounted, hydrationVars>>

-------------------------------------------------------------------------------
(* ConnectScreen's rows: every entry of the map under its state, and every
   scanned device without one as available. *)
PeerRows(i) ==
  [k \in {k \in Key : peers[i][k] # "NONE" \/ k \in scanned} |->
     IF peers[i][k] = "NONE" THEN "IDLE" ELSE peers[i][k]]

Row(i, k, s) == i \in mounted \ {Home} /\ k \in DOMAIN PeerRows(i) /\ PeerRows(i)[k] = s

(* The button of a row, disabled while it is CONNECTING.  A row that the
   hydration has not reached yet is available like any other. *)
PressConnect(i, d) ==
  /\ Row(i, d, "IDLE")
  /\ Input
  /\ peers' = [peers EXCEPT ![i][d] = "CONNECTING"]
  /\ touched' = [touched EXCEPT ![i] = Touch(i, {d})]
  /\ pending' = [pending EXCEPT ![i] = @ \cup {d}]
  /\ unheard' = IF Hydrating(i) THEN [unheard EXCEPT ![i] = @ \cup {d}] ELSE unheard
  /\ toNative' = Append(toNative, Call("connect", d, i))
  /\ UNCHANGED <<state, role, gatt, server, scanned, toJs, faults, silent,
                 mounted, hydrationVars>>

PressDisconnect(i, k) ==
  /\ Row(i, k, "CONNECTED")
  /\ Input
  /\ touched' = [touched EXCEPT ![i] = Touch(i, {k})]
  /\ toNative' = Append(toNative, Call("disconnect", k, i))
  /\ UNCHANGED <<state, role, gatt, server, scanned, toJs, faults, silent,
                 mounted, peers, pending, hydrationVars, unheard>>

(* connect() resolves: events do the rest. *)
ConnectDone ==
  /\ Handles("connectDone")
  /\ NativeIsUntouched /\ UNCHANGED hookVars

(* ALREADY_CONNECTED or ALREADY_CONNECTING: the entry is left to the events. *)
ConnectRefused ==
  /\ Handles("connectRefused")
  /\ pending' = [pending EXCEPT ![Head(toJs).hook] = @ \ {Head(toJs).key}]
  /\ NativeIsUntouched
  /\ UNCHANGED <<mounted, peers, hydrationVars, touched, unheard>>

(* disconnect() resolves: the entry goes, without another watermark. *)
DisconnectDone ==
  LET i == Head(toJs).hook
      k == Head(toJs).key
  IN /\ Handles("disconnectDone")
     /\ pending' = [pending EXCEPT ![i] = @ \ {k}]
     /\ peers' = IF i \in mounted THEN [peers EXCEPT ![i][k] = "NONE"] ELSE peers
     /\ NativeIsUntouched /\ UNCHANGED <<mounted, hydrationVars, touched, unheard>>

-------------------------------------------------------------------------------
(* Hydration: two answers that it only shows, a snapshot of the watermarks, the
   list, the state of each listed peer, then one update that leaves alone what
   was touched since the snapshot. *)

(* isBluetoothEnabled, then getDeviceId, then the snapshot and
   getConnectedDeviceIds: each is asked when the one before has answered. *)
AsksNext(answer, question) ==
  LET i == Head(toJs).hook IN
  /\ Handles(answer)
  /\ hydration' = IF i \in mounted THEN [hydration EXCEPT ![i] = question] ELSE hydration
  /\ toNative' = Append(toNative, [op |-> question, hook |-> i])
  /\ UNCHANGED <<state, role, gatt, server, scanned, inputs, faults, silent, mounted,
                 peers, pending, touched, ids, found, waits, unheard>>

OnEnabled == AsksNext("enabled", "device")
OnDevice == AsksNext("device", "ids")

MutHydrated(i, listed, now) ==
  [k \in Key |-> IF k \in now THEN "CONNECTED"
                 ELSE IF k \in listed \cup touched[i] THEN peers[i][k]
                 ELSE "NONE"]

Mut2Hydrated(i, listed, now) ==
  [k \in Key |-> IF k \in touched[i] \cap now THEN peers[i][k]
                 ELSE IF k \in now THEN "CONNECTED"
                 ELSE IF k \in listed THEN peers[i][k]
                 ELSE "NONE"]

Hydrated(i, listed, now) ==
  [k \in Key |-> IF k \in touched[i] THEN peers[i][k]
                 ELSE IF k \in now THEN "CONNECTED"
                 ELSE IF k \in listed THEN peers[i][k]
                 ELSE "NONE"]

Finish(i, listed, now) ==
  /\ peers' = [peers EXCEPT ![i] = Hydrated(i, listed, now)]
  /\ hydration' = [hydration EXCEPT ![i] = "done"]
  /\ touched' = [touched EXCEPT ![i] = {}] /\ ids' = [ids EXCEPT ![i] = {}]
  /\ found' = [found EXCEPT ![i] = {}] /\ waits' = [waits EXCEPT ![i] = {}]

(* The states are asked for in the order of the list. *)
OnIds ==
  LET i == Head(toJs).hook
      keys == Head(toJs).keys
  IN /\ Handles("ids")
     /\ \/ i \in mounted /\ keys = {} /\ Finish(i, {}, {})
        \/ /\ i \in mounted /\ keys # {}
           /\ hydration' = [hydration EXCEPT ![i] = "states"]
           /\ ids' = [ids EXCEPT ![i] = keys] /\ waits' = [waits EXCEPT ![i] = keys]
           /\ UNCHANGED <<peers, touched, found>>
        \/ i \notin mounted /\ UNCHANGED <<peers, touched, hydrationVars>>
     /\ toNative' = toNative \o [n \in DOMAIN SetToSeq(keys) |->
                                   Call("state", SetToSeq(keys)[n], i)]
     /\ UNCHANGED <<state, role, gatt, server, scanned, inputs, faults, silent,
                    mounted, pending, unheard>>

OnState ==
  LET i == Head(toJs).hook
      k == Head(toJs).key
      now == IF Head(toJs).is = "CONNECTED" THEN found[i] \cup {k} ELSE found[i]
  IN /\ Handles("state")
     /\ \/ i \in mounted /\ waits[i] = {k} /\ Finish(i, ids[i], now)
        \/ /\ i \in mounted /\ waits[i] # {k}
           /\ found' = [found EXCEPT ![i] = now]
           /\ waits' = [waits EXCEPT ![i] = @ \ {k}]
           /\ UNCHANGED <<peers, touched, hydration, ids>>
        \/ i \notin mounted /\ UNCHANGED <<peers, touched, hydrationVars>>
     /\ NativeIsUntouched /\ UNCHANGED <<mounted, pending, unheard>>

HookNext ==
  \/ OpenConnectScreen \/ CloseConnectScreen
  \/ OnConnecting \/ OnConnected \/ OnDisconnected \/ OnConnectionError
  \/ \E i \in Instance, k \in Key : PressConnect(i, k) \/ PressDisconnect(i, k)
  \/ ConnectDone \/ ConnectRefused \/ DisconnectDone
  \/ OnEnabled \/ OnDevice \/ OnIds \/ OnState

Next == HookNext \/ (NativeNext /\ UNCHANGED hookVars)

Spec == Init /\ [][Next]_allVars

-------------------------------------------------------------------------------
(* Properties. *)

Quiet(i) == toNative = <<>> /\ toJs = <<>> /\ i \in mounted /\ hydration[i] = "done"

(* deriveLegacyState: what HomeScreen shows. *)
LegacyState(i) ==
  IF "CONNECTED" \in Range(peers[i]) THEN "CONNECTED"
  ELSE IF "CONNECTING" \in Range(peers[i]) THEN "CONNECTING" ELSE "IDLE"

(* Once every event and answer is handled, an instance shows every peer that is
   connected over a link nobody has cancelled, whenever the instance mounted and
   whatever overtook its hydration; its legacy view then shows a connection.
   The one exception: a peer whose CONNECT was pressed before the hydration was
   done.  The press, or the clean-up after an error that names no peer, keeps the
   hydration from setting its entry; native refuses the call as
   ALREADY_CONNECTED; and the event to which connect() leaves the entry has been
   and gone. *)
ConnectedIsShown ==
  \A i \in Instance : Quiet(i) =>
    \A k \in Key : state[k] = "CONNECTED" /\ Linked(k) =>
      \/ peers[i][k] = "CONNECTED" /\ LegacyState(i) = "CONNECTED"
      \/ k \in unheard[i]

(* An instance shows a peer native does not have only if native dropped that
   entry without a BLE_DISCONNECTED: no hydration, late answer or optimistic
   entry brings one back. *)
OnlySilentGhosts ==
  \A i \in Instance : Quiet(i) =>
    \A k \in Key : peers[i][k] # "NONE" => state[k] # "MISSING" \/ k \in silent

(* useBLE.ts:332-334, "A peer that failed mid-session is reconciled by the
   BLE_DISCONNECTED event that follows most native error paths": once its link is
   gone too, no instance shows a peer connected whose entry an error removed. *)
FailedPeerIsReconciled ==
  \A i \in Instance : Quiet(i) =>
    \A d \in silent \cap Device : gatt[d] = "none" /\ server[d] = "down"
                                 => peers[i][d] # "CONNECTED"
===============================================================================
