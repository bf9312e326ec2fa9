----------------------------- MODULE HalfDuplex -----------------------------
(***************************************************************************)
(* Half-duplex transmission ownership between the two phones of a direct   *)
(* link: the TX_CONTROL handlers of useBLEVoiceMode (REQUEST, GRANT,       *)
(* RELEASE), the push-to-talk button of HomeScreen that drives them, and   *)
(* the speech result that ends in a transmission.                          *)
(*                                                                         *)
(* Every await of the source is a place where other handlers run: the two  *)
(* native queries of beginPttTurn (`checking`), the native write of a      *)
(* control frame (`out`), the wait for the GRANT (`calls`), the voice      *)
(* transmission (`sending`).  The link keeps order and loses frames only   *)
(* when it goes down; a write may be reported as failed although the frame *)
(* was delivered.  Voice mode can be toggled, the link can drop.           *)
(***************************************************************************)
EXTENDS Naturals, Sequences
LOCAL INSTANCE Functions

CONSTANTS
  Phone,       \* the two ends of the link
  MaxPresses,  \* bound: MaxPresses[p] presses of p's PTT button
  MaxSending,  \* bound: speech results of one phone being transmitted at once
  MaxUpsets,   \* bound: losses of the link and switch-offs of voice mode
  MaxEvents    \* bound: presses and upsets together

ASSUME PhoneAssumption == \E p, q \in Phone : p # q /\ Phone = {p, q}
ASSUME BoundsAssumption ==
  /\ MaxPresses \in [Phone -> Nat]
  /\ {MaxSending, MaxUpsets, MaxEvents} \subseteq Nat

VARIABLES
  txOwner,     \* txOwnerRef
  txId,        \* txIdRef: the token of the turn we own, 0 if none
  owningPeer,  \* txOwningPeerRef # null (there is one peer)
  watchdog,    \* txRemoteWatchdogRef: the timer it holds, 0 if null
  timers,      \* the watchdog timers that run
  counter,     \* txRequestCounterRef
  resolver,    \* request id in txRequestResolversRef for the peer, 0 if none
  armed,       \* the request timeout of that resolver runs
  checking,    \* beginPttTurn calls awaiting the native connection queries
  calls,       \* requestTxOwnership calls past the check that have not returned
  finger,      \* the PTT button is held
  presses,     \* how often it was pressed
  app,         \* appReducer's state (PLAYING_TTS left out)
  recording,   \* the microphone captures for NativeSTT
  results,     \* speech results on their way to the STT_RESULT handler
  sending,     \* transmissions of speech results in progress
  enabled,     \* voice mode is on
  out,         \* control frames given to NativeBLE.send, not yet settled
  onAir,       \* the head of `out` was delivered
  chan,        \* control frames delivered to a phone, not yet handled
  linked,      \* the BLE link is up
  lost,        \* the disconnect event has not reached the hook yet
  upsets

turnVars  == <<txOwner, txId, owningPeer, watchdog, timers>>
callVars  == <<resolver, armed, checking, calls>>
userVars  == <<finger, presses, app, recording, results, sending, enabled>>
linkVars  == <<onAir, chan, linked, lost, upsets>>
vars      == <<turnVars, counter, callVars, userVars, out, linkVars>>

Other(p) == CHOOSE q \in Phone : q # p

None == 0

Frame == [op: {"REQUEST", "GRANT", "RELEASE"}, token: Nat, req: Nat]

Request(r)      == [op |-> "REQUEST", token |-> None, req |-> r]
Grant(token, r) == [op |-> "GRANT", token |-> token, req |-> r]
Release(token)  == [op |-> "RELEASE", token |-> token, req |-> None]

HalfDuplexTypeOK ==
  /\ txOwner \in [Phone -> {"NO_OWNER", "SELF", "REMOTE"}]
  /\ txId \in [Phone -> Nat]
  /\ owningPeer \in [Phone -> BOOLEAN]
  /\ watchdog \in [Phone -> Nat]
  /\ timers \in [Phone -> SUBSET Nat]
  /\ counter \in [Phone -> Nat]
  /\ resolver \in [Phone -> Nat]
  /\ armed \in [Phone -> BOOLEAN]
  /\ checking \in [Phone -> Nat]
  /\ calls \in [Phone -> SUBSET [id: Nat, answer: {"none", "granted", "denied"}]]
  /\ finger \in [Phone -> BOOLEAN]
  /\ presses \in [Phone -> Nat]
  /\ app \in [Phone -> {"IDLE", "LISTENING", "PROCESSING_STT"}]
  /\ recording \in [Phone -> BOOLEAN]
  /\ results \in [Phone -> BOOLEAN]
  /\ sending \in [Phone -> 0..MaxSending]
  /\ enabled \in [Phone -> BOOLEAN]
  /\ out \in [Phone -> Seq(Frame)]
  /\ onAir \in [Phone -> BOOLEAN]
  /\ chan \in [Phone -> Seq(Frame)]
  /\ linked \in BOOLEAN
  /\ lost \in [Phone -> BOOLEAN]
  /\ upsets \in 0..MaxUpsets

Init ==
  /\ txOwner    = [p \in Phone |-> "NO_OWNER"]
  /\ txId       = [p \in Phone |-> None]
  /\ owningPeer = [p \in Phone |-> FALSE]
  /\ watchdog   = [p \in Phone |-> None]
  /\ timers     = [p \in Phone |-> {}]
  /\ counter    = [p \in Phone |-> 0]
  /\ resolver   = [p \in Phone |-> None]
  /\ armed      = [p \in Phone |-> FALSE]
  /\ checking   = [p \in Phone |-> 0]
  /\ calls      = [p \in Phone |-> {}]
  /\ finger     = [p \in Phone |-> FALSE]
  /\ presses    = [p \in Phone |-> 0]
  /\ app        = [p \in Phone |-> "IDLE"]
  /\ recording  = [p \in Phone |-> FALSE]
  /\ results    = [p \in Phone |-> FALSE]
  /\ sending    = [p \in Phone |-> 0]
  /\ enabled    = [p \in Phone |-> TRUE]
  /\ out        = [p \in Phone |-> <<>>]
  /\ onAir      = [p \in Phone |-> FALSE]
  /\ chan       = [p \in Phone |-> <<>>]
  /\ linked     = TRUE
  /\ lost       = [p \in Phone |-> FALSE]
  /\ upsets      = 0

-----------------------------------------------------------------------------
(* Helpers.                                                                *)

(* The hook still has the peer in connectedPeersRef.                        *)
Connected(p) == linked \/ lost[p]

(* pressIn after beginPttTurn resolved to true.                            *)
StartRecording(p) ==
  /\ recording' = [recording EXCEPT ![p] = TRUE]
  /\ app' = [app EXCEPT ![p] = "LISTENING"]

(* Mutant: an owner other than the remote does not clear the watchdog.     *)
MutSetTxOwner(p, owner) ==
  LET timer == IF owner = "REMOTE" THEN counter[p] + 1 ELSE watchdog[p] IN
  /\ txOwner' = [txOwner EXCEPT ![p] = owner]
  /\ watchdog' = [watchdog EXCEPT ![p] = timer]
  /\ timers' = [timers EXCEPT ![p] =
                  IF owner = "REMOTE" THEN (@ \ {watchdog[p]}) \cup {timer} ELSE @]

(* The timer the ref holds is cleared; for the remote a new one is armed,  *)
(* named here by the token under which its turn was granted.               *)
SetTxOwner(p, owner) ==
  LET armedNow == IF owner = "REMOTE" THEN {counter[p] + 1} ELSE {} IN
  /\ txOwner' = [txOwner EXCEPT ![p] = owner]
  /\ watchdog' = [watchdog EXCEPT ![p] = IF owner = "REMOTE" THEN counter[p] + 1 ELSE None]
  /\ timers' = [timers EXCEPT ![p] = (@ \ {watchdog[p]}) \cup armedNow]

(* setTxOwner(NO_OWNER) of releaseTxOwnership: local state first, whoever  *)
(* owns the link; the peer is told only if we did.                         *)
ReleaseOwnership(p) ==
  /\ txId' = [txId EXCEPT ![p] = None]
  /\ SetTxOwner(p, "NO_OWNER")
  /\ out' = IF txOwner[p] = "SELF" /\ Connected(p)
            THEN [out EXCEPT ![p] = Append(@, Release(txId[p]))]
            ELSE out
  /\ UNCHANGED owningPeer

(* The bound on what users and radio do of their own accord.               *)
MayHappen == upsets + FoldFunction(+, 0, presses) < MaxEvents

(* The call of request r has not heard from its own write yet.             *)
Writing(p, r) == \E i \in DOMAIN out[p] : out[p][i] = Request(r)

-----------------------------------------------------------------------------
(* The push-to-talk button.                                                *)

(* onPressIn -> beginPttTurn: an owner records at once, the button is      *)
(* disabled while the remote owns the link or a result is awaited.         *)
Press(p) ==
  /\ ~finger[p]
  /\ enabled[p]
  /\ presses[p] < MaxPresses[p]
  /\ MayHappen
  /\ app[p] # "PROCESSING_STT"
  /\ txOwner[p] # "REMOTE"
  /\ finger' = [finger EXCEPT ![p] = TRUE]
  /\ presses' = [presses EXCEPT ![p] = @ + 1]
  /\ IF txOwner[p] = "SELF"
     THEN StartRecording(p) /\ UNCHANGED checking
     ELSE /\ checking' = [checking EXCEPT ![p] = @ + 1]
          /\ UNCHANGED <<recording, app>>
  /\ UNCHANGED <<turnVars, counter, resolver, armed, calls, results, sending,
                 enabled, out, linkVars>>

(* beginPttTurn returns false without a request: not connected, no mesh    *)
(* route yet, the remote owns the link, or a request is already in flight. *)
CheckRefuses(p) ==
  /\ checking[p] > 0
  /\ checking' = [checking EXCEPT ![p] = @ - 1]
  /\ UNCHANGED <<turnVars, counter, resolver, armed, calls, userVars, out, linkVars>>

(* Another call of ours acquired the link meanwhile: true.                 *)
CheckOwns(p) ==
  /\ checking[p] > 0
  /\ linked
  /\ txOwner[p] = "SELF"
  /\ checking' = [checking EXCEPT ![p] = @ - 1]
  /\ StartRecording(p)
  /\ UNCHANGED <<turnVars, counter, resolver, armed, calls, finger, presses,
                 results, sending, enabled, out, linkVars>>

(* The resolver is registered before the REQUEST is written.               *)
CheckRequests(p) ==
  LET r == counter[p] + 1 IN
  /\ checking[p] > 0
  /\ linked
  /\ txOwner[p] = "NO_OWNER"
  /\ resolver[p] = None
  /\ checking' = [checking EXCEPT ![p] = @ - 1]
  /\ counter' = [counter EXCEPT ![p] = r]
  /\ resolver' = [resolver EXCEPT ![p] = r]
  /\ armed' = [armed EXCEPT ![p] = FALSE]
  /\ calls' = [calls EXCEPT ![p] = @ \cup {[id |-> r, answer |-> "none"]}]
  /\ out' = [out EXCEPT ![p] = Append(@, Request(r))]
  /\ UNCHANGED <<turnVars, userVars, linkVars>>

(* onPressOut: stopListening, then endPttTurn.  The recognizer reports a   *)
(* final result only if it understood something.                           *)
PressOut(p) ==
  /\ finger[p]
  /\ finger' = [finger EXCEPT ![p] = FALSE]
  /\ recording' = [recording EXCEPT ![p] = FALSE]
  /\ app' = [app EXCEPT ![p] = IF @ = "LISTENING" THEN "PROCESSING_STT" ELSE @]
  /\ \/ UNCHANGED results
     \/ recording[p] /\ sending[p] < MaxSending /\ results' = [results EXCEPT ![p] = TRUE]
  /\ IF txOwner[p] = "SELF"
     THEN ReleaseOwnership(p)
     ELSE UNCHANGED <<turnVars, out>>
  /\ UNCHANGED <<counter, callVars, presses, sending, enabled, linkVars>>

(* The recognizer finds an endpoint while the microphone is open.          *)
Speak(p) ==
  /\ recording[p]
  /\ ~results[p]
  /\ sending[p] < MaxSending
  /\ results' = [results EXCEPT ![p] = TRUE]
  /\ UNCHANGED <<turnVars, counter, callVars, finger, presses, app, recording,
                 sending, enabled, out, linkVars>>

(* STT_RESULT: refused only while the remote owns the link.                *)
SttResult(p) ==
  /\ results[p]
  /\ results' = [results EXCEPT ![p] = FALSE]
  /\ app' = [app EXCEPT ![p] = "IDLE"]
  /\ sending' = IF enabled[p] /\ txOwner[p] # "REMOTE"
                THEN [sending EXCEPT ![p] = @ + 1]
                ELSE sending
  /\ UNCHANGED <<turnVars, counter, callVars, finger, presses, recording,
                 enabled, out, linkVars>>

(* markSent or markFailed: the turn is over.                               *)
VoiceSettled(p) ==
  /\ sending[p] > 0
  /\ sending' = [sending EXCEPT ![p] = @ - 1]
  /\ ReleaseOwnership(p)
  /\ UNCHANGED <<counter, callVars, finger, presses, app, recording, results,
                 enabled, linkVars>>

(* toggleVoiceMode touches no ownership state.                             *)
ToggleVoiceMode(p) ==
  /\ IF enabled[p] THEN upsets < MaxUpsets /\ MayHappen ELSE linked
  /\ enabled' = [enabled EXCEPT ![p] = ~@]
  /\ upsets' = IF enabled[p] THEN upsets + 1 ELSE upsets
  /\ UNCHANGED <<turnVars, counter, callVars, finger, presses, app, recording,
                 results, sending, out, onAir, chan, linked, lost>>

(* A received message was spoken: TTS_FINISHED resets the screen.          *)
AppReset(p) ==
  /\ app[p] # "IDLE"
  /\ app' = [app EXCEPT ![p] = "IDLE"]
  /\ UNCHANGED <<turnVars, counter, callVars, finger, presses, recording,
                 results, sending, enabled, out, linkVars>>

-----------------------------------------------------------------------------
(* Control frames: the native write, and the receive handler.              *)

(* The head frame reaches the peer; NativeBLE.send has not settled yet.    *)
FrameDelivered(p) ==
  /\ out[p] # <<>> /\ ~onAir[p]
  /\ linked
  /\ onAir' = [onAir EXCEPT ![p] = TRUE]
  /\ chan' = [chan EXCEPT ![Other(p)] = Append(@, Head(out[p]))]
  /\ UNCHANGED <<turnVars, counter, callVars, userVars, out, linked, lost, upsets>>

Settles(p, ok) ==
  /\ out[p] # <<>>
  /\ ok => onAir[p]
  /\ out' = [out EXCEPT ![p] = Tail(@)]
  /\ onAir' = [onAir EXCEPT ![p] = FALSE]
  /\ UNCHANGED <<counter, checking, finger, presses, results, sending, enabled,
                 chan, linked, lost, upsets>>

(* requestTxOwnership goes on after its write: an answer may be there      *)
(* already, else the timeout is armed.                                     *)
RequestWritten(p) ==
  /\ Settles(p, TRUE)
  /\ Head(out[p]).op = "REQUEST"
  /\ LET r == Head(out[p]).req IN
     /\ armed' = [armed EXCEPT ![p] = resolver[p] = r \/ @]
     /\ calls' = [calls EXCEPT ![p] = {c \in @ : c.id = r => c.answer = "none"}]
     /\ IF [id |-> r, answer |-> "granted"] \in calls[p]
        THEN StartRecording(p)
        ELSE UNCHANGED <<recording, app>>
  /\ UNCHANGED <<turnVars, resolver>>

(* Mutant: a failed write leaves its resolver behind.                      *)
MutRequestFailed(p) ==
  /\ Settles(p, FALSE)
  /\ Head(out[p]).op = "REQUEST"
  /\ calls' = [calls EXCEPT ![p] = {c \in @ : c.id # Head(out[p]).req}]
  /\ UNCHANGED <<turnVars, resolver, armed, recording, app>>

(* The write failed: the peer's resolver is deleted, whichever call        *)
(* registered it, and this call returns null.                              *)
RequestFailed(p) ==
  /\ Settles(p, FALSE)
  /\ Head(out[p]).op = "REQUEST"
  /\ resolver' = [resolver EXCEPT ![p] = None]
  /\ armed' = [armed EXCEPT ![p] = FALSE]
  /\ calls' = [calls EXCEPT ![p] = {c \in @ : c.id # Head(out[p]).req}]
  /\ UNCHANGED <<turnVars, recording, app>>

(* The GRANT could not be delivered, or so it seems: revert.               *)
GrantFailed(p) ==
  /\ Settles(p, FALSE)
  /\ Head(out[p]).op = "GRANT" /\ Head(out[p]).token # None
  /\ owningPeer' = [owningPeer EXCEPT ![p] = FALSE]
  /\ SetTxOwner(p, "NO_OWNER")
  /\ UNCHANGED <<txId, resolver, armed, calls, recording, app>>

(* Nothing depends on how the other control writes end.                    *)
OtherWritten(p) ==
  /\ out[p] # <<>>
  /\ \/ Settles(p, TRUE) /\ Head(out[p]).op # "REQUEST"
     \/ /\ Settles(p, FALSE)
        /\ Head(out[p]).op = "RELEASE" \/ Head(out[p]) = Grant(None, Head(out[p]).req)
  /\ UNCHANGED <<turnVars, resolver, armed, calls, recording, app>>

(* 1500 ms without an answer.                                              *)
RequestTimeout(p) ==
  /\ armed[p]
  /\ armed' = [armed EXCEPT ![p] = FALSE]
  /\ resolver' = [resolver EXCEPT ![p] = None]
  /\ calls' = [calls EXCEPT ![p] = {c \in @ : c.id # resolver[p]}]
  /\ UNCHANGED <<turnVars, counter, checking, userVars, out, linkVars>>

(* TX_REMOTE_WATCHDOG_MS after setTxOwner(REMOTE): the ref is nulled, and  *)
(* the link freed if the remote owns it, whichever turn the timer was      *)
(* armed for.  Voice frames of the owner do not refresh it.                *)
RemoteWatchdog(p) ==
  \E timer \in timers[p] :
    /\ timers' = [timers EXCEPT ![p] = @ \ {timer}]
    /\ watchdog' = [watchdog EXCEPT ![p] = None]
    /\ txOwner' = [txOwner EXCEPT ![p] = IF @ = "REMOTE" THEN "NO_OWNER" ELSE @]
    /\ UNCHANGED <<txId, owningPeer, counter, callVars, userVars, out, linkVars>>

Receives(p, op) ==
  /\ chan[p] # <<>>
  /\ Head(chan[p]).op = op
  /\ chan' = [chan EXCEPT ![p] = Tail(@)]
  /\ UNCHANGED <<onAir, linked, lost, upsets, checking, finger, presses, results,
                 sending, enabled>>

(* REQUEST: grant under a fresh token if nobody owns the link, else deny.  *)
OnRequest(p) ==
  LET r     == Head(chan[p]).req
      token == counter[p] + 1
  IN
  /\ Receives(p, "REQUEST")
  /\ IF txOwner[p] = "NO_OWNER"
     THEN /\ counter' = [counter EXCEPT ![p] = token]
          /\ txId' = [txId EXCEPT ![p] = None]
          /\ owningPeer' = [owningPeer EXCEPT ![p] = TRUE]
          /\ SetTxOwner(p, "REMOTE")
          /\ out' = [out EXCEPT ![p] = Append(@, Grant(token, r))]
     ELSE /\ out' = [out EXCEPT ![p] = Append(@, Grant(None, r))]
          /\ UNCHANGED <<turnVars, counter>>
  /\ UNCHANGED <<resolver, armed, calls, recording, app>>

(* Mutant: a denial is taken for a grant.                                  *)
MutOnGrant(p) ==
  LET r == resolver[p] IN
  /\ Receives(p, "GRANT")
  /\ resolver' = [resolver EXCEPT ![p] = None]
  /\ armed' = [armed EXCEPT ![p] = FALSE]
  /\ calls' = [calls EXCEPT ![p] = {c \in @ : c.id # r}]
  /\ IF r = None
     THEN UNCHANGED <<turnVars, recording, app>>
     ELSE /\ txId' = [txId EXCEPT ![p] = Head(chan[p]).token]
          /\ owningPeer' = [owningPeer EXCEPT ![p] = TRUE]
          /\ SetTxOwner(p, "SELF")
          /\ StartRecording(p)
  /\ UNCHANGED <<counter, out>>

(* GRANT: it answers whichever request is pending; the owner at this       *)
(* moment is not looked at.  Without a pending request it is ignored.      *)
OnGrant(p) ==
  LET r        == resolver[p]
      token    == Head(chan[p]).token
      accepted == token # None
      answer   == IF accepted THEN "granted" ELSE "denied"
  IN
  /\ Receives(p, "GRANT")
  /\ resolver' = [resolver EXCEPT ![p] = None]
  /\ armed' = [armed EXCEPT ![p] = FALSE]
  /\ IF r # None /\ accepted
     THEN /\ txId' = [txId EXCEPT ![p] = token]
          /\ owningPeer' = [owningPeer EXCEPT ![p] = TRUE]
          /\ SetTxOwner(p, "SELF")
     ELSE UNCHANGED turnVars
  /\ calls' = [calls EXCEPT ![p] =
                 {c \in @ : c.id # r} \cup
                   IF Writing(p, r) THEN {[id |-> r, answer |-> answer]} ELSE {}]
  /\ IF r # None /\ accepted /\ ~Writing(p, r)
     THEN StartRecording(p)
     ELSE UNCHANGED <<recording, app>>
  /\ UNCHANGED <<counter, out>>

(* RELEASE: neither the token nor anything else is compared.               *)
OnRelease(p) ==
  /\ Receives(p, "RELEASE")
  /\ IF txOwner[p] = "REMOTE"
     THEN /\ owningPeer' = [owningPeer EXCEPT ![p] = FALSE]
          /\ SetTxOwner(p, "NO_OWNER")
     ELSE UNCHANGED <<owningPeer, txOwner, watchdog, timers>>
  /\ UNCHANGED <<txId, counter, resolver, armed, calls, recording, app, out>>

-----------------------------------------------------------------------------
(* The link.                                                               *)

Drop ==
  /\ linked
  /\ upsets < MaxUpsets
  /\ MayHappen
  /\ linked' = FALSE
  /\ upsets' = upsets + 1
  /\ lost' = [p \in Phone |-> TRUE]
  /\ chan' = [p \in Phone |-> <<>>]
  /\ UNCHANGED <<turnVars, counter, callVars, userVars, out, onAir>>

(* Mutant: the lock survives the loss of the link.                         *)
MutOnDisconnected(p) ==
  /\ lost[p]
  /\ lost' = [lost EXCEPT ![p] = FALSE]
  /\ enabled' = [enabled EXCEPT ![p] = FALSE]
  /\ UNCHANGED <<turnVars, counter, callVars, finger, presses, app, recording,
                 results, sending, out, onAir, chan, linked, upsets>>

(* onDisconnected: the lock belongs to the connection.                     *)
OnDisconnected(p) ==
  /\ lost[p]
  /\ lost' = [lost EXCEPT ![p] = FALSE]
  /\ IF owningPeer[p]
     THEN /\ owningPeer' = [owningPeer EXCEPT ![p] = FALSE]
          /\ txId' = [txId EXCEPT ![p] = None]
          /\ SetTxOwner(p, "NO_OWNER")
     ELSE UNCHANGED turnVars
  /\ enabled' = [enabled EXCEPT ![p] = FALSE]
  /\ UNCHANGED <<counter, callVars, finger, presses, app, recording, results,
                 sending, out, onAir, chan, linked, upsets>>

(* The native layer fails what is queued at once; a new connection takes   *)
(* longer than that.                                                       *)
Reconnect ==
  /\ ~linked
  /\ \A p \in Phone : ~lost[p] /\ out[p] = <<>>
  /\ linked' = TRUE
  /\ UNCHANGED <<turnVars, counter, callVars, userVars, out, onAir, chan, lost, upsets>>

-----------------------------------------------------------------------------
User(p) == Press(p) \/ Speak(p) \/ ToggleVoiceMode(p) \/ AppReset(p)

Check(p) == CheckRefuses(p) \/ CheckOwns(p) \/ CheckRequests(p)

WriteSettled(p) ==
  RequestWritten(p) \/ RequestFailed(p) \/ GrantFailed(p) \/ OtherWritten(p)

Receive(p) == OnRequest(p) \/ OnGrant(p) \/ OnRelease(p)

Next ==
  \/ \E p \in Phone :
       \/ User(p) \/ PressOut(p) \/ Check(p) \/ SttResult(p) \/ VoiceSettled(p)
       \/ FrameDelivered(p) \/ WriteSettled(p) \/ Receive(p)
       \/ RequestTimeout(p) \/ RemoteWatchdog(p) \/ OnDisconnected(p)
  \/ Drop
  \/ Reconnect

Spec == Init /\ [][Next]_vars

-----------------------------------------------------------------------------
(* Properties.                                                             *)

(* A GRANT of the peer that p has accepted names a turn the peer opened:   *)
(* the owner holds a token, taken from the peer's counter.  A denial never *)
(* makes an owner, and whatever late write fails, idempotent re-presses    *)
(* find a token (requestTxOwnership returns txIdRef.current || null).      *)
OwnerHoldsToken ==
  \A p \in Phone : txOwner[p] = "SELF" => txId[p] \in 1..counter[Other(p)]

(* "A disconnect always releases link ownership": after the disconnect     *)
(* event was handled nobody owns a link that is down, although grants and  *)
(* releases complete in any order around it.                               *)
NoOwnerWithoutLink ==
  \A p \in Phone : ~linked /\ ~lost[p] => txOwner[p] = "NO_OWNER"

(* A pending request is bounded: its write is still outstanding, or its    *)
(* timeout runs; and the call that made it waits for it.  Otherwise the    *)
(* slot (one request per peer) would refuse every later press, or an       *)
(* answer would make an owner of a phone on which nothing starts to record.*)
PendingIsBounded ==
  \A p \in Phone : resolver[p] # None =>
    /\ armed[p] \/ Writing(p, resolver[p])
    /\ [id |-> resolver[p], answer |-> "none"] \in calls[p]

(* The link cannot be left to a silent peer, nor a turn be cut short by    *)
(* the timer of an earlier one: while the remote owns the link exactly one *)
(* watchdog runs, that of the token granted last, and else none, however   *)
(* grants, releases, failed writes and losses of the link take turns.      *)
WatchdogIsOfThisTurn ==
  \A p \in Phone : timers[p] = IF txOwner[p] = "REMOTE" THEN {counter[p]} ELSE {}

(* TxControlCodec.ts:5, "arbitrate ONE transmitter at a time on a direct   *)
(* A-B link", and useBLEVoiceMode.ts:871, deterministic arbitration.       *)
OneOwner == ~ \A p \in Phone : txOwner[p] = "SELF"
=============================================================================
