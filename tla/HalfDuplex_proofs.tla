-------------------------- MODULE HalfDuplex_proofs --------------------------
(***************************************************************************)
(* The half-duplex lock, for any number of presses, transmissions and      *)
(* losses of the link.                                                     *)
(***************************************************************************)
EXTENDS HalfDuplex, SequenceTheorems, TLAPS

\* The type invariant in the groups of variables the actions write together.
TurnTyped ==
  /\ txOwner \in [Phone -> {"NO_OWNER", "SELF", "REMOTE"}]
  /\ txId \in [Phone -> Nat]
  /\ owningPeer \in [Phone -> BOOLEAN]
  /\ watchdog \in [Phone -> Nat]
  /\ timers \in [Phone -> SUBSET Nat]

CallTyped ==
  /\ counter \in [Phone -> Nat]
  /\ resolver \in [Phone -> Nat]
  /\ armed \in [Phone -> BOOLEAN]
  /\ checking \in [Phone -> Nat]
  /\ calls \in [Phone -> SUBSET [id: Nat, answer: {"none", "granted", "denied"}]]

\* A result is on its way only where one more transmission may start.
UserTyped ==
  /\ finger \in [Phone -> BOOLEAN]
  /\ presses \in [Phone -> Nat]
  /\ app \in [Phone -> {"IDLE", "LISTENING", "PROCESSING_STT"}]
  /\ recording \in [Phone -> BOOLEAN]
  /\ results \in [Phone -> BOOLEAN]
  /\ sending \in [Phone -> 0..MaxSending]
  /\ enabled \in [Phone -> BOOLEAN]
  /\ \A p \in Phone : results[p] => sending[p] < MaxSending

WireTyped ==
  /\ out \in [Phone -> Seq(Frame)]
  /\ onAir \in [Phone -> BOOLEAN]
  /\ chan \in [Phone -> Seq(Frame)]
  /\ linked \in BOOLEAN
  /\ lost \in [Phone -> BOOLEAN]
  /\ upsets \in 0..MaxUpsets

Typed == TurnTyped /\ CallTyped /\ UserTyped /\ WireTyped

Minted(s, n) == \A i \in DOMAIN s : s[i].op = "GRANT" => s[i].token <= n

Carries(s, f) == \E i \in DOMAIN s : s[i] = f

\* Every GRANT under way carries a token its sender has minted, or none.
TokensAreMinted ==
  \A p \in Phone : Minted(out[p], counter[p]) /\ Minted(chan[p], counter[Other(p)])

\* Who owns the link, or takes the peer for its owner, knows that peer.
OwnerHasPeer == \A p \in Phone : txOwner[p] # "NO_OWNER" => owningPeer[p]

\* Nothing is delivered over a link that is down.
DeadLinkIsSilent == ~linked => \A p \in Phone : chan[p] = <<>>

\* The ref holds the one watchdog that runs.  No token is minted while it
\* does, neither for a request nor for another grant, so it is the last.
WatchdogIsHeld ==
  \A p \in Phone :
    IF txOwner[p] = "REMOTE"
    THEN timers[p] = {counter[p]} /\ watchdog[p] = counter[p]
    ELSE timers[p] = {} /\ watchdog[p] = None

\* The two halves of PendingIsBounded.
PendingEnds == \A p \in Phone : resolver[p] # None => armed[p] \/ Writing(p, resolver[p])

PendingHasCall ==
  \A p \in Phone : resolver[p] # None => [id |-> resolver[p], answer |-> "none"] \in calls[p]

LockInv ==
  /\ Typed
  /\ TokensAreMinted /\ OwnerHasPeer /\ DeadLinkIsSilent /\ WatchdogIsHeld
  /\ OwnerHoldsToken /\ NoOwnerWithoutLink /\ PendingEnds /\ PendingHasCall

LEMMA OtherPhone ==
  ASSUME NEW p \in Phone
  PROVE  Other(p) \in Phone /\ Other(p) # p /\ Other(Other(p)) = p
<1>1. PICK a, b \in Phone : a # b /\ Phone = {a, b}
  BY PhoneAssumption DEF PhoneAssumption
<1>2. ASSUME NEW q \in Phone PROVE Other(q) \in Phone /\ Other(q) # q
  <2>1. \E r \in Phone : r # q
    BY <1>1
  <2> QED BY <2>1 DEF Other
<1> QED BY <1>1, <1>2

LEMMA FramesTyped ==
  ASSUME NEW r \in Nat, NEW t \in Nat
  PROVE  Request(r) \in Frame /\ Grant(t, r) \in Frame /\ Release(t) \in Frame /\ None \in Nat
BY DEF Request, Grant, Release, Frame, None

LEMMA TypedInit == Init => Typed
BY BoundsAssumption
   DEF BoundsAssumption, Init, Typed, TurnTyped, CallTyped, UserTyped, WireTyped, None, Frame

LEMMA HeadTyped ==
  ASSUME NEW s \in Seq(Frame), s # <<>>
  PROVE  /\ Head(s) \in Frame /\ Head(s).token \in Nat /\ Head(s).req \in Nat
         /\ Tail(s) \in Seq(Frame) /\ 1 \in DOMAIN s /\ Head(s) = s[1]
         /\ \A i \in DOMAIN Tail(s) : i + 1 \in DOMAIN s /\ Tail(s)[i] = s[i + 1]
<1>1. Len(s) \in Nat /\ Len(s) > 0 /\ DOMAIN s = 1..Len(s)
  BY EmptySeq
<1>2. Head(s) = s[1] /\ Head(s) \in Frame /\ Tail(s) \in Seq(Frame)
  BY <1>1
<1>3. Head(s).token \in Nat /\ Head(s).req \in Nat
  BY <1>2 DEF Frame
<1>4. \A i \in DOMAIN Tail(s) : i + 1 \in DOMAIN s /\ Tail(s)[i] = s[i + 1]
  BY <1>1
<1> QED BY <1>1, <1>2, <1>3, <1>4

LEMMA SetTxOwnerTyped ==
  ASSUME Typed, NEW p \in Phone, NEW owner \in {"NO_OWNER", "SELF", "REMOTE"}, SetTxOwner(p, owner)
  PROVE  /\ txOwner' \in [Phone -> {"NO_OWNER", "SELF", "REMOTE"}]
         /\ watchdog' \in [Phone -> Nat]
         /\ timers' \in [Phone -> SUBSET Nat]
<1>1. counter[p] + 1 \in Nat /\ None \in Nat
  BY DEF Typed, CallTyped, None
<1>2. (timers[p] \ {watchdog[p]}) \cup (IF owner = "REMOTE" THEN {counter[p] + 1} ELSE {}) \in SUBSET Nat
  BY <1>1 DEF Typed, TurnTyped
<1>3. txOwner' \in [Phone -> {"NO_OWNER", "SELF", "REMOTE"}] /\ watchdog' \in [Phone -> Nat]
  BY <1>1 DEF SetTxOwner, Typed, TurnTyped
<1>4. timers' \in [Phone -> SUBSET Nat]
  BY <1>2 DEF SetTxOwner, Typed, TurnTyped
<1> QED BY <1>3, <1>4

LEMMA RequestCounts ==
  ASSUME NEW p \in Phone, OnRequest(p)
  PROVE  counter' = counter \/ counter' = [counter EXCEPT ![p] = counter[p] + 1]
<1>1. CASE txOwner[p] = "NO_OWNER"
  BY <1>1 DEF OnRequest
<1>2. CASE txOwner[p] # "NO_OWNER"
  BY <1>2 DEF OnRequest
<1> QED BY <1>1, <1>2

LEMMA ReleaseTyped ==
  ASSUME Typed, NEW p \in Phone, ReleaseOwnership(p)
  PROVE  TurnTyped' /\ out' \in [Phone -> Seq(Frame)]
<1>1. Release(txId[p]) \in Frame
  BY FramesTyped DEF Typed, TurnTyped
<1>2. Append(out[p], Release(txId[p])) \in Seq(Frame)
  BY <1>1 DEF Typed, WireTyped
<1>3. out' \in [Phone -> Seq(Frame)]
  BY <1>2 DEF ReleaseOwnership, Typed, WireTyped
<1>4. TurnTyped'
  BY SetTxOwnerTyped DEF ReleaseOwnership, Typed, TurnTyped, None
<1> QED BY <1>3, <1>4

LEMMA SettlesTyped ==
  ASSUME Typed, NEW p \in Phone, NEW ok, Settles(p, ok)
  PROVE  WireTyped'
<1>1. Tail(out[p]) \in Seq(Frame)
  BY HeadTyped DEF Settles, Typed, WireTyped
<1>2. out' \in [Phone -> Seq(Frame)] /\ onAir' \in [Phone -> BOOLEAN]
  BY <1>1 DEF Settles, Typed, WireTyped
<1> QED BY <1>2 DEF Settles, Typed, WireTyped

LEMMA ReceivesTyped ==
  ASSUME Typed, NEW p \in Phone, NEW op, Receives(p, op)
  PROVE  /\ Head(chan[p]) \in Frame /\ Head(chan[p]).token \in Nat /\ Head(chan[p]).req \in Nat
         /\ chan' \in [Phone -> Seq(Frame)]
<1>1. /\ Head(chan[p]) \in Frame /\ Head(chan[p]).token \in Nat /\ Head(chan[p]).req \in Nat
      /\ Tail(chan[p]) \in Seq(Frame)
  BY HeadTyped DEF Receives, Typed, WireTyped
<1> QED BY <1>1 DEF Receives, Typed, WireTyped

LEMMA TurnStep ==
  ASSUME Typed, [Next]_vars
  PROVE  TurnTyped'
<1>1. ASSUME NEW p \in Phone, PressOut(p) PROVE TurnTyped'
  BY <1>1, ReleaseTyped DEF PressOut, Typed, TurnTyped, turnVars
<1>2. ASSUME NEW p \in Phone, VoiceSettled(p) PROVE TurnTyped'
  BY <1>2, ReleaseTyped DEF VoiceSettled
<1>3. ASSUME NEW p \in Phone, GrantFailed(p) PROVE TurnTyped'
  BY <1>3, SetTxOwnerTyped DEF Typed, TurnTyped, GrantFailed
<1>4. ASSUME NEW p \in Phone, OnRequest(p) PROVE TurnTyped'
  <2>1. CASE txOwner[p] = "NO_OWNER"
    <3>1. /\ txId' = [txId EXCEPT ![p] = 0]
          /\ owningPeer' = [owningPeer EXCEPT ![p] = TRUE]
          /\ SetTxOwner(p, "REMOTE")
      BY <1>4, <2>1 DEF OnRequest, None
    <3> QED BY <3>1, SetTxOwnerTyped DEF Typed, TurnTyped
  <2>2. CASE txOwner[p] # "NO_OWNER"
    BY <1>4, <2>2 DEF Typed, TurnTyped, OnRequest, turnVars
  <2> QED BY <2>1, <2>2
<1>5. ASSUME NEW p \in Phone, OnGrant(p) PROVE TurnTyped'
  <2>1. Head(chan[p]).token \in Nat
    BY <1>5, HeadTyped DEF Typed, WireTyped, OnGrant, Receives
  <2>2. CASE resolver[p] # None /\ Head(chan[p]).token # None
    <3>1. /\ txId' = [txId EXCEPT ![p] = Head(chan[p]).token]
          /\ owningPeer' = [owningPeer EXCEPT ![p] = TRUE]
          /\ SetTxOwner(p, "SELF")
      BY <1>5, <2>2 DEF OnGrant
    <3> QED BY <2>1, <3>1, SetTxOwnerTyped DEF Typed, TurnTyped
  <2>3. CASE ~(resolver[p] # None /\ Head(chan[p]).token # None)
    BY <1>5, <2>3 DEF Typed, TurnTyped, OnGrant, turnVars
  <2> QED BY <2>2, <2>3
<1>6. ASSUME NEW p \in Phone, OnRelease(p) PROVE TurnTyped'
  <2>1. CASE txOwner[p] = "REMOTE"
    BY <1>6, <2>1, SetTxOwnerTyped DEF Typed, TurnTyped, OnRelease
  <2>2. CASE txOwner[p] # "REMOTE"
    BY <1>6, <2>2 DEF Typed, TurnTyped, OnRelease
  <2> QED BY <2>1, <2>2
<1>7. ASSUME NEW p \in Phone, RemoteWatchdog(p) PROVE TurnTyped'
  <2>1. PICK timer \in timers[p] :
          /\ timers' = [timers EXCEPT ![p] = timers[p] \ {timer}]
          /\ watchdog' = [watchdog EXCEPT ![p] = None]
          /\ txOwner' = [txOwner EXCEPT ![p] = IF txOwner[p] = "REMOTE" THEN "NO_OWNER" ELSE txOwner[p]]
          /\ UNCHANGED <<txId, owningPeer>>
    BY <1>7 DEF RemoteWatchdog
  <2>2. timers[p] \ {timer} \in SUBSET Nat
    BY DEF Typed, TurnTyped
  <2>3. timers' \in [Phone -> SUBSET Nat]
    BY <2>1, <2>2 DEF Typed, TurnTyped
  <2>4. watchdog' \in [Phone -> Nat] /\ txOwner' \in [Phone -> {"NO_OWNER", "SELF", "REMOTE"}]
    BY <2>1 DEF Typed, TurnTyped, None
  <2> QED BY <2>1, <2>3, <2>4 DEF Typed, TurnTyped
<1>8. ASSUME NEW p \in Phone, OnDisconnected(p) PROVE TurnTyped'
  <2>1. CASE owningPeer[p]
    <3>1. /\ txId' = [txId EXCEPT ![p] = 0]
          /\ owningPeer' = [owningPeer EXCEPT ![p] = FALSE]
          /\ SetTxOwner(p, "NO_OWNER")
      BY <1>8, <2>1 DEF OnDisconnected, None
    <3> QED BY <3>1, SetTxOwnerTyped DEF Typed, TurnTyped
  <2>2. CASE ~owningPeer[p]
    BY <1>8, <2>2 DEF Typed, TurnTyped, OnDisconnected, turnVars
  <2> QED BY <2>1, <2>2
<1>9. CASE UNCHANGED turnVars
  BY <1>9 DEF Typed, TurnTyped, turnVars
<1> QED
  BY <1>1, <1>2, <1>3, <1>4, <1>5, <1>6, <1>7, <1>8, <1>9
  DEF Next, User, Check, WriteSettled, Receive, vars, turnVars, callVars, userVars, linkVars,
      Press, StartRecording, Speak, ToggleVoiceMode, AppReset, CheckRefuses, CheckOwns, CheckRequests, SttResult, FrameDelivered, RequestWritten, Settles, RequestFailed, OtherWritten, RequestTimeout, Drop, Reconnect

LEMMA CallStep ==
  ASSUME Typed, [Next]_vars
  PROVE  CallTyped'
<1>1. ASSUME NEW p \in Phone, Press(p) PROVE CallTyped'
  BY <1>1 DEF Typed, CallTyped, Press, StartRecording, callVars
<1>2. ASSUME NEW p \in Phone, CheckRefuses(p) PROVE CallTyped'
  BY <1>2 DEF Typed, CallTyped, CheckRefuses, callVars
<1>3. ASSUME NEW p \in Phone, CheckOwns(p) PROVE CallTyped'
  BY <1>3 DEF Typed, CallTyped, CheckOwns, StartRecording, callVars
<1>4. ASSUME NEW p \in Phone, CheckRequests(p) PROVE CallTyped'
  BY <1>4 DEF Typed, CallTyped, CheckRequests
<1>5. ASSUME NEW p \in Phone, RequestWritten(p) PROVE CallTyped'
  BY <1>5 DEF Typed, CallTyped, RequestWritten, Settles, StartRecording, callVars
<1>6. ASSUME NEW p \in Phone, RequestFailed(p) PROVE CallTyped'
  BY <1>6 DEF Typed, CallTyped, RequestFailed, Settles, None
<1>7. ASSUME NEW p \in Phone, OnRequest(p) PROVE CallTyped'
  <2>1. counter' = counter \/ counter' = [counter EXCEPT ![p] = counter[p] + 1]
    BY <1>7, RequestCounts
  <2>2. UNCHANGED <<resolver, armed, checking, calls>>
    BY <1>7 DEF OnRequest, Receives
  <2> QED BY <2>1, <2>2 DEF Typed, CallTyped
<1>8. ASSUME NEW p \in Phone, OnGrant(p) PROVE CallTyped'
  <2>1. resolver' \in [Phone -> Nat] /\ armed' \in [Phone -> BOOLEAN]
    BY <1>8 DEF Typed, CallTyped, OnGrant, None
  <2>2. calls' \in [Phone -> SUBSET [id: Nat, answer: {"none", "granted", "denied"}]]
    <3>1. \A a \in {"granted", "denied"} :
            [id |-> resolver[p], answer |-> a] \in [id: Nat, answer: {"none", "granted", "denied"}]
      BY DEF Typed, CallTyped
    <3>2. PICK a \in {"granted", "denied"} :
            calls' = [calls EXCEPT ![p] =
                        {c \in calls[p] : c.id # resolver[p]} \cup
                          IF Writing(p, resolver[p])
                          THEN {[id |-> resolver[p], answer |-> a]} ELSE {}]
      BY <1>8 DEF OnGrant
    <3> QED BY <3>1, <3>2 DEF Typed, CallTyped
  <2> QED BY <1>8, <2>1, <2>2 DEF Typed, CallTyped, OnGrant, Receives
<1>9. ASSUME NEW p \in Phone, RequestTimeout(p) PROVE CallTyped'
  BY <1>9 DEF Typed, CallTyped, RequestTimeout, None
<1>10. CASE UNCHANGED <<counter, resolver, armed, checking, calls>>
  BY <1>10 DEF Typed, CallTyped
<1> QED
  BY <1>1, <1>2, <1>3, <1>4, <1>5, <1>6, <1>7, <1>8, <1>9, <1>10
  DEF Next, User, Check, WriteSettled, Receive, vars, turnVars, callVars, userVars, linkVars,
      Speak, ToggleVoiceMode, AppReset, PressOut, ReleaseOwnership, SttResult, VoiceSettled, FrameDelivered, GrantFailed, Settles, OtherWritten, OnRelease, Receives, RemoteWatchdog, OnDisconnected, Drop, Reconnect

LEMMA UserStep ==
  ASSUME Typed, [Next]_vars
  PROVE  UserTyped'
<1>1. ASSUME NEW p \in Phone, Press(p) PROVE UserTyped'
  <2>1. finger' \in [Phone -> BOOLEAN] /\ presses' \in [Phone -> Nat]
    BY <1>1 DEF Typed, UserTyped, Press
  <2>2. /\ recording' \in [Phone -> BOOLEAN]
        /\ app' \in [Phone -> {"IDLE", "LISTENING", "PROCESSING_STT"}]
    BY <1>1 DEF Typed, UserTyped, Press, StartRecording
  <2> QED BY <1>1, <2>1, <2>2 DEF Typed, UserTyped, Press
<1>2. ASSUME NEW p \in Phone, Speak(p) PROVE UserTyped'
  BY <1>2, BoundsAssumption DEF BoundsAssumption, Typed, UserTyped, Speak, userVars
<1>3. ASSUME NEW p \in Phone, ToggleVoiceMode(p) PROVE UserTyped'
  BY <1>3, BoundsAssumption DEF BoundsAssumption, Typed, UserTyped, ToggleVoiceMode, userVars
<1>4. ASSUME NEW p \in Phone, AppReset(p) PROVE UserTyped'
  BY <1>4, BoundsAssumption DEF BoundsAssumption, Typed, UserTyped, AppReset, userVars
<1>5. ASSUME NEW p \in Phone, PressOut(p) PROVE UserTyped'
  BY <1>5, BoundsAssumption DEF BoundsAssumption, Typed, UserTyped, PressOut, ReleaseOwnership, userVars
<1>6. ASSUME NEW p \in Phone, CheckOwns(p) PROVE UserTyped'
  BY <1>6, BoundsAssumption DEF BoundsAssumption, Typed, UserTyped, CheckOwns, StartRecording, userVars
<1>7. ASSUME NEW p \in Phone, SttResult(p) PROVE UserTyped'
  BY <1>7, BoundsAssumption DEF BoundsAssumption, Typed, UserTyped, SttResult, userVars
<1>8. ASSUME NEW p \in Phone, VoiceSettled(p) PROVE UserTyped'
  BY <1>8, BoundsAssumption DEF BoundsAssumption, Typed, UserTyped, VoiceSettled, ReleaseOwnership, userVars
<1>9. ASSUME NEW p \in Phone, RequestWritten(p) PROVE UserTyped'
  BY <1>9, BoundsAssumption DEF BoundsAssumption, Typed, UserTyped, RequestWritten, Settles, StartRecording, userVars
<1>10. ASSUME NEW p \in Phone, OnGrant(p) PROVE UserTyped'
  BY <1>10, BoundsAssumption DEF BoundsAssumption, Typed, UserTyped, OnGrant, Receives, StartRecording, userVars
<1>11. ASSUME NEW p \in Phone, OnDisconnected(p) PROVE UserTyped'
  BY <1>11, BoundsAssumption DEF BoundsAssumption, Typed, UserTyped, OnDisconnected, userVars
<1>12. CASE UNCHANGED <<finger, presses, app, recording, results, sending, enabled>>
  BY <1>12 DEF Typed, UserTyped
<1> QED
  BY <1>1, <1>2, <1>3, <1>4, <1>5, <1>6, <1>7, <1>8, <1>9, <1>10, <1>11, <1>12
  DEF Next, User, Check, WriteSettled, Receive, vars, turnVars, callVars, userVars, linkVars,
      CheckRefuses, CheckRequests, FrameDelivered, RequestFailed, Settles, GrantFailed, OtherWritten, OnRequest, Receives, OnRelease, RequestTimeout, RemoteWatchdog, Drop, Reconnect

LEMMA WireStep ==
  ASSUME Typed, [Next]_vars
  PROVE  WireTyped'
<1>1. ASSUME NEW p \in Phone, PressOut(p) PROVE WireTyped'
  BY <1>1, ReleaseTyped DEF PressOut, Typed, WireTyped, linkVars
<1>2. ASSUME NEW p \in Phone, CheckRequests(p) PROVE WireTyped'
  <2>1. Request(counter[p] + 1) \in Frame
    BY FramesTyped DEF Typed, CallTyped
  <2>2. out' \in [Phone -> Seq(Frame)]
    BY <1>2, <2>1 DEF Typed, WireTyped, CheckRequests
  <2> QED BY <1>2, <2>2 DEF Typed, WireTyped, CheckRequests, linkVars
<1>3. ASSUME NEW p \in Phone, VoiceSettled(p) PROVE WireTyped'
  BY <1>3, ReleaseTyped DEF VoiceSettled, Typed, WireTyped, linkVars
<1>4. ASSUME NEW p \in Phone, FrameDelivered(p) PROVE WireTyped'
  <2>1. Other(p) \in Phone /\ Head(out[p]) \in Frame
    BY <1>4, OtherPhone, HeadTyped DEF Typed, WireTyped, FrameDelivered
  <2>2. Append(chan[Other(p)], Head(out[p])) \in Seq(Frame)
    BY <2>1 DEF Typed, WireTyped
  <2>3. chan' \in [Phone -> Seq(Frame)] /\ onAir' \in [Phone -> BOOLEAN]
    BY <1>4, <2>1, <2>2 DEF Typed, WireTyped, FrameDelivered
  <2> QED BY <1>4, <2>3 DEF Typed, WireTyped, FrameDelivered
<1>5. ASSUME NEW p \in Phone, RequestWritten(p) PROVE WireTyped'
  BY <1>5, SettlesTyped DEF RequestWritten
<1>6. ASSUME NEW p \in Phone, RequestFailed(p) PROVE WireTyped'
  BY <1>6, SettlesTyped DEF RequestFailed
<1>7. ASSUME NEW p \in Phone, GrantFailed(p) PROVE WireTyped'
  BY <1>7, SettlesTyped DEF GrantFailed
<1>8. ASSUME NEW p \in Phone, OtherWritten(p) PROVE WireTyped'
  BY <1>8, SettlesTyped DEF OtherWritten
<1>9. ASSUME NEW p \in Phone, OnRequest(p) PROVE WireTyped'
  <2>1. Head(chan[p]).req \in Nat /\ chan' \in [Phone -> Seq(Frame)]
    BY <1>9, ReceivesTyped DEF OnRequest
  <2>2. PICK t \in Nat : out' = [out EXCEPT ![p] = Append(out[p], Grant(t, Head(chan[p]).req))]
    <3>1. counter[p] + 1 \in Nat /\ None \in Nat
      BY FramesTyped DEF Typed, CallTyped
    <3>2. CASE txOwner[p] = "NO_OWNER"
      BY <1>9, <3>1, <3>2 DEF OnRequest
    <3>3. CASE txOwner[p] # "NO_OWNER"
      BY <1>9, <3>1, <3>3 DEF OnRequest
    <3> QED BY <3>2, <3>3
  <2>3. Grant(t, Head(chan[p]).req) \in Frame
    BY <2>1, FramesTyped
  <2>4. out' \in [Phone -> Seq(Frame)]
    BY <2>2, <2>3 DEF Typed, WireTyped
  <2> QED BY <1>9, <2>1, <2>4 DEF Typed, WireTyped, OnRequest, Receives
<1>10. ASSUME NEW p \in Phone, OnGrant(p) PROVE WireTyped'
  BY <1>10, ReceivesTyped DEF OnGrant, Receives, Typed, WireTyped
<1>11. ASSUME NEW p \in Phone, OnRelease(p) PROVE WireTyped'
  BY <1>11, ReceivesTyped DEF OnRelease, Receives, Typed, WireTyped
<1>12. ASSUME NEW p \in Phone, OnDisconnected(p) PROVE WireTyped'
  BY <1>12, BoundsAssumption DEF BoundsAssumption, Typed, WireTyped, OnDisconnected, linkVars
<1>13. ASSUME Drop PROVE WireTyped'
  <2>1. upsets' \in 0..MaxUpsets
    BY <1>13, BoundsAssumption DEF BoundsAssumption, Typed, WireTyped, Drop
  <2>2. <<>> \in Seq(Frame)
    OBVIOUS
  <2>3. chan' \in [Phone -> Seq(Frame)] /\ lost' \in [Phone -> BOOLEAN] /\ linked' \in BOOLEAN
    BY <1>13, <2>2 DEF Drop
  <2> QED BY <1>13, <2>1, <2>3 DEF Typed, WireTyped, Drop
<1>14. ASSUME Reconnect PROVE WireTyped'
  BY <1>14, BoundsAssumption DEF BoundsAssumption, Typed, WireTyped, Reconnect, linkVars
<1>15. CASE UNCHANGED <<out, onAir, chan, linked, lost, upsets>>
  BY <1>15 DEF Typed, WireTyped
<1>16. ASSUME NEW p \in Phone, ToggleVoiceMode(p) PROVE WireTyped'
  <2>1. upsets' \in 0..MaxUpsets
    BY <1>16, BoundsAssumption DEF BoundsAssumption, Typed, WireTyped, ToggleVoiceMode
  <2> QED BY <1>16, <2>1 DEF Typed, WireTyped, ToggleVoiceMode
<1> QED
  BY <1>1, <1>2, <1>3, <1>4, <1>5, <1>6, <1>7, <1>8, <1>9, <1>10, <1>11, <1>12, <1>13, <1>14, <1>15, <1>16
  DEF Next, User, Check, WriteSettled, Receive, vars, turnVars, callVars, userVars, linkVars,
      Press, StartRecording, Speak, AppReset, CheckRefuses, CheckOwns, SttResult, RequestTimeout, RemoteWatchdog

LEMMA TypedStep == Typed /\ [Next]_vars => Typed'
BY TurnStep, CallStep, UserStep, WireStep DEF Typed

-----------------------------------------------------------------------------
(* What the queues of frames keep when a frame enters or leaves.           *)

LEMMA AppendAt ==
  ASSUME NEW s \in Seq(Frame), NEW f \in Frame
  PROVE  /\ \A i \in DOMAIN s : i \in DOMAIN Append(s, f) /\ Append(s, f)[i] = s[i]
         /\ \A i \in DOMAIN Append(s, f) : i \in DOMAIN s \/ Append(s, f)[i] = f
         /\ \E i \in DOMAIN Append(s, f) : Append(s, f)[i] = f
<1>1. /\ DOMAIN s = 1..Len(s) /\ Len(s) \in Nat
      /\ DOMAIN Append(s, f) = 1..(Len(s) + 1)
      /\ \A i \in 1..Len(s) : Append(s, f)[i] = s[i]
      /\ Append(s, f)[Len(s) + 1] = f
  OBVIOUS
<1>2. Len(s) + 1 \in DOMAIN Append(s, f)
  BY <1>1
<1> QED BY <1>1, <1>2

LEMMA MintedMore ==
  ASSUME NEW s \in Seq(Frame), NEW n \in Nat, NEW m \in Nat, m >= n, Minted(s, n)
  PROVE  Minted(s, m)
<1>1. \A i \in DOMAIN s : s[i] \in Frame
  OBVIOUS
<1>2. \A f \in Frame : f.token \in Nat
  BY DEF Frame
<1> QED BY <1>1, <1>2 DEF Minted

LEMMA MintedAppend ==
  ASSUME NEW s \in Seq(Frame), NEW f \in Frame, NEW n \in Nat,
         Minted(s, n), f.op = "GRANT" => f.token <= n
  PROVE  Minted(Append(s, f), n)
BY AppendAt DEF Minted

LEMMA MintedTail ==
  ASSUME NEW s \in Seq(Frame), s # <<>>, NEW n \in Nat, Minted(s, n)
  PROVE  Minted(Tail(s), n) /\ (Head(s).op = "GRANT" => Head(s).token <= n)
BY HeadTyped DEF Minted

LEMMA CarriesAppend ==
  ASSUME NEW s \in Seq(Frame), NEW f \in Frame, NEW g \in Frame, Carries(s, f) \/ g = f
  PROVE  Carries(Append(s, g), f)
BY AppendAt DEF Carries

LEMMA CarriesTail ==
  ASSUME NEW s \in Seq(Frame), NEW f \in Frame, s # <<>>, Carries(s, f), Head(s) # f
  PROVE  Carries(Tail(s), f)
<1>1. PICK i \in DOMAIN s : s[i] = f
  BY DEF Carries
<1>2. DOMAIN s = 1..Len(s) /\ Len(s) \in Nat /\ Head(s) = s[1]
  BY HeadTyped
<1>3. i - 1 \in DOMAIN Tail(s) /\ Tail(s)[i - 1] = s[i]
  BY <1>1, <1>2
<1> QED BY <1>1, <1>3 DEF Carries

LEMMA ReleaseFrame ==
  ASSUME Typed, NEW p \in Phone, ReleaseOwnership(p)
  PROVE  \/ out' = out
         \/ \E f \in Frame : f.op = "RELEASE" /\ out' = [out EXCEPT ![p] = Append(out[p], f)]
<1>1. Release(txId[p]) \in Frame /\ Release(txId[p]).op = "RELEASE"
  BY FramesTyped DEF Typed, TurnTyped, Release
<1> QED BY <1>1 DEF ReleaseOwnership

LEMMA ReleaseMinted ==
  ASSUME LockInv, NEW p \in Phone, UNCHANGED <<counter, chan>>,
         ReleaseOwnership(p) \/ UNCHANGED out
  PROVE  TokensAreMinted'
<1>1. CASE UNCHANGED out
  BY <1>1 DEF LockInv, TokensAreMinted
<1>2. ASSUME NEW f \in Frame, f.op = "RELEASE", out' = [out EXCEPT ![p] = Append(out[p], f)]
      PROVE  TokensAreMinted'
  <2>1. Minted(Append(out[p], f), counter[p])
    BY <1>2, MintedAppend DEF LockInv, Typed, CallTyped, WireTyped, TokensAreMinted
  <2> QED BY <1>2, <2>1 DEF LockInv, Typed, WireTyped, TokensAreMinted
<1> QED BY <1>1, <1>2, ReleaseFrame DEF LockInv

LEMMA ReleasePending ==
  ASSUME LockInv, NEW p \in Phone, UNCHANGED <<resolver, armed>>,
         ReleaseOwnership(p) \/ UNCHANGED out
  PROVE  PendingEnds'
<1>1. CASE UNCHANGED out
  BY <1>1 DEF LockInv, PendingEnds, Writing
<1>2. ASSUME NEW f \in Frame, out' = [out EXCEPT ![p] = Append(out[p], f)]
      PROVE  PendingEnds'
  <2>1. \A q \in Phone, r \in Nat : Carries(out[q], Request(r)) => Carries(out'[q], Request(r))
    BY <1>2, CarriesAppend, FramesTyped DEF LockInv, Typed, WireTyped
  <2> QED BY <2>1 DEF LockInv, Typed, CallTyped, PendingEnds, Writing, Carries
<1> QED BY <1>1, <1>2, ReleaseFrame DEF LockInv

LEMMA SettlesMinted ==
  ASSUME LockInv, NEW p \in Phone, NEW ok, Settles(p, ok)
  PROVE  TokensAreMinted'
<1>1. Minted(Tail(out[p]), counter[p])
  BY MintedTail DEF Settles, LockInv, Typed, CallTyped, WireTyped, TokensAreMinted
<1> QED BY <1>1 DEF Settles, LockInv, Typed, WireTyped, TokensAreMinted

LEMMA SettlesCarries ==
  ASSUME Typed, NEW p \in Phone, NEW ok, Settles(p, ok),
         Carries(out[p], Request(resolver[p])), Head(out[p]) # Request(resolver[p])
  PROVE  Carries(out'[p], Request(resolver[p]))
<1>1. Request(resolver[p]) \in Frame /\ out[p] \in Seq(Frame)
  BY FramesTyped DEF Typed, CallTyped, WireTyped
<1>2. out'[p] = Tail(out[p]) /\ out[p] # <<>>
  BY DEF Settles, Typed, WireTyped
<1> QED BY <1>1, <1>2, CarriesTail

LEMMA SettlesPending ==
  ASSUME LockInv, NEW p \in Phone, NEW ok, Settles(p, ok), UNCHANGED <<resolver, armed>>,
         \A r : Head(out[p]) # Request(r)
  PROVE  PendingEnds'
<1>1. ASSUME NEW q \in Phone, Carries(out[q], Request(resolver[q]))
      PROVE  Carries(out'[q], Request(resolver[q]))
  <2>1. CASE q = p
    BY <1>1, <2>1, SettlesCarries DEF LockInv
  <2>2. CASE q # p
    BY <1>1, <2>2 DEF Settles, LockInv, Typed, WireTyped
  <2> QED BY <2>1, <2>2
<1> QED BY <1>1 DEF LockInv, PendingEnds, Writing, Carries

LEMMA ReceivesMinted ==
  ASSUME LockInv, NEW p \in Phone, NEW op, Receives(p, op), UNCHANGED <<counter, out>>
  PROVE  TokensAreMinted'
<1>1. Minted(Tail(chan[p]), counter[Other(p)])
  BY OtherPhone, MintedTail DEF Receives, LockInv, Typed, CallTyped, WireTyped, TokensAreMinted
<1> QED BY <1>1 DEF Receives, LockInv, Typed, WireTyped, TokensAreMinted

-----------------------------------------------------------------------------
(* The invariant, conjunct by conjunct, one step per action that writes    *)
(* what the conjunct reads.                                                *)

LEMMA PeerStep ==
  ASSUME LockInv, [Next]_vars
  PROVE  OwnerHasPeer'
<1> USE DEF LockInv
<1>1. ASSUME NEW p \in Phone, PressOut(p) PROVE OwnerHasPeer'
  BY <1>1 DEF Typed, TurnTyped, OwnerHasPeer, PressOut, ReleaseOwnership, turnVars, SetTxOwner
<1>2. ASSUME NEW p \in Phone, VoiceSettled(p) PROVE OwnerHasPeer'
  BY <1>2 DEF Typed, TurnTyped, OwnerHasPeer, VoiceSettled, ReleaseOwnership, turnVars, SetTxOwner
<1>3. ASSUME NEW p \in Phone, GrantFailed(p) PROVE OwnerHasPeer'
  BY <1>3 DEF Typed, TurnTyped, OwnerHasPeer, GrantFailed, Settles, turnVars, SetTxOwner
<1>4. ASSUME NEW p \in Phone, OnRequest(p) PROVE OwnerHasPeer'
  BY <1>4 DEF Typed, TurnTyped, OwnerHasPeer, OnRequest, Receives, turnVars, SetTxOwner
<1>5. ASSUME NEW p \in Phone, OnGrant(p) PROVE OwnerHasPeer'
  BY <1>5 DEF Typed, TurnTyped, OwnerHasPeer, OnGrant, Receives, StartRecording, turnVars, SetTxOwner
<1>6. ASSUME NEW p \in Phone, OnRelease(p) PROVE OwnerHasPeer'
  BY <1>6 DEF Typed, TurnTyped, OwnerHasPeer, OnRelease, Receives, turnVars, SetTxOwner
<1>7. ASSUME NEW p \in Phone, RemoteWatchdog(p) PROVE OwnerHasPeer'
  BY <1>7 DEF Typed, TurnTyped, OwnerHasPeer, RemoteWatchdog, turnVars
<1>8. ASSUME NEW p \in Phone, OnDisconnected(p) PROVE OwnerHasPeer'
  BY <1>8 DEF Typed, TurnTyped, OwnerHasPeer, OnDisconnected, turnVars, SetTxOwner
<1>9. CASE UNCHANGED <<txOwner, owningPeer>>
  BY <1>9 DEF OwnerHasPeer
<1> HIDE DEF LockInv
<1> QED
  BY <1>1, <1>2, <1>3, <1>4, <1>5, <1>6, <1>7, <1>8, <1>9
  DEF Next, User, Check, WriteSettled, Receive, vars, turnVars, callVars, userVars, linkVars,
      Press, StartRecording, Speak, ToggleVoiceMode, AppReset, CheckRefuses, CheckOwns, CheckRequests, SttResult, FrameDelivered, RequestWritten, Settles, RequestFailed, OtherWritten, RequestTimeout, Drop, Reconnect

LEMMA SilentStep ==
  ASSUME LockInv, [Next]_vars
  PROVE  DeadLinkIsSilent'
<1> USE DEF LockInv
<1>1. ASSUME NEW p \in Phone, FrameDelivered(p) PROVE DeadLinkIsSilent'
  BY <1>1 DEF Typed, WireTyped, DeadLinkIsSilent, FrameDelivered, linkVars
<1>2. ASSUME NEW p \in Phone, OnRequest(p) PROVE DeadLinkIsSilent'
  BY <1>2 DEF Typed, WireTyped, DeadLinkIsSilent, OnRequest, Receives, linkVars
<1>3. ASSUME NEW p \in Phone, OnGrant(p) PROVE DeadLinkIsSilent'
  BY <1>3 DEF Typed, WireTyped, DeadLinkIsSilent, OnGrant, Receives, StartRecording, linkVars
<1>4. ASSUME NEW p \in Phone, OnRelease(p) PROVE DeadLinkIsSilent'
  BY <1>4 DEF Typed, WireTyped, DeadLinkIsSilent, OnRelease, Receives, linkVars
<1>5. ASSUME Drop PROVE DeadLinkIsSilent'
  BY <1>5 DEF Typed, WireTyped, DeadLinkIsSilent, Drop, linkVars
<1>6. ASSUME Reconnect PROVE DeadLinkIsSilent'
  BY <1>6 DEF Typed, WireTyped, DeadLinkIsSilent, Reconnect, linkVars
<1>7. CASE UNCHANGED <<linked, chan>>
  BY <1>7 DEF DeadLinkIsSilent
<1>8. ASSUME NEW p \in Phone, PressOut(p) \/ VoiceSettled(p) \/ GrantFailed(p) \/ OnDisconnected(p)
      PROVE  UNCHANGED <<linked, chan>>
  BY <1>8 DEF PressOut, VoiceSettled, GrantFailed, Settles, OnDisconnected, linkVars
<1> HIDE DEF LockInv
<1> QED
  BY <1>1, <1>2, <1>3, <1>4, <1>5, <1>6, <1>7, <1>8
  DEF Next, User, Check, WriteSettled, Receive, vars, turnVars, callVars, userVars, linkVars,
      Press, StartRecording, Speak, ToggleVoiceMode, AppReset, CheckRefuses, CheckOwns, CheckRequests, SttResult, RequestWritten, Settles, RequestFailed, OtherWritten, RequestTimeout, RemoteWatchdog

LEMMA NoOwnerStep ==
  ASSUME LockInv, [Next]_vars
  PROVE  NoOwnerWithoutLink'
<1> USE DEF LockInv
<1>1. ASSUME NEW p \in Phone, PressOut(p) PROVE NoOwnerWithoutLink'
  BY <1>1 DEF Typed, TurnTyped, WireTyped, OwnerHasPeer, DeadLinkIsSilent, NoOwnerWithoutLink, PressOut, ReleaseOwnership, turnVars, linkVars, SetTxOwner
<1>2. ASSUME NEW p \in Phone, VoiceSettled(p) PROVE NoOwnerWithoutLink'
  BY <1>2 DEF Typed, TurnTyped, WireTyped, OwnerHasPeer, DeadLinkIsSilent, NoOwnerWithoutLink, VoiceSettled, ReleaseOwnership, turnVars, linkVars, SetTxOwner
<1>3. ASSUME NEW p \in Phone, GrantFailed(p) PROVE NoOwnerWithoutLink'
  BY <1>3 DEF Typed, TurnTyped, WireTyped, OwnerHasPeer, DeadLinkIsSilent, NoOwnerWithoutLink, GrantFailed, Settles, turnVars, linkVars, SetTxOwner
<1>4. ASSUME NEW p \in Phone, OnRequest(p) PROVE NoOwnerWithoutLink'
  BY <1>4 DEF Typed, TurnTyped, WireTyped, OwnerHasPeer, DeadLinkIsSilent, NoOwnerWithoutLink, OnRequest, Receives, turnVars, linkVars, SetTxOwner
<1>5. ASSUME NEW p \in Phone, OnGrant(p) PROVE NoOwnerWithoutLink'
  BY <1>5 DEF Typed, TurnTyped, WireTyped, OwnerHasPeer, DeadLinkIsSilent, NoOwnerWithoutLink, OnGrant, Receives, StartRecording, turnVars, linkVars, SetTxOwner
<1>6. ASSUME NEW p \in Phone, OnRelease(p) PROVE NoOwnerWithoutLink'
  BY <1>6 DEF Typed, TurnTyped, WireTyped, OwnerHasPeer, DeadLinkIsSilent, NoOwnerWithoutLink, OnRelease, Receives, turnVars, linkVars, SetTxOwner
<1>7. ASSUME NEW p \in Phone, RemoteWatchdog(p) PROVE NoOwnerWithoutLink'
  BY <1>7 DEF Typed, TurnTyped, WireTyped, OwnerHasPeer, DeadLinkIsSilent, NoOwnerWithoutLink, RemoteWatchdog, turnVars, linkVars
<1>8. ASSUME NEW p \in Phone, OnDisconnected(p) PROVE NoOwnerWithoutLink'
  BY <1>8 DEF Typed, TurnTyped, WireTyped, OwnerHasPeer, DeadLinkIsSilent, NoOwnerWithoutLink, OnDisconnected, turnVars, linkVars, SetTxOwner
<1>9. ASSUME Drop PROVE NoOwnerWithoutLink'
  BY <1>9 DEF Typed, TurnTyped, WireTyped, OwnerHasPeer, DeadLinkIsSilent, NoOwnerWithoutLink, Drop, turnVars, linkVars
<1>10. ASSUME Reconnect PROVE NoOwnerWithoutLink'
  BY <1>10 DEF Typed, TurnTyped, WireTyped, OwnerHasPeer, DeadLinkIsSilent, NoOwnerWithoutLink, Reconnect, turnVars, linkVars
<1>11. CASE UNCHANGED <<linked, lost, txOwner>>
  BY <1>11 DEF NoOwnerWithoutLink
<1>12. ASSUME NEW p \in Phone, User(p) \/ Check(p) \/ SttResult(p) \/ RequestTimeout(p)
       PROVE  UNCHANGED <<linked, lost, txOwner>>
  BY <1>12 DEF User, Check, turnVars, linkVars, Press, Speak, ToggleVoiceMode, AppReset,
               CheckRefuses, CheckOwns, CheckRequests, SttResult, RequestTimeout
<1>13. ASSUME NEW p \in Phone, FrameDelivered(p) \/ RequestWritten(p) \/ RequestFailed(p) \/ OtherWritten(p)
       PROVE  UNCHANGED <<linked, lost, txOwner>>
  BY <1>13 DEF turnVars, FrameDelivered, RequestWritten, RequestFailed, OtherWritten, Settles
<1> HIDE DEF LockInv
<1> QED
  BY <1>1, <1>2, <1>3, <1>4, <1>5, <1>6, <1>7, <1>8, <1>9, <1>10, <1>11, <1>12, <1>13
  DEF Next, WriteSettled, Receive, vars, turnVars, linkVars

LEMMA MintedStep ==
  ASSUME LockInv, [Next]_vars
  PROVE  TokensAreMinted'
<1> USE DEF LockInv
<1>1. ASSUME NEW p \in Phone, PressOut(p) PROVE TokensAreMinted'
  BY <1>1, ReleaseMinted DEF PressOut, linkVars
<1>2. ASSUME NEW p \in Phone, CheckRequests(p) PROVE TokensAreMinted'
  <2>1. Request(counter[p] + 1) \in Frame /\ Request(counter[p] + 1).op = "REQUEST"
    BY FramesTyped DEF Typed, CallTyped, Request
  <2>2. Minted(out[p], counter[p] + 1)
    BY MintedMore DEF Typed, CallTyped, WireTyped, TokensAreMinted
  <2>3. Minted(Append(out[p], Request(counter[p] + 1)), counter[p] + 1)
    BY <2>1, <2>2, MintedAppend DEF Typed, CallTyped, WireTyped
  <2>4. \A q \in Phone : Minted(out'[q], counter'[q])
    BY <1>2, <2>3 DEF CheckRequests, Typed, CallTyped, WireTyped, TokensAreMinted
  <2>5. \A q \in Phone : counter[q] \in Nat /\ counter'[q] \in Nat /\ counter'[q] >= counter[q]
    BY <1>2 DEF CheckRequests, Typed, CallTyped
  <2>6. \A q \in Phone : Minted(chan[q], counter'[Other(q)])
    BY <2>5, OtherPhone, MintedMore DEF Typed, WireTyped, TokensAreMinted
  <2> QED BY <1>2, <2>4, <2>6 DEF CheckRequests, linkVars, TokensAreMinted
<1>3. ASSUME NEW p \in Phone, VoiceSettled(p) PROVE TokensAreMinted'
  BY <1>3, ReleaseMinted DEF VoiceSettled, linkVars
<1>4. ASSUME NEW p \in Phone, FrameDelivered(p) PROVE TokensAreMinted'
  <2>1. /\ Other(p) \in Phone /\ Other(Other(p)) = p
        /\ Head(out[p]) \in Frame /\ (Head(out[p]).op = "GRANT" => Head(out[p]).token <= counter[p])
    BY <1>4, OtherPhone, HeadTyped, MintedTail DEF FrameDelivered, Typed, CallTyped, WireTyped, TokensAreMinted
  <2>2. Minted(Append(chan[Other(p)], Head(out[p])), counter[p])
    BY <2>1, MintedAppend DEF Typed, CallTyped, WireTyped, TokensAreMinted
  <2> QED BY <1>4, <2>1, <2>2 DEF FrameDelivered, Typed, WireTyped, TokensAreMinted
<1>5. ASSUME NEW p \in Phone, RequestWritten(p) PROVE TokensAreMinted'
  BY <1>5, SettlesMinted DEF RequestWritten
<1>6. ASSUME NEW p \in Phone, RequestFailed(p) PROVE TokensAreMinted'
  BY <1>6, SettlesMinted DEF RequestFailed
<1>7. ASSUME NEW p \in Phone, GrantFailed(p) PROVE TokensAreMinted'
  BY <1>7, SettlesMinted DEF GrantFailed
<1>8. ASSUME NEW p \in Phone, OtherWritten(p) PROVE TokensAreMinted'
  BY <1>8, SettlesMinted DEF OtherWritten
<1>9. ASSUME NEW p \in Phone, OnRequest(p) PROVE TokensAreMinted'
  <2>1. /\ counter[p] \in Nat /\ counter[p] + 1 \in Nat /\ None \in Nat /\ None <= counter[p]
        /\ Head(chan[p]).req \in Nat
    BY <1>9, ReceivesTyped DEF OnRequest, Typed, CallTyped, None
  <2>2. PICK t \in Nat :
          /\ t <= counter'[p]
          /\ out' = [out EXCEPT ![p] = Append(out[p], Grant(t, Head(chan[p]).req))]
    <3>1. CASE txOwner[p] = "NO_OWNER"
      <4>1. /\ counter' = [counter EXCEPT ![p] = counter[p] + 1]
            /\ out' = [out EXCEPT ![p] = Append(out[p], Grant(counter[p] + 1, Head(chan[p]).req))]
        BY <1>9, <3>1 DEF OnRequest
      <4>2. counter[p] + 1 <= counter'[p]
        BY <2>1, <4>1 DEF Typed, CallTyped
      <4> QED BY <2>1, <4>1, <4>2
    <3>2. CASE txOwner[p] # "NO_OWNER"
      BY <1>9, <2>1, <3>2 DEF OnRequest
    <3> QED BY <3>1, <3>2
  <2>3. \A q \in Phone : counter[q] \in Nat /\ counter'[q] \in Nat /\ counter'[q] >= counter[q]
    BY <1>9, RequestCounts DEF Typed, CallTyped
  <2>4. Grant(t, Head(chan[p]).req) \in Frame /\ Grant(t, Head(chan[p]).req).token = t
    BY <2>1, FramesTyped DEF Grant
  <2>5. \A q \in Phone : Minted(out[q], counter'[q]) /\ Minted(chan[q], counter'[Other(q)])
    BY <2>3, OtherPhone, MintedMore DEF Typed, WireTyped, TokensAreMinted
  <2>6. Minted(Append(out[p], Grant(t, Head(chan[p]).req)), counter'[p])
    BY <2>2, <2>3, <2>4, <2>5, MintedAppend DEF Typed, WireTyped
  <2>7. Minted(Tail(chan[p]), counter'[Other(p)])
    BY <1>9, <2>3, <2>5, OtherPhone, MintedTail DEF OnRequest, Receives, Typed, WireTyped
  <2>8. chan' = [chan EXCEPT ![p] = Tail(chan[p])]
    BY <1>9 DEF OnRequest, Receives
  <2> QED BY <2>2, <2>5, <2>6, <2>7, <2>8 DEF Typed, WireTyped, TokensAreMinted
<1>10. ASSUME NEW p \in Phone, OnGrant(p) PROVE TokensAreMinted'
  BY <1>10, ReceivesMinted DEF OnGrant
<1>11. ASSUME NEW p \in Phone, OnRelease(p) PROVE TokensAreMinted'
  BY <1>11, ReceivesMinted DEF OnRelease
<1>12. ASSUME Drop PROVE TokensAreMinted'
  <2>1. \A n : Minted(<<>>, n)
    BY DEF Minted
  <2> QED BY <1>12, <2>1 DEF Drop, TokensAreMinted, callVars
<1>13. CASE UNCHANGED <<out, chan, counter>>
  BY <1>13 DEF TokensAreMinted
<1> HIDE DEF LockInv
<1> QED
  BY <1>1, <1>2, <1>3, <1>4, <1>5, <1>6, <1>7, <1>8, <1>9, <1>10, <1>11, <1>12, <1>13
  DEF Next, User, Check, WriteSettled, Receive, vars, turnVars, callVars, userVars, linkVars,
      Press, StartRecording, Speak, ToggleVoiceMode, AppReset, CheckRefuses, CheckOwns, SttResult, RequestTimeout, RemoteWatchdog, OnDisconnected, Reconnect

LEMMA TokenStep ==
  ASSUME LockInv, [Next]_vars
  PROVE  OwnerHoldsToken'
<1> USE DEF LockInv
<1>1. ASSUME NEW p \in Phone, PressOut(p) PROVE OwnerHoldsToken'
  BY <1>1 DEF Typed, TurnTyped, CallTyped, OwnerHoldsToken, PressOut, ReleaseOwnership, turnVars, SetTxOwner
<1>2. ASSUME NEW p \in Phone, CheckRequests(p) PROVE OwnerHoldsToken'
  <2>1. \A q \in Phone : counter[q] \in Nat /\ counter'[q] \in Nat /\ counter'[q] >= counter[q]
    BY <1>2 DEF CheckRequests, Typed, CallTyped
  <2> QED BY <1>2, <2>1, OtherPhone DEF CheckRequests, turnVars, OwnerHoldsToken
<1>3. ASSUME NEW p \in Phone, VoiceSettled(p) PROVE OwnerHoldsToken'
  BY <1>3 DEF Typed, TurnTyped, CallTyped, OwnerHoldsToken, VoiceSettled, ReleaseOwnership, turnVars, SetTxOwner
<1>4. ASSUME NEW p \in Phone, GrantFailed(p) PROVE OwnerHoldsToken'
  BY <1>4 DEF Typed, TurnTyped, CallTyped, OwnerHoldsToken, GrantFailed, Settles, turnVars, SetTxOwner
<1>5. ASSUME NEW p \in Phone, OnRequest(p) PROVE OwnerHoldsToken'
  <2>1. \A q \in Phone : counter[q] \in Nat /\ counter'[q] \in Nat /\ counter'[q] >= counter[q]
    BY <1>5, RequestCounts DEF Typed, CallTyped
  <2>2. ASSUME NEW q \in Phone, txOwner'[q] = "SELF" PROVE txOwner[q] = "SELF" /\ txId'[q] = txId[q]
    <3>1. CASE txOwner[p] = "NO_OWNER"
      BY <1>5, <2>2, <3>1 DEF OnRequest, Typed, TurnTyped, SetTxOwner
    <3>2. CASE txOwner[p] # "NO_OWNER"
      BY <1>5, <2>2, <3>2 DEF OnRequest, turnVars, SetTxOwner
    <3> QED BY <3>1, <3>2
  <2> QED BY <2>1, <2>2, OtherPhone DEF OwnerHoldsToken
<1>6. ASSUME NEW p \in Phone, OnGrant(p) PROVE OwnerHoldsToken'
  <2>1. Head(chan[p]).token \in Nat /\ Head(chan[p]).op = "GRANT"
    BY <1>6, ReceivesTyped DEF OnGrant, Receives, SetTxOwner
  <2>2. Head(chan[p]).token <= counter[Other(p)] /\ counter[Other(p)] \in Nat
    BY <1>6, <2>1, OtherPhone, MintedTail DEF OnGrant, Receives, Typed, CallTyped, WireTyped, TokensAreMinted, SetTxOwner
  <2>3. ASSUME NEW q \in Phone, txOwner'[q] = "SELF" PROVE txId'[q] \in 1..counter[Other(q)]
    <3>1. CASE q = p /\ resolver[p] # None /\ Head(chan[p]).token # None
      BY <1>6, <2>1, <2>2, <3>1 DEF OnGrant, Typed, TurnTyped, None, SetTxOwner
    <3>2. CASE ~(q = p /\ resolver[p] # None /\ Head(chan[p]).token # None)
      BY <1>6, <2>3, <3>2 DEF OnGrant, Typed, TurnTyped, turnVars, OwnerHoldsToken, SetTxOwner
    <3> QED BY <3>1, <3>2
  <2> QED BY <1>6, <2>3 DEF OnGrant, OwnerHoldsToken, SetTxOwner
<1>7. ASSUME NEW p \in Phone, OnRelease(p) PROVE OwnerHoldsToken'
  BY <1>7 DEF Typed, TurnTyped, CallTyped, OwnerHoldsToken, OnRelease, Receives, turnVars, SetTxOwner
<1>8. ASSUME NEW p \in Phone, RemoteWatchdog(p) PROVE OwnerHoldsToken'
  BY <1>8 DEF Typed, TurnTyped, CallTyped, OwnerHoldsToken, RemoteWatchdog, turnVars
<1>9. ASSUME NEW p \in Phone, OnDisconnected(p) PROVE OwnerHoldsToken'
  BY <1>9 DEF Typed, TurnTyped, CallTyped, OwnerHoldsToken, OnDisconnected, turnVars, SetTxOwner
<1>10. CASE UNCHANGED <<txOwner, txId, counter>>
  BY <1>10 DEF OwnerHoldsToken
<1> HIDE DEF LockInv
<1> QED
  BY <1>1, <1>2, <1>3, <1>4, <1>5, <1>6, <1>7, <1>8, <1>9, <1>10
  DEF Next, User, Check, WriteSettled, Receive, vars, turnVars, callVars, userVars, linkVars,
      Press, StartRecording, Speak, ToggleVoiceMode, AppReset, CheckRefuses, CheckOwns, SttResult, FrameDelivered, RequestWritten, Settles, RequestFailed, OtherWritten, RequestTimeout, Drop, Reconnect

LEMMA PendingStep ==
  ASSUME LockInv, [Next]_vars
  PROVE  PendingEnds'
<1> USE DEF LockInv
<1>1. ASSUME NEW p \in Phone, PressOut(p) PROVE PendingEnds'
  BY <1>1, ReleasePending DEF PressOut, callVars
<1>2. ASSUME NEW p \in Phone, CheckRequests(p) PROVE PendingEnds'
  <2>1. Request(counter[p] + 1) \in Frame
    BY FramesTyped DEF Typed, CallTyped
  <2>2. Carries(Append(out[p], Request(counter[p] + 1)), Request(counter[p] + 1))
    BY <2>1, CarriesAppend DEF Typed, WireTyped
  <2> QED BY <1>2, <2>2 DEF CheckRequests, Typed, CallTyped, WireTyped, PendingEnds, Writing, Carries
<1>3. ASSUME NEW p \in Phone, VoiceSettled(p) PROVE PendingEnds'
  BY <1>3, ReleasePending DEF VoiceSettled, callVars
<1>4. ASSUME NEW p \in Phone, RequestWritten(p) PROVE PendingEnds'
  <2>1. ASSUME NEW q \in Phone, resolver[q] # None, ~armed'[q]
        PROVE  Carries(out'[q], Request(resolver[q]))
    <3>1. armed' = [armed EXCEPT ![p] = resolver[p] = Head(out[p]).req \/ armed[p]]
      BY <1>4 DEF RequestWritten
    <3>2. ~armed[q] /\ Carries(out[q], Request(resolver[q]))
      BY <2>1, <3>1 DEF Typed, CallTyped, PendingEnds, Writing, Carries
    <3>3. CASE q = p
      <4>1. Head(out[p]) # Request(resolver[p])
        <5>1. Request(resolver[p]).req = resolver[p]
          BY DEF Request
        <5>2. armed'[p] = (resolver[p] = Head(out[p]).req \/ armed[p])
          BY <3>1 DEF Typed, CallTyped
        <5> QED BY <2>1, <3>3, <5>1, <5>2
      <4> QED BY <1>4, <3>2, <3>3, <4>1, SettlesCarries DEF RequestWritten
    <3>4. CASE q # p
      BY <1>4, <3>2, <3>4 DEF RequestWritten, Settles, Typed, WireTyped
    <3> QED BY <3>3, <3>4
  <2> QED BY <1>4, <2>1 DEF RequestWritten, PendingEnds, Writing, Carries
<1>5. ASSUME NEW p \in Phone, RequestFailed(p) PROVE PendingEnds'
  <2>1. resolver' = [resolver EXCEPT ![p] = None] /\ armed' = [armed EXCEPT ![p] = FALSE]
    BY <1>5 DEF RequestFailed
  <2>2. \A q \in Phone : q # p => out'[q] = out[q]
    BY <1>5 DEF RequestFailed, Settles, Typed, WireTyped
  <2> QED BY <2>1, <2>2 DEF Typed, CallTyped, PendingEnds, Writing
<1>6. ASSUME NEW p \in Phone, GrantFailed(p) PROVE PendingEnds'
  <2>1. \A r : Head(out[p]) # Request(r)
    BY <1>6 DEF GrantFailed, Request
  <2> QED BY <1>6, <2>1, SettlesPending DEF GrantFailed
<1>7. ASSUME NEW p \in Phone, OtherWritten(p) PROVE PendingEnds'
  <2>1. \A r : Head(out[p]) # Request(r)
    <3>1. \A r, t : Request(r).op = "REQUEST" /\ Grant(t, r).op = "GRANT"
      BY DEF Request, Grant
    <3> QED BY <1>7, <3>1 DEF OtherWritten
  <2> QED BY <1>7, <2>1, SettlesPending DEF OtherWritten
<1>8. ASSUME NEW p \in Phone, OnRequest(p) PROVE PendingEnds'
  <2>1. PICK f \in Frame : out' = [out EXCEPT ![p] = Append(out[p], f)]
    <3>1. counter[p] + 1 \in Nat /\ None \in Nat /\ Head(chan[p]).req \in Nat
      BY <1>8, ReceivesTyped DEF OnRequest, Typed, CallTyped, None
    <3>2. Grant(counter[p] + 1, Head(chan[p]).req) \in Frame /\ Grant(None, Head(chan[p]).req) \in Frame
      BY <3>1, FramesTyped
    <3>3. CASE txOwner[p] = "NO_OWNER"
      BY <1>8, <3>2, <3>3 DEF OnRequest
    <3>4. CASE txOwner[p] # "NO_OWNER"
      BY <1>8, <3>2, <3>4 DEF OnRequest
    <3> QED BY <3>3, <3>4
  <2>2. \A q \in Phone, r \in Nat : Carries(out[q], Request(r)) => Carries(out'[q], Request(r))
    BY <2>1, CarriesAppend, FramesTyped DEF Typed, WireTyped
  <2>3. UNCHANGED <<resolver, armed>>
    BY <1>8 DEF OnRequest
  <2> QED BY <2>2, <2>3 DEF Typed, CallTyped, PendingEnds, Writing, Carries
<1>9. ASSUME NEW p \in Phone, OnGrant(p) PROVE PendingEnds'
  BY <1>9 DEF OnGrant, Typed, CallTyped, PendingEnds, Writing
<1>10. ASSUME NEW p \in Phone, RequestTimeout(p) PROVE PendingEnds'
  BY <1>10 DEF Typed, CallTyped, WireTyped, PendingEnds, Writing, RequestTimeout, callVars
<1>11. CASE UNCHANGED <<resolver, armed, out>>
  BY <1>11 DEF PendingEnds, Writing
<1> HIDE DEF LockInv
<1> QED
  BY <1>1, <1>2, <1>3, <1>4, <1>5, <1>6, <1>7, <1>8, <1>9, <1>10, <1>11
  DEF Next, User, Check, WriteSettled, Receive, vars, turnVars, callVars, userVars, linkVars,
      Press, StartRecording, Speak, ToggleVoiceMode, AppReset, CheckRefuses, CheckOwns, SttResult, FrameDelivered, OnRelease, Receives, RemoteWatchdog, OnDisconnected, Drop, Reconnect

LEMMA SetTxOwnerWatchdog ==
  ASSUME Typed, WatchdogIsHeld, NEW p \in Phone, NEW owner, SetTxOwner(p, owner),
         \A q \in Phone : counter'[q] = IF q = p /\ owner = "REMOTE" THEN counter[q] + 1 ELSE counter[q]
  PROVE  WatchdogIsHeld'
<1>1. timers[p] \ {watchdog[p]} = {}
  BY DEF WatchdogIsHeld
<1>2. /\ txOwner'[p] = owner
      /\ watchdog'[p] = IF owner = "REMOTE" THEN counter[p] + 1 ELSE None
      /\ timers'[p] = IF owner = "REMOTE" THEN {counter[p] + 1} ELSE {}
  BY <1>1 DEF SetTxOwner, Typed, TurnTyped
<1>3. ASSUME NEW q \in Phone, q # p
      PROVE  /\ txOwner'[q] = txOwner[q] /\ watchdog'[q] = watchdog[q]
             /\ timers'[q] = timers[q] /\ counter'[q] = counter[q]
  BY <1>3 DEF SetTxOwner, Typed, TurnTyped
<1> QED BY <1>2, <1>3 DEF WatchdogIsHeld

LEMMA WatchdogStep ==
  ASSUME LockInv, [Next]_vars
  PROVE  WatchdogIsHeld'
<1> USE DEF LockInv
<1>1. ASSUME NEW p \in Phone, PressOut(p) PROVE WatchdogIsHeld'
  <2>1. CASE SetTxOwner(p, "NO_OWNER")
    BY <1>1, <2>1, SetTxOwnerWatchdog DEF PressOut
  <2>2. CASE UNCHANGED turnVars
    BY <1>1, <2>2 DEF PressOut, turnVars, WatchdogIsHeld
  <2> QED BY <1>1, <2>1, <2>2 DEF PressOut, ReleaseOwnership
<1>2. ASSUME NEW p \in Phone, VoiceSettled(p) PROVE WatchdogIsHeld'
  BY <1>2, SetTxOwnerWatchdog DEF VoiceSettled, ReleaseOwnership
<1>3. ASSUME NEW p \in Phone, GrantFailed(p) PROVE WatchdogIsHeld'
  BY <1>3, SetTxOwnerWatchdog DEF GrantFailed, Settles
<1>4. ASSUME NEW p \in Phone, OnRequest(p) PROVE WatchdogIsHeld'
  <2>1. CASE txOwner[p] = "NO_OWNER"
    <3>1. SetTxOwner(p, "REMOTE") /\ counter' = [counter EXCEPT ![p] = counter[p] + 1]
      BY <1>4, <2>1 DEF OnRequest
    <3> QED BY <3>1, SetTxOwnerWatchdog DEF Typed, CallTyped
  <2>2. CASE txOwner[p] # "NO_OWNER"
    BY <1>4, <2>2 DEF OnRequest, turnVars, WatchdogIsHeld
  <2> QED BY <2>1, <2>2
<1>5. ASSUME NEW p \in Phone, OnGrant(p) PROVE WatchdogIsHeld'
  <2>1. CASE SetTxOwner(p, "SELF")
    BY <1>5, <2>1, SetTxOwnerWatchdog DEF OnGrant
  <2>2. CASE UNCHANGED turnVars
    BY <1>5, <2>2 DEF OnGrant, turnVars, WatchdogIsHeld
  <2> QED BY <1>5, <2>1, <2>2 DEF OnGrant
<1>6. ASSUME NEW p \in Phone, OnRelease(p) PROVE WatchdogIsHeld'
  <2>1. CASE SetTxOwner(p, "NO_OWNER")
    BY <1>6, <2>1, SetTxOwnerWatchdog DEF OnRelease
  <2>2. CASE UNCHANGED <<txOwner, watchdog, timers>>
    BY <1>6, <2>2 DEF OnRelease, WatchdogIsHeld
  <2> QED BY <1>6, <2>1, <2>2 DEF OnRelease
<1>7. ASSUME NEW p \in Phone, RemoteWatchdog(p) PROVE WatchdogIsHeld'
  <2>1. PICK timer \in timers[p] :
          /\ timers' = [timers EXCEPT ![p] = timers[p] \ {timer}]
          /\ watchdog' = [watchdog EXCEPT ![p] = None]
          /\ txOwner' = [txOwner EXCEPT ![p] = IF txOwner[p] = "REMOTE" THEN "NO_OWNER" ELSE txOwner[p]]
          /\ UNCHANGED counter
    BY <1>7 DEF RemoteWatchdog
  <2>2. txOwner[p] = "REMOTE" /\ timers[p] = {timer}
    BY <2>1 DEF WatchdogIsHeld
  <2>3. txOwner'[p] = "NO_OWNER" /\ watchdog'[p] = None /\ timers'[p] = {}
    BY <2>1, <2>2 DEF Typed, TurnTyped
  <2> QED BY <2>1, <2>3 DEF Typed, TurnTyped, WatchdogIsHeld
<1>8. ASSUME NEW p \in Phone, OnDisconnected(p) PROVE WatchdogIsHeld'
  <2>1. CASE SetTxOwner(p, "NO_OWNER")
    BY <1>8, <2>1, SetTxOwnerWatchdog DEF OnDisconnected
  <2>2. CASE UNCHANGED turnVars
    BY <1>8, <2>2 DEF OnDisconnected, turnVars, WatchdogIsHeld
  <2> QED BY <1>8, <2>1, <2>2 DEF OnDisconnected
<1>9. ASSUME NEW p \in Phone, CheckRequests(p) PROVE WatchdogIsHeld'
  <2>1. \A q \in Phone : counter'[q] = counter[q] \/ txOwner[q] = "NO_OWNER"
    BY <1>9 DEF CheckRequests, Typed, CallTyped
  <2> QED BY <1>9, <2>1 DEF CheckRequests, turnVars, WatchdogIsHeld
<1>10. CASE UNCHANGED <<txOwner, watchdog, timers, counter>>
  BY <1>10 DEF WatchdogIsHeld
<1> HIDE DEF LockInv
<1> QED
  BY <1>1, <1>2, <1>3, <1>4, <1>5, <1>6, <1>7, <1>8, <1>9, <1>10
  DEF Next, User, Check, WriteSettled, Receive, vars, turnVars, callVars, userVars, linkVars,
      Press, StartRecording, Speak, ToggleVoiceMode, AppReset, CheckRefuses, CheckOwns, SttResult, FrameDelivered, RequestWritten, Settles, RequestFailed, OtherWritten, RequestTimeout, Drop, Reconnect

LEMMA CallWaitsStep ==
  ASSUME LockInv, [Next]_vars
  PROVE  PendingHasCall'
<1> USE DEF LockInv
<1>1. ASSUME NEW p \in Phone, CheckRequests(p) PROVE PendingHasCall'
  BY <1>1 DEF CheckRequests, Typed, CallTyped, PendingHasCall
<1>2. ASSUME NEW p \in Phone, RequestWritten(p) PROVE PendingHasCall'
  <2>1. /\ UNCHANGED resolver
        /\ calls' = [calls EXCEPT ![p] = {c \in calls[p] : c.id = Head(out[p]).req => c.answer = "none"}]
    BY <1>2 DEF RequestWritten
  <2> QED BY <2>1 DEF Typed, CallTyped, PendingHasCall
<1>3. ASSUME NEW p \in Phone, RequestFailed(p) PROVE PendingHasCall'
  <2>1. /\ resolver' = [resolver EXCEPT ![p] = None]
        /\ \A q \in Phone : q # p => calls'[q] = calls[q]
    BY <1>3 DEF RequestFailed, Typed, CallTyped
  <2> QED BY <2>1 DEF Typed, CallTyped, PendingHasCall
<1>4. ASSUME NEW p \in Phone, OnGrant(p) PROVE PendingHasCall'
  <2>1. /\ resolver' = [resolver EXCEPT ![p] = None]
        /\ \A q \in Phone : q # p => calls'[q] = calls[q]
    BY <1>4 DEF OnGrant, Typed, CallTyped
  <2> QED BY <2>1 DEF Typed, CallTyped, PendingHasCall
<1>5. ASSUME NEW p \in Phone, RequestTimeout(p) PROVE PendingHasCall'
  <2>1. /\ resolver' = [resolver EXCEPT ![p] = None]
        /\ \A q \in Phone : q # p => calls'[q] = calls[q]
    BY <1>5 DEF RequestTimeout, Typed, CallTyped
  <2> QED BY <2>1 DEF Typed, CallTyped, PendingHasCall
<1>6. CASE UNCHANGED <<resolver, calls>>
  BY <1>6 DEF PendingHasCall
<1> HIDE DEF LockInv
<1> QED
  BY <1>1, <1>2, <1>3, <1>4, <1>5, <1>6
  DEF Next, User, Check, WriteSettled, Receive, vars, turnVars, callVars, userVars, linkVars,
      Press, StartRecording, Speak, ToggleVoiceMode, AppReset, PressOut, ReleaseOwnership, CheckRefuses, CheckOwns, SttResult, VoiceSettled, FrameDelivered, Settles, GrantFailed, OtherWritten, OnRequest, OnRelease, Receives, RemoteWatchdog, OnDisconnected, Drop, Reconnect

-----------------------------------------------------------------------------
(* The theorems.                                                           *)

LEMMA LockInit == Init => LockInv
<1> SUFFICES ASSUME Init PROVE LockInv
  OBVIOUS
<1>1. TokensAreMinted
  <2>1. \A n : Minted(<<>>, n)
    BY DEF Minted
  <2> QED BY <2>1 DEF Init, TokensAreMinted
<1> QED BY <1>1, TypedInit
  DEF Init, LockInv, OwnerHasPeer, DeadLinkIsSilent, WatchdogIsHeld, OwnerHoldsToken, NoOwnerWithoutLink, PendingEnds, PendingHasCall

LEMMA LockAlways == Spec => []LockInv
<1>1. LockInv /\ [Next]_vars => LockInv'
  BY TypedStep, PeerStep, SilentStep, NoOwnerStep, MintedStep, TokenStep, WatchdogStep, PendingStep, CallWaitsStep DEF LockInv
<1> QED BY <1>1, LockInit, PTL DEF Spec

(* The variables keep their types: every ref, timer and queue of the two   *)
(* phones, whatever the order of presses, writes, answers and losses.      *)
THEOREM TypeAlwaysOK == Spec => []HalfDuplexTypeOK
<1>1. LockInv => HalfDuplexTypeOK
  BY DEF LockInv, Typed, TurnTyped, CallTyped, UserTyped, WireTyped, HalfDuplexTypeOK
<1> QED BY <1>1, LockAlways, PTL

(* The owner of the link holds a token the other phone has minted.         *)
THEOREM OwnerAlwaysHoldsToken == Spec => []OwnerHoldsToken
<1>1. LockInv => OwnerHoldsToken
  BY DEF LockInv
<1> QED BY <1>1, LockAlways, PTL

(* A link that is down, its loss handled, has no owner on either phone.    *)
THEOREM NeverOwnerWithoutLink == Spec => []NoOwnerWithoutLink
<1>1. LockInv => NoOwnerWithoutLink
  BY DEF LockInv
<1> QED BY <1>1, LockAlways, PTL

(* A pending request is waited for by the call that made it, and ends with *)
(* its write, which is outstanding, or with its timer, which runs.         *)
THEOREM PendingAlwaysBounded == Spec => []PendingIsBounded
<1>1. LockInv => PendingIsBounded
  BY DEF LockInv, PendingEnds, PendingHasCall, PendingIsBounded
<1> QED BY <1>1, LockAlways, PTL

(* One watchdog runs while the remote owns the link, that of its turn, and *)
(* none while it does not.                                                 *)
THEOREM WatchdogAlwaysOfThisTurn == Spec => []WatchdogIsOfThisTurn
<1>1. LockInv => WatchdogIsOfThisTurn
  BY DEF LockInv, WatchdogIsHeld, WatchdogIsOfThisTurn
<1> QED BY <1>1, LockAlways, PTL

==============================================================================
