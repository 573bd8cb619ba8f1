-------------------------- MODULE ZoomClientProofs --------------------------
(***************************************************************************)
(* Theorems about ZoomRtms and ZoomClient, for every value of their        *)
(* constants: the connection discipline of a session, and that the         *)
(* polling client gets a feed without repetition or silent loss.           *)
(***************************************************************************)
EXTENDS ZoomClient, SequenceTheorems, TLAPS

-----------------------------------------------------------------------------
(* Every helper maps sessions to sessions. *)

LEMMA StateEventType ==
  ASSUME NEW st \in States PROVE StateEvent(st) \in EventValue
  BY DEF StateEvent, EventValue

LEMMA EmptySeqs == <<>> \in Seq(Speakers) /\ <<>> \in Seq(Packets) /\ <<>> \in Seq(Event)
  OBVIOUS

LEMMA StateNames ==
  /\ "waiting" \in States /\ "awaiting-confirmation" \in States /\ "connecting" \in States
  /\ "active" \in States /\ "paused" \in States /\ "degraded" \in States /\ "stopped" \in States
  BY DEF States

LEMMA NewSessionType == NewSession \in Session
  BY EmptySeqs, StateNames DEF NewSession, Session

LEMMA ReleaseType ==
  ASSUME NEW s \in Session PROVE Release(s) \in Session
<1> DEFINE closed == {ClosedIfHeld(s, k) : k \in s.sockets}
<1>1. closed \in SUBSET Socket
  <2> SUFFICES ASSUME NEW k \in Socket PROVE ClosedIfHeld(s, k) \in Socket
    BY DEF Session
  <2> QED BY DEF Socket, ClosedIfHeld
<1>2. Release(s) = [s EXCEPT !.sockets = closed, !.mediaSocket = 0, !.signalingSocket = 0,
                             !.aliases = <<>>, !.seenPackets = <<>>]
  BY DEF Release
<1>3. [s EXCEPT !.sockets = closed, !.mediaSocket = 0, !.signalingSocket = 0,
                !.aliases = <<>>, !.seenPackets = <<>>] \in Session
  <2> HIDE DEF closed
  <2> QED BY <1>1, EmptySeqs DEF Session
<1>4. QED BY <1>2, <1>3

LEMMA Append1Type ==
  ASSUME NEW s \in Session, NEW v \in EventValue PROVE Append1(s, v) \in Session
<1>1. s.cursor + 1 \in Nat /\ s.events \in Seq(Event)
  BY DEF Session
<1>2. [cursor |-> s.cursor + 1, value |-> v] \in Event
  BY <1>1 DEF Event
<1>3. Append(s.events, [cursor |-> s.cursor + 1, value |-> v]) \in Seq(Event)
  BY <1>1, <1>2
<1>4. QED
  BY <1>1, <1>3 DEF Append1, Session

LEMMA OverflowType ==
  ASSUME NEW s \in Session PROVE Overflow(s) \in Session
<1> DEFINE r == Release(s)
           o == [r EXCEPT !.events = <<>>, !.state = "degraded", !.generation = @ + 1]
<1>1. r \in Session
  BY ReleaseType
<1>2. o \in Session
  <2> HIDE DEF r
  <2>1. r.generation + 1 \in Nat
    BY <1>1 DEF Session
  <2>2. QED BY <1>1, <2>1, EmptySeqs, StateNames DEF Session
<1>3. QED
  BY <1>2, Append1Type, StateEventType, StateNames DEF Overflow

LEMMA PushType ==
  ASSUME NEW s \in Session, NEW v \in EventValue PROVE Push(s, v) \in Session
  BY Append1Type, OverflowType DEF Push

LEMMA PushStateType ==
  ASSUME NEW s \in Session, NEW st \in States PROVE PushState(s, st) \in Session
<1>1. [s EXCEPT !.state = st] \in Session
  BY DEF Session
<1>2. QED
  BY <1>1, PushType, StateEventType DEF PushState

LEMMA ClearTimersType ==
  ASSUME NEW s \in Session PROVE ClearTimers(s) \in Session
<1>1. s.timers \ {s.confirmationTimer} \in SUBSET Nat /\ 0 \in Nat /\ None \in Streams \cup {None}
  BY DEF Session
<1>2. QED
  BY <1>1 DEF ClearTimers, Session

LEMMA StopSessionType ==
  ASSUME NEW s \in Session, NEW emitState \in BOOLEAN PROVE StopSession(s, emitState) \in Session
<1> DEFINE c == Release(ClearTimers(s))
           r == [c EXCEPT !.state = "stopped", !.generation = @ + 1]
           t == IF emitState THEN PushState(r, "stopped") ELSE [r EXCEPT !.events = <<>>]
<1>1. c \in Session
  BY ClearTimersType, ReleaseType
<1>2. r \in Session
  <2> HIDE DEF c
  <2>1. c.generation + 1 \in Nat
    BY <1>1 DEF Session
  <2>2. QED BY <1>1, <2>1, StateNames DEF Session
<1>3. t \in Session
  <2> HIDE DEF r
  <2>1. [r EXCEPT !.events = <<>>] \in Session
    BY <1>2, EmptySeqs DEF Session
  <2>2. QED BY <1>2, <2>1, PushStateType, StateNames
<1>4. [t EXCEPT !.stopped = TRUE] \in Session
  <2> HIDE DEF t
  <2> QED BY <1>3 DEF Session
<1>5. StopSession(s, emitState) \in {s, [t EXCEPT !.stopped = TRUE]}
  BY DEF StopSession
<1>6. QED BY <1>4, <1>5

LEMMA DegradeType ==
  ASSUME NEW s \in Session PROVE Degrade(s) \in Session
<1> DEFINE p == PushState(Release(ClearTimers(s)), "degraded")
<1>1. p \in Session
  BY ClearTimersType, ReleaseType, PushStateType, StateNames
<1>2. [p EXCEPT !.generation = @ + 1] \in Session
  <2> HIDE DEF p
  <2>1. p.generation + 1 \in Nat
    BY <1>1 DEF Session
  <2>2. QED BY <1>1, <2>1 DEF Session
<1>3. Degrade(s) = IF s.stopped THEN s ELSE [p EXCEPT !.generation = @ + 1]
  BY DEF Degrade
<1>4. QED BY <1>2, <1>3

LEMMA ConnectType ==
  ASSUME NEW s \in Session, NEW stream \in Streams PROVE Connect(s, stream) \in Session
<1> DEFINE gen == s.generation + 1
           g == [s EXCEPT !.generation = gen]
           p == PushState(g, "connecting")
           attempts == p.signing \cup {[gen |-> gen, stream |-> stream]}
<1>1. gen \in Nat /\ g \in Session
  <2>1. gen \in Nat
    BY DEF Session
  <2>2. [s EXCEPT !.generation = gen] \in Session
    <3> HIDE DEF gen
    <3> QED BY <2>1 DEF Session
  <2>3. QED BY <2>1, <2>2
<1>2. p \in Session
  <2> HIDE DEF g
  <2> QED BY <1>1, PushStateType, StateNames
<1>3. attempts \in SUBSET [gen : Nat, stream : Streams]
  <2> HIDE DEF p
  <2>1. p.signing \in SUBSET [gen : Nat, stream : Streams]
    BY <1>2 DEF Session
  <2>2. QED BY <1>1, <2>1
<1>4. [p EXCEPT !.streamKey = stream, !.signing = attempts] \in Session
  <2> HIDE DEF p, attempts
  <2> QED BY <1>2, <1>3 DEF Session
<1>5. Connect(s, stream) = IF s.stopped \/ s.state \notin {"waiting", "degraded"} THEN s
                           ELSE [p EXCEPT !.streamKey = stream, !.signing = attempts]
  BY DEF Connect
<1>6. QED BY <1>4, <1>5

\* The session and the event value that transcriptUtterance makes of a new packet.
LEMMA UtteranceParts ==
  ASSUME NEW s \in Session, NEW p \in Packets
  PROVE  LET named == IF Known(s.aliases, p) THEN s.aliases
                      ELSE Append(s.aliases, SpeakerOf[p])
             noted == [s EXCEPT !.seenPackets = Remember(s.seenPackets, p), !.aliases = named]
             value == [type |-> "utterance", packet |-> p, alias |-> AliasOf(named, p)]
         IN noted \in Session /\ value \in EventValue
<1> DEFINE named == IF Known(s.aliases, p) THEN s.aliases ELSE Append(s.aliases, SpeakerOf[p])
           seen  == Remember(s.seenPackets, p)
           noted == [s EXCEPT !.seenPackets = seen, !.aliases = named]
           value == [type |-> "utterance", packet |-> p, alias |-> AliasOf(named, p)]
<1>1. s.aliases \in Seq(Speakers) /\ s.seenPackets \in Seq(Packets)
  BY DEF Session
<1>2. named \in Seq(Speakers)
  BY <1>1, ZoomConstants
<1>3. seen \in Seq(Packets)
  BY <1>1, ZoomConstants DEF Remember
<1>4. noted \in Session
  <2> HIDE DEF named, seen
  <2> QED BY <1>2, <1>3 DEF Session
<1>5. \E i \in 1..Len(named) : named[i] = SpeakerOf[p]
  <2>1. CASE Known(s.aliases, p)
    BY <2>1 DEF Known
  <2>2. CASE ~Known(s.aliases, p)
    <3>1. /\ Len(Append(s.aliases, SpeakerOf[p])) = Len(s.aliases) + 1
          /\ Append(s.aliases, SpeakerOf[p])[Len(s.aliases) + 1] = SpeakerOf[p]
          /\ Len(s.aliases) \in Nat
      BY <1>1, ZoomConstants
    <3>2. QED BY <2>2, <3>1
  <2>3. QED BY <2>1, <2>2
<1>6. AliasOf(named, p) \in 1..Len(named) /\ Len(named) \in Nat
  <2> HIDE DEF named
  <2>1. AliasOf(named, p) \in 1..Len(named)
    BY <1>5 DEF AliasOf
  <2>2. QED BY <2>1, <1>2
<1>7. value \in EventValue
  <2> HIDE DEF named
  <2>1. AliasOf(named, p) \in Nat
    BY <1>6
  <2>2. QED BY <2>1 DEF EventValue
<1>8. QED BY <1>4, <1>7

LEMMA TranscriptUtteranceType ==
  ASSUME NEW s \in Session, NEW p \in Packets PROVE TranscriptUtterance(s, p) \in Session
<1> DEFINE named == IF Known(s.aliases, p) THEN s.aliases ELSE Append(s.aliases, SpeakerOf[p])
           noted == [s EXCEPT !.seenPackets = Remember(s.seenPackets, p), !.aliases = named]
           value == [type |-> "utterance", packet |-> p, alias |-> AliasOf(named, p)]
<1>1. noted \in Session /\ value \in EventValue
  BY UtteranceParts
<1>2. TranscriptUtterance(s, p) \in {s, Degrade(s), noted, Push(noted, value)}
  BY DEF TranscriptUtterance
<1>3. QED
  <2> HIDE DEF noted, value
  <2> QED BY <1>1, <1>2, DegradeType, PushType

LEMMA RephaseType ==
  ASSUME NEW s \in Session, NEW k \in s.sockets,
         NEW phase \in {"connecting", "open", "answered", "streaming", "closing"}
  PROVE  Rephase(s, k, phase) \in Session
<1> DEFINE socks == (s.sockets \ {k}) \cup {[k EXCEPT !.phase = phase]}
<1>1. s.sockets \in SUBSET Socket
  BY DEF Session
<1>2. [k EXCEPT !.phase = phase] \in Socket
  BY <1>1 DEF Socket
<1>3. socks \in SUBSET Socket
  BY <1>1, <1>2
<1>4. [s EXCEPT !.sockets = socks] \in Session
  <2> HIDE DEF socks
  <2> QED BY <1>3 DEF Session
<1>5. QED BY <1>4 DEF Rephase

-----------------------------------------------------------------------------
(* Type correctness *)

LEMMA WebhookType ==
  ASSUME TypeOK, Webhook PROVE TypeOK'
<1>1. PICK stream \in Streams :
        \/ Started(stream)
        \/ \E hasUrl \in BOOLEAN : Interrupted(stream, hasUrl)
        \/ StreamStopped(stream)
  BY DEF Webhook
<1>2. CASE StartedAmbiguous(stream)
  BY <1>2, DegradeType DEF StartedAmbiguous, TypeOK
<1>3. CASE StartedWaiting(stream)
  <2> DEFINE asked == [session EXCEPT !.pendingPayload = stream]
             told  == PushState(asked, "awaiting-confirmation")
             timer == session.cursor + 1
             running == told.timers \cup {timer}
  <2>1. session \in Session
    BY DEF TypeOK
  <2>2. timer \in Nat
    BY <2>1 DEF Session
  <2>3. asked \in Session
    BY <2>1 DEF Session
  <2>4. told \in Session
    <3> HIDE DEF asked
    <3> QED BY <2>3, PushStateType, StateNames
  <2>5. running \in SUBSET Nat
    <3> HIDE DEF told, timer
    <3> QED BY <2>2, <2>4 DEF Session
  <2>6. [told EXCEPT !.confirmationTimer = timer, !.timers = running] \in Session
    <3> HIDE DEF told, timer, running
    <3> QED BY <2>2, <2>4, <2>5 DEF Session
  <2>7. session' = [told EXCEPT !.confirmationTimer = timer, !.timers = running] /\ armed' = armed
    BY <1>3 DEF StartedWaiting
  <2>8. QED
    <3> HIDE DEF told, timer, running
    <3> QED BY <2>6, <2>7 DEF TypeOK
<1>4. ASSUME NEW hasUrl \in BOOLEAN, Interrupted(stream, hasUrl) PROVE TypeOK'
  BY <1>4, DegradeType, ConnectType DEF Interrupted, TypeOK
<1>5. CASE StreamStopped(stream)
  BY <1>5, StopSessionType DEF StreamStopped, TypeOK
<1>6. QED BY <1>1, <1>2, <1>3, <1>4, <1>5 DEF Started

LEMMA UserType ==
  ASSUME TypeOK, User PROVE TypeOK'
<1>1. session \in Session
  BY DEF TypeOK
<1>2. CASE Confirm
  <2> DEFINE cleared == ClearTimers(session)
             bound == [cleared EXCEPT !.bound = TRUE, !.state = "waiting"]
  <2>1. cleared \in Session
    BY <1>1, ClearTimersType
  <2>2. bound \in Session
    <3> HIDE DEF cleared
    <3> QED BY <2>1, StateNames DEF Session
  <2>3. session.pendingPayload \in Streams
    <3>1. session.pendingPayload \in Streams \cup {None}
      BY <1>1 DEF Session
    <3>2. QED BY <3>1, <1>2 DEF Confirm
  <2>4. session' = Connect(bound, session.pendingPayload) /\ armed' = armed
    BY <1>2 DEF Confirm
  <2>5. QED
    <3> HIDE DEF bound
    <3> QED BY <2>2, <2>3, <2>4, ConnectType DEF TypeOK
<1>3. CASE Pause
  <2> DEFINE paused == [session EXCEPT !.stateBeforePause = session.state, !.paused = TRUE]
  <2>1. paused \in Session
    <3>1. session.state \in States
      BY <1>1 DEF Session
    <3>2. QED BY <1>1, <3>1 DEF Session
  <2>2. session' = PushState(paused, "paused") /\ armed' = armed
    BY <1>3 DEF Pause
  <2>3. QED
    <3> HIDE DEF paused
    <3> QED BY <2>1, <2>2, PushStateType, StateNames DEF TypeOK
<1>4. CASE Resume
  <2> DEFINE resumed == [session EXCEPT !.paused = FALSE]
             st == IF session.stateBeforePause \in {"active", "connecting"}
                   THEN session.stateBeforePause ELSE "waiting"
  <2>1. resumed \in Session
    BY <1>1 DEF Session
  <2>2. st \in States
    BY StateNames
  <2>3. session' = PushState(resumed, st) /\ armed' = armed
    BY <1>4 DEF Resume
  <2>4. QED
    <3> HIDE DEF resumed, st
    <3> QED BY <2>1, <2>2, <2>3, PushStateType DEF TypeOK
<1>5. CASE Stop
  BY <1>1, <1>5, StopSessionType DEF Stop, TypeOK
<1>6. QED BY <1>2, <1>3, <1>4, <1>5 DEF User

LEMMA PollType ==
  ASSUME TypeOK, Poll PROVE TypeOK'
<1>1. PICK after \in 0..session.cursor : GetEvents(after)
  BY DEF Poll
<1>2. PICK n \in 0..Len(session.events) :
        /\ session' = [session EXCEPT !.events = SubSeq(@, n + 1, Len(@))]
        /\ armed' = armed
  BY <1>1 DEF GetEvents
<1> DEFINE kept == SubSeq(session.events, n + 1, Len(session.events))
<1>3. session \in Session /\ armed \in BOOLEAN
  BY DEF TypeOK
<1>4. session.events \in Seq(Event)
  BY <1>3 DEF Session
<1>5. kept \in Seq(Event)
  BY <1>4
<1>6. [session EXCEPT !.events = kept] \in Session
  <2> HIDE DEF kept
  <2> QED BY <1>3, <1>5 DEF Session
<1>7. QED
  <2>1. session' = [session EXCEPT !.events = kept]
    BY <1>2
  <2> HIDE DEF kept
  <2>2. QED BY <1>2, <1>3, <1>6, <2>1 DEF TypeOK

LEMMA TimerType ==
  ASSUME TypeOK, Timer PROVE TypeOK'
<1>1. session \in Session
  BY DEF TypeOK
<1>2. CASE ArmWindowCloses
  BY <1>2 DEF ArmWindowCloses, TypeOK
<1>3. CASE ArmTimerFires
  <2> DEFINE fired == [session EXCEPT !.armTimer = FALSE]
  <2>1. fired \in Session
    BY <1>1 DEF Session
  <2>2. session' = (IF ~session.bound THEN Degrade(fired) ELSE fired) /\ armed' = armed
    BY <1>3 DEF ArmTimerFires
  <2>3. QED
    <3> HIDE DEF fired
    <3> QED BY <2>1, <2>2, DegradeType DEF TypeOK
<1>4. ASSUME NEW timer \in session.timers, ConfirmationTimerFires(timer) PROVE TypeOK'
  <2> DEFINE fired == [session EXCEPT !.timers = @ \ {timer}, !.pendingPayload = None,
                                      !.confirmationTimer = 0]
  <2>1. fired \in Session
    <3>1. session.timers \ {timer} \in SUBSET Nat /\ None \in Streams \cup {None}
      BY <1>1 DEF Session
    <3>2. QED BY <1>1, <3>1 DEF Session
  <2>2. session' = (IF ~session.bound THEN Degrade(fired) ELSE fired) /\ armed' = armed
    BY <1>4 DEF ConfirmationTimerFires
  <2>3. QED
    <3> HIDE DEF fired
    <3> QED BY <2>1, <2>2, DegradeType DEF TypeOK
<1>5. QED BY <1>2, <1>3, <1>4 DEF Timer

LEMMA SignatureType ==
  ASSUME TypeOK, Signature PROVE TypeOK'
<1>1. PICK attempt \in session.signing : SignSucceeds(attempt) \/ SignFails(attempt)
  BY DEF Signature
<1> DEFINE signed == [session EXCEPT !.signing = @ \ {attempt}]
           socket == [kind |-> "signaling", gen |-> attempt.gen, stream |-> attempt.stream,
                      phase |-> "connecting"]
           socks == signed.sockets \cup {socket}
<1>2. session \in Session /\ armed \in BOOLEAN
  BY DEF TypeOK
<1>3. attempt.gen \in Nat /\ attempt.stream \in Streams
  BY <1>2 DEF Session
<1>4. signed \in Session
  <2>1. session.signing \ {attempt} \in SUBSET [gen : Nat, stream : Streams]
    BY <1>2 DEF Session
  <2>2. QED BY <1>2, <2>1 DEF Session
<1>5. CASE SignSucceeds(attempt)
  <2>1. socket \in Socket
    BY <1>3 DEF Socket
  <2>2. socks \in SUBSET Socket
    <3> HIDE DEF signed, socket
    <3>1. signed.sockets \in SUBSET Socket
      BY <1>4 DEF Session
    <3>2. QED BY <2>1, <3>1
  <2>3. [signed EXCEPT !.sockets = socks, !.signalingSocket = attempt.gen] \in Session
    <3> HIDE DEF signed, socks
    <3> QED BY <1>3, <1>4, <2>2 DEF Session
  <2>4. /\ session' = IF Current(session, attempt.gen)
                      THEN [signed EXCEPT !.sockets = socks, !.signalingSocket = attempt.gen]
                      ELSE signed
        /\ armed' = armed
    BY <1>5 DEF SignSucceeds
  <2>5. QED
    <3> HIDE DEF signed, socks
    <3> QED BY <1>2, <1>4, <2>3, <2>4 DEF TypeOK
<1>6. CASE SignFails(attempt)
  <2>1. session' = Degrade(signed) /\ armed' = armed
    BY <1>6 DEF SignFails
  <2>2. QED
    <3> HIDE DEF signed
    <3> QED BY <1>2, <1>4, <2>1, DegradeType DEF TypeOK
<1>7. QED BY <1>1, <1>5, <1>6

LEMMA NetworkType ==
  ASSUME TypeOK, Network PROVE TypeOK'
<1>1. session \in Session /\ armed \in BOOLEAN
  BY DEF TypeOK
<1>2. PICK k \in session.sockets :
        \/ SocketOpens(k) \/ SignalingAccepted(k) \/ MediaAccepted(k)
        \/ \E p \in Packets : Transcript(k, p)
        \/ BadMessage(k) \/ PeerCloses(k) \/ SocketErrors(k) \/ SocketCloses(k)
  BY DEF Network
<1>3. CASE SocketOpens(k) \/ PeerCloses(k)
  BY <1>1, <1>3, RephaseType DEF SocketOpens, PeerCloses, TypeOK
<1>4. CASE SignalingAccepted(k)
  <2> DEFINE answered == Rephase(session, k, "answered")
             media == [kind |-> "media", gen |-> k.gen, stream |-> k.stream,
                       phase |-> "connecting"]
             socks == answered.sockets \cup {media}
  <2>1. k.gen \in Nat /\ k.stream \in Streams
    <3>1. session.sockets \in SUBSET Socket
      BY <1>1 DEF Session
    <3>2. QED BY <3>1 DEF Socket
  <2>2. answered \in Session
    BY <1>1, RephaseType
  <2>3. media \in Socket
    BY <2>1 DEF Socket
  <2>4. socks \in SUBSET Socket
    <3> HIDE DEF answered, media
    <3>1. answered.sockets \in SUBSET Socket
      BY <2>2 DEF Session
    <3>2. QED BY <2>3, <3>1
  <2>5. [answered EXCEPT !.sockets = socks, !.mediaSocket = k.gen] \in Session
    <3> HIDE DEF answered, socks
    <3> QED BY <2>1, <2>2, <2>4 DEF Session
  <2>6. /\ session' = IF Current(session, k.gen)
                      THEN [answered EXCEPT !.sockets = socks, !.mediaSocket = k.gen]
                      ELSE answered
        /\ armed' = armed
    BY <1>4 DEF SignalingAccepted
  <2>7. QED
    <3> HIDE DEF answered, socks
    <3> QED BY <1>1, <2>2, <2>5, <2>6 DEF TypeOK
<1>5. CASE MediaAccepted(k)
  <2> DEFINE streaming == Rephase(session, k, "streaming")
  <2>1. streaming \in Session
    BY <1>1, RephaseType
  <2>2. session' \in {streaming, Degrade(streaming), PushState(streaming, "active")} /\ armed' = armed
    BY <1>5 DEF MediaAccepted
  <2>3. QED
    <3> HIDE DEF streaming
    <3> QED BY <1>1, <2>1, <2>2, DegradeType, PushStateType, StateNames DEF TypeOK
<1>6. ASSUME NEW p \in Packets, Transcript(k, p) PROVE TypeOK'
  BY <1>1, <1>6, TranscriptUtteranceType DEF Transcript, TypeOK
<1>7. CASE BadMessage(k)
  BY <1>1, <1>7, DegradeType DEF BadMessage, TypeOK
<1>8. CASE SocketErrors(k)
  <2> DEFINE closing == Rephase(session, k, "closing")
  <2>1. closing \in Session
    BY <1>1, RephaseType
  <2>2. session' \in {closing, Degrade(closing)} /\ armed' = armed
    BY <1>8 DEF SocketErrors
  <2>3. QED
    <3> HIDE DEF closing
    <3> QED BY <1>1, <2>1, <2>2, DegradeType DEF TypeOK
<1>9. CASE SocketCloses(k)
  <2> DEFINE closed == [session EXCEPT !.sockets = @ \ {k}]
  <2>1. closed \in Session
    <3>1. session.sockets \ {k} \in SUBSET Socket
      BY <1>1 DEF Session
    <3>2. QED BY <1>1, <3>1 DEF Session
  <2>2. session' \in {closed, Degrade(closed)} /\ armed' = armed
    BY <1>9 DEF SocketCloses
  <2>3. QED
    <3> HIDE DEF closed
    <3> QED BY <1>1, <2>1, <2>2, DegradeType DEF TypeOK
<1>10. QED BY <1>2, <1>3, <1>4, <1>5, <1>6, <1>7, <1>8, <1>9

LEMMA TypeInductive == TypeOK /\ [Next]_vars => TypeOK'
<1>1. ASSUME TypeOK, UNCHANGED vars PROVE TypeOK'
  BY <1>1 DEF vars, TypeOK
<1>2. QED
  BY <1>1, WebhookType, UserType, PollType, TimerType, SignatureType, NetworkType DEF Next

\* Type correctness of the session (createZoomRtmsController): every callback leaves
\* a well-formed session, for any capacity of the ring, the alias map and the digest set.
THEOREM SessionTypeCorrect == Spec => []TypeOK
<1>1. Init => TypeOK
  BY NewSessionType DEF Init, TypeOK
<1>2. QED BY <1>1, TypeInductive, PTL DEF Spec

-----------------------------------------------------------------------------
(* The inductive invariant.  OneConnection alone is not inductive: it says      *)
(* nothing of the signatures still under way, of what a fresh attempt finds, or *)
(* of the states in which the session may hold a socket.                        *)

Ended(s) == s.stopped \/ s.state \in {"degraded", "stopped"}

Holding(s) == s.signalingSocket # 0 \/ s.mediaSocket # 0

SocketGens(s) == \A k \in s.sockets : k.gen # 0 /\ k.gen <= s.generation

LiveHeld(s) ==
  \A k \in Live(s) :
    /\ Current(s, k.gen) /\ Holds(s, k) /\ s.bound /\ k.stream = s.streamKey
    /\ k.kind = "signaling" /\ k.phase \in {"connecting", "open"} => s.mediaSocket = 0

LiveSingle(s) == \A j, k \in Live(s) : j.kind = k.kind => j = k

RefsCurrent(s) ==
  /\ s.signalingSocket \in {0, s.generation} /\ s.mediaSocket \in {0, s.generation}
  /\ Holding(s) => s.bound /\ ~Ended(s)

\* An attempt whose signature is still awaited, and that nothing has superseded,
\* finds no socket and a session that has not ended.
Attempts(s) ==
  \A a \in s.signing :
    /\ a.gen # 0 /\ a.gen <= s.generation
    /\ Current(s, a.gen) => ~Holding(s) /\ ~Ended(s) /\ s.bound /\ a.stream = s.streamKey

AttemptsDiffer(s) == \A a, b \in s.signing : a.gen = b.gen => a = b

Unconfirmed(s) == ~s.bound => s.signing = {} /\ s.streamKey = None

Awaiting(s) == s.state = "awaiting-confirmation" => ~s.bound

Identities(s) == Ended(s) => s.aliases = <<>> /\ s.seenPackets = <<>>

Ind(s) ==
  /\ SocketGens(s) /\ LiveHeld(s) /\ LiveSingle(s) /\ RefsCurrent(s)
  /\ Attempts(s) /\ AttemptsDiffer(s) /\ Unconfirmed(s) /\ Awaiting(s) /\ Identities(s)

IInv == TypeOK /\ Ind(session)

-----------------------------------------------------------------------------
(* What the helpers do to the fields the invariant speaks of. *)

Kept(s, t) == t.bound = s.bound /\ t.streamKey = s.streamKey /\ t.signing = s.signing

Same(s, t) ==
  /\ Kept(s, t) /\ t.stopped = s.stopped /\ t.generation = s.generation
  /\ t.sockets = s.sockets
  /\ t.signalingSocket = s.signalingSocket /\ t.mediaSocket = s.mediaSocket
  /\ t.aliases = s.aliases /\ t.seenPackets = s.seenPackets

\* No socket of generation above g, and none that is neither held nor closing.
Owned(s, g) ==
  \A k \in s.sockets : k.gen # 0 /\ k.gen <= g /\ (k.phase # "closing" => Holds(s, k))

\* t is s with nothing left of its connection.
Calm(s, t, g) ==
  /\ Kept(s, t) /\ ~Holding(t) /\ Live(t) = {} /\ Owned(t, g)
  /\ t.aliases = <<>> /\ t.seenPackets = <<>>

LEMMA ReleaseCalm ==
  ASSUME NEW s \in Session, NEW g \in Nat, Owned(s, g)
  PROVE  /\ Calm(s, Release(s), g)
         /\ Release(s).stopped = s.stopped /\ Release(s).generation = s.generation
         /\ Release(s).state = s.state
<1> DEFINE closed == {ClosedIfHeld(s, k) : k \in s.sockets}
           r == Release(s)
<1>1. r = [s EXCEPT !.sockets = closed, !.mediaSocket = 0, !.signalingSocket = 0,
                    !.aliases = <<>>, !.seenPackets = <<>>]
  BY DEF Release
<1>2. /\ Kept(s, r) /\ r.sockets = closed /\ r.mediaSocket = 0 /\ r.signalingSocket = 0
      /\ r.aliases = <<>> /\ r.seenPackets = <<>> /\ r.stopped = s.stopped
      /\ r.generation = s.generation /\ r.state = s.state
  <2> HIDE DEF closed, r
  <2> QED BY <1>1 DEF Session, Kept
<1>3. \A k \in closed : k.gen # 0 /\ k.gen <= g /\ k.phase = "closing"
  <2> SUFFICES ASSUME NEW k \in s.sockets
               PROVE  LET c == ClosedIfHeld(s, k)
                      IN c.gen # 0 /\ c.gen <= g /\ c.phase = "closing"
    OBVIOUS
  <2>1. k \in Socket
    BY DEF Session
  <2>2. k.gen # 0 /\ k.gen <= g /\ (k.phase # "closing" => Holds(s, k))
    BY DEF Owned
  <2>3. QED BY <2>1, <2>2 DEF ClosedIfHeld, Socket
<1>4. QED
  <2> HIDE DEF closed, r
  <2>1. ~Holding(r)
    BY <1>2 DEF Holding
  <2>2. Live(r) = {} /\ Owned(r, g)
    BY <1>2, <1>3 DEF Live, Owned
  <2>3. QED BY <1>2, <2>1, <2>2 DEF Calm, r

LEMMA CalmChain ==
  ASSUME NEW s, NEW t, NEW u, NEW g, Calm(s, t, g), Calm(t, u, g) PROVE Calm(s, u, g)
  BY DEF Calm, Kept

LEMMA Append1Fields ==
  ASSUME NEW s \in Session, NEW v
  PROVE  Same(s, Append1(s, v)) /\ Append1(s, v).state = s.state
<1> DEFINE es == Append(s.events, [cursor |-> s.cursor + 1, value |-> v])
           c == s.cursor + 1
<1>1. Append1(s, v) = [s EXCEPT !.cursor = c, !.events = es]
  BY DEF Append1
<1>2. QED
  <2> HIDE DEF es, c
  <2> QED BY <1>1 DEF Session, Same, Kept

LEMMA OverflowCalm ==
  ASSUME NEW s \in Session, NEW g \in Nat, Owned(s, g)
  PROVE  /\ Calm(s, Overflow(s), g)
         /\ Overflow(s).stopped = s.stopped /\ Overflow(s).state = "degraded"
         /\ Overflow(s).generation = s.generation + 1
<1> DEFINE r == Release(s)
           o == [r EXCEPT !.events = <<>>, !.state = "degraded", !.generation = @ + 1]
           v == StateEvent("degraded")
<1>1. r \in Session
  BY ReleaseType
<1>2. Calm(s, r, g) /\ r.stopped = s.stopped /\ r.generation = s.generation
  BY ReleaseCalm
<1>3. o \in Session /\ o.state = "degraded" /\ o.generation = r.generation + 1
      /\ o.stopped = r.stopped /\ Calm(r, o, g)
  <2> HIDE DEF r
  <2>1. r.generation + 1 \in Nat
    BY <1>1 DEF Session
  <2>2. o \in Session
    BY <1>1, <2>1, EmptySeqs, StateNames DEF Session
  <2>3. /\ o.state = "degraded" /\ o.generation = r.generation + 1 /\ o.stopped = r.stopped
        /\ Kept(r, o) /\ o.sockets = r.sockets /\ o.signalingSocket = r.signalingSocket
        /\ o.mediaSocket = r.mediaSocket /\ o.aliases = r.aliases
        /\ o.seenPackets = r.seenPackets
    BY <1>1 DEF Session, Kept
  <2>4. Calm(r, o, g)
    <3> HIDE DEF o
    <3> QED BY <1>2, <2>3 DEF Calm, Holding, Live, Owned, Holds
  <2>5. QED BY <2>2, <2>3, <2>4
<1>4. Overflow(s) = Append1(o, v)
  BY DEF Overflow
<1>5. Same(o, Append1(o, v)) /\ Append1(o, v).state = o.state
  <2> HIDE DEF o, v
  <2> QED BY <1>3, Append1Fields
<1>6. QED
  <2> HIDE DEF r, o, v
  <2>1. Calm(o, Append1(o, v), g)
    BY <1>3, <1>5 DEF Calm, Same, Kept, Holding, Live, Owned, Holds
  <2>2. Calm(s, Append1(o, v), g)
    BY <1>2, <1>3, <2>1, CalmChain
  <2>3. QED BY <1>2, <1>3, <1>4, <1>5, <2>2 DEF Same

\* A push either leaves the connection alone or is the overflow that ends it.
Overflowed(s, t, g) ==
  /\ Calm(s, t, g) /\ ~t.stopped /\ t.state = "degraded" /\ t.generation = s.generation + 1

LEMMA PushCases ==
  ASSUME NEW s \in Session, NEW g \in Nat, Owned(s, g), NEW v \in EventValue
  PROVE  \/ Same(s, Push(s, v)) /\ Push(s, v).state = s.state
         \/ ~s.stopped /\ Overflowed(s, Push(s, v), g)
<1>1. Same(s, s)
  BY DEF Same, Kept
<1>2. Same(s, Append1(s, v)) /\ Append1(s, v).state = s.state
  BY Append1Fields
<1>3. ~s.stopped => Overflowed(s, Overflow(s), g)
  BY OverflowCalm DEF Overflowed
<1>4. QED
  BY <1>1, <1>2, <1>3 DEF Push

LEMMA PushStateCases ==
  ASSUME NEW s \in Session, NEW g \in Nat, Owned(s, g), NEW st \in States
  PROVE  \/ Same(s, PushState(s, st)) /\ PushState(s, st).state = st
         \/ ~s.stopped /\ Overflowed(s, PushState(s, st), g)
<1> DEFINE t == [s EXCEPT !.state = st]
<1>1. t \in Session /\ Same(s, t) /\ t.state = st
  <2>1. t \in Session
    BY DEF Session
  <2>2. Same(s, t) /\ t.state = st
    BY DEF Session, Same, Kept
  <2>3. QED BY <2>1, <2>2
<1>2. PushState(s, st) = Push(t, StateEvent(st))
  BY DEF PushState
<1>3. QED
  <2> HIDE DEF t
  <2>1. Owned(t, g)
    BY <1>1 DEF Same, Owned, Holds
  <2>2. \/ Same(t, PushState(s, st)) /\ PushState(s, st).state = t.state
        \/ ~t.stopped /\ Overflowed(t, PushState(s, st), g)
    BY <1>1, <1>2, <2>1, PushCases, StateEventType
  <2>3. QED
    BY <1>1, <2>2 DEF Same, Kept, Overflowed, Calm

LEMMA ClearTimersSame ==
  ASSUME NEW s \in Session
  PROVE  Same(s, ClearTimers(s)) /\ ClearTimers(s).state = s.state
<1> DEFINE left == s.timers \ {s.confirmationTimer}
<1>1. ClearTimers(s) = [s EXCEPT !.armTimer = FALSE, !.timers = left,
                                 !.confirmationTimer = 0, !.pendingPayload = None]
  BY DEF ClearTimers
<1>2. QED
  <2> HIDE DEF left
  <2> QED BY <1>1 DEF Session, Same, Kept

LEMMA SameOwned ==
  ASSUME NEW s, NEW t, NEW g, Same(s, t), Owned(s, g) PROVE Owned(t, g)
  BY DEF Same, Owned, Holds

\* The common beginning of stopSession and degrade.
LEMMA EndedCalm ==
  ASSUME NEW s \in Session, NEW g \in Nat, Owned(s, g)
  PROVE  LET r == Release(ClearTimers(s))
         IN /\ r \in Session /\ Calm(s, r, g) /\ r.stopped = s.stopped
            /\ r.generation = s.generation
<1> DEFINE c == ClearTimers(s)
<1>1. c \in Session /\ Same(s, c)
  BY ClearTimersType, ClearTimersSame
<1>2. Owned(c, g)
  BY <1>1, SameOwned
<1>3. /\ Release(c) \in Session /\ Calm(c, Release(c), g)
      /\ Release(c).stopped = c.stopped /\ Release(c).generation = c.generation
  <2> HIDE DEF c
  <2> QED BY <1>1, <1>2, ReleaseCalm, ReleaseType
<1>4. QED
  <2> HIDE DEF c
  <2>1. Calm(s, Release(c), g)
    BY <1>1, <1>3 DEF Calm, Same, Kept
  <2>2. QED BY <1>1, <1>3, <2>1 DEF Same, c

LEMMA DegradeCases ==
  ASSUME NEW s \in Session, NEW g \in Nat, Owned(s, g), ~s.stopped
  PROVE  /\ Calm(s, Degrade(s), g) /\ ~Degrade(s).stopped
         /\ Degrade(s).state = "degraded" /\ Degrade(s).generation > s.generation
<1> DEFINE r == Release(ClearTimers(s))
           p == PushState(r, "degraded")
<1>1. r \in Session /\ Calm(s, r, g) /\ r.stopped = s.stopped /\ r.generation = s.generation
  BY EndedCalm
<1>2. p \in Session
  <2> HIDE DEF r
  <2> QED BY <1>1, PushStateType, StateNames
<1>3. /\ Calm(r, p, g) /\ ~p.stopped /\ p.state = "degraded"
      /\ p.generation \in {s.generation, s.generation + 1}
  <2> HIDE DEF r
  <2>1. Owned(r, g)
    BY <1>1 DEF Calm
  <2>2. \/ Same(r, p) /\ p.state = "degraded"
        \/ ~r.stopped /\ Overflowed(r, p, g)
    BY <1>1, <2>1, PushStateCases, StateNames
  <2>3. CASE Same(r, p) /\ p.state = "degraded"
    BY <1>1, <2>3 DEF Same, Calm, Holding, Live, Owned, Holds, Kept
  <2>4. CASE Overflowed(r, p, g)
    BY <1>1, <2>4 DEF Overflowed
  <2>5. QED BY <2>2, <2>3, <2>4
<1>4. Degrade(s) = [p EXCEPT !.generation = @ + 1]
  BY DEF Degrade
<1>5. s.generation \in Nat
  BY DEF Session
<1>6. /\ Kept(p, Degrade(s)) /\ Degrade(s).sockets = p.sockets
      /\ Degrade(s).signalingSocket = p.signalingSocket /\ Degrade(s).mediaSocket = p.mediaSocket
      /\ Degrade(s).aliases = p.aliases /\ Degrade(s).seenPackets = p.seenPackets
      /\ Degrade(s).stopped = p.stopped /\ Degrade(s).state = p.state
      /\ Degrade(s).generation = p.generation + 1
  <2> HIDE DEF p
  <2> QED BY <1>2, <1>4 DEF Session, Kept
<1>7. QED
  <2> HIDE DEF r, p
  <2>1. Calm(s, p, g)
    BY <1>1, <1>3, CalmChain
  <2>2. Calm(s, Degrade(s), g)
    BY <1>6, <2>1 DEF Calm, Kept, Holding, Live, Owned, Holds
  <2>3. Degrade(s).generation > s.generation
    BY <1>3, <1>5, <1>6
  <2>4. QED BY <1>3, <1>6, <2>2, <2>3

LEMMA StopSessionCases ==
  ASSUME NEW s \in Session, NEW g \in Nat, Owned(s, g), ~s.stopped, NEW emitState \in BOOLEAN
  PROVE  LET t == StopSession(s, emitState)
         IN /\ Calm(s, t, g) /\ t.stopped /\ t.state \in {"stopped", "degraded"}
            /\ t.generation > s.generation
<1> DEFINE c == Release(ClearTimers(s))
           r == [c EXCEPT !.state = "stopped", !.generation = @ + 1]
           t == IF emitState THEN PushState(r, "stopped") ELSE [r EXCEPT !.events = <<>>]
<1>1. /\ c \in Session /\ Calm(s, c, g) /\ c.stopped = s.stopped
      /\ c.generation = s.generation
  BY EndedCalm
<1>2. /\ r \in Session /\ Calm(c, r, g) /\ r.stopped = c.stopped /\ r.state = "stopped"
      /\ r.generation = c.generation + 1
  <2> HIDE DEF c
  <2>1. c.generation + 1 \in Nat
    BY <1>1 DEF Session
  <2>2. r \in Session
    BY <1>1, <2>1, StateNames DEF Session
  <2>3. /\ Kept(c, r) /\ r.sockets = c.sockets /\ r.signalingSocket = c.signalingSocket
        /\ r.mediaSocket = c.mediaSocket /\ r.aliases = c.aliases
        /\ r.seenPackets = c.seenPackets /\ r.stopped = c.stopped /\ r.state = "stopped"
        /\ r.generation = c.generation + 1
    BY <1>1 DEF Session, Kept
  <2>4. Calm(c, r, g)
    <3> HIDE DEF r
    <3> QED BY <1>1, <2>3 DEF Calm, Holding, Live, Owned, Holds
  <2>5. QED BY <2>2, <2>3, <2>4
<1>3. /\ t \in Session /\ Calm(r, t, g) /\ t.state \in {"stopped", "degraded"}
      /\ t.generation \in {r.generation, r.generation + 1}
  <2> HIDE DEF r
  <2>1. CASE emitState
    <3>1. Owned(r, g)
      BY <1>2 DEF Calm
    <3>2. PushState(r, "stopped") \in Session
      BY <1>2, PushStateType, StateNames
    <3>3. \/ Same(r, PushState(r, "stopped")) /\ PushState(r, "stopped").state = "stopped"
          \/ ~r.stopped /\ Overflowed(r, PushState(r, "stopped"), g)
      BY <1>2, <3>1, PushStateCases, StateNames
    <3>4. CASE Same(r, PushState(r, "stopped")) /\ PushState(r, "stopped").state = "stopped"
      BY <1>2, <2>1, <3>2, <3>4 DEF Same, Calm, Holding, Live, Owned, Holds, Kept
    <3>5. CASE Overflowed(r, PushState(r, "stopped"), g)
      BY <2>1, <3>2, <3>5 DEF Overflowed
    <3>6. QED BY <3>3, <3>4, <3>5
  <2>2. CASE ~emitState
    <3> DEFINE e == [r EXCEPT !.events = <<>>]
    <3>1. e \in Session
      BY <1>2, EmptySeqs DEF Session
    <3>2. /\ Kept(r, e) /\ e.sockets = r.sockets /\ e.signalingSocket = r.signalingSocket
          /\ e.mediaSocket = r.mediaSocket /\ e.aliases = r.aliases
          /\ e.seenPackets = r.seenPackets /\ e.state = r.state
          /\ e.generation = r.generation
      BY <1>2 DEF Session, Kept
    <3>3. Calm(r, e, g)
      <4> HIDE DEF e
      <4> QED BY <1>2, <3>2 DEF Calm, Holding, Live, Owned, Holds, Kept
    <3>4. t = e
      BY <2>2
    <3>5. QED
      <4> HIDE DEF e, t
      <4> QED BY <1>2, <3>1, <3>2, <3>3, <3>4
  <2>3. QED BY <2>1, <2>2
<1>4. StopSession(s, emitState) = [t EXCEPT !.stopped = TRUE]
  BY DEF StopSession
<1>5. LET u == [t EXCEPT !.stopped = TRUE]
      IN /\ Kept(t, u) /\ u.sockets = t.sockets /\ u.signalingSocket = t.signalingSocket
         /\ u.mediaSocket = t.mediaSocket /\ u.aliases = t.aliases
         /\ u.seenPackets = t.seenPackets /\ u.state = t.state /\ u.stopped
         /\ u.generation = t.generation
  <2> HIDE DEF t
  <2> QED BY <1>3 DEF Session, Kept
<1>6. QED
  <2> HIDE DEF c, r, t
  <2>1. Calm(s, t, g)
    BY <1>1, <1>2, <1>3, CalmChain
  <2>2. Calm(s, StopSession(s, emitState), g)
    BY <1>4, <1>5, <2>1 DEF Calm, Kept, Holding, Live, Owned, Holds
  <2>3. s.generation \in Nat
    BY DEF Session
  <2>4. t.generation > s.generation
    BY <1>1, <1>2, <1>3, <2>3
  <2>5. QED BY <1>3, <1>4, <1>5, <2>2, <2>4

-----------------------------------------------------------------------------
(* The helpers preserve the invariant. *)

LEMMA IndOwned ==
  ASSUME NEW s \in Session, Ind(s) PROVE s.generation \in Nat /\ Owned(s, s.generation)
  BY DEF Ind, SocketGens, LiveHeld, Live, Owned, Session

LEMMA SameInd ==
  ASSUME NEW s, NEW t, Ind(s), Same(s, t), t.state = s.state PROVE Ind(t)
  BY DEF Ind, Same, Kept, SocketGens, LiveHeld, LiveSingle, RefsCurrent, Attempts,
         AttemptsDiffer, Unconfirmed, Awaiting, Identities, Live, Current, Holds, Holding, Ended

\* A state other than degraded and stopped may be announced at any time, and
\* awaiting-confirmation only by an unconfirmed session.
LEMMA RestateInd ==
  ASSUME NEW s, NEW t, Ind(s), Same(s, t), t.state \notin {"degraded", "stopped"},
         t.state = "awaiting-confirmation" => ~t.bound
  PROVE  Ind(t)
  BY DEF Ind, Same, Kept, SocketGens, LiveHeld, LiveSingle, RefsCurrent, Attempts,
         AttemptsDiffer, Unconfirmed, Awaiting, Identities, Live, Current, Holds, Holding, Ended

\* A session with nothing left of its connection, whose pending attempts are all
\* superseded or dead.
LEMMA CalmInd ==
  ASSUME NEW s \in Session, NEW t \in Session, Ind(s), Calm(s, t, s.generation),
         t.stopped \/ t.generation > s.generation,
         t.generation >= s.generation,
         t.state \in {"degraded", "stopped"}
  PROVE  Ind(t)
<1>1. s.generation \in Nat /\ t.generation \in Nat
  BY DEF Session
<1>2. \A k \in t.sockets : k.gen \in Nat
  BY DEF Session, Socket
<1>3. \A a \in t.signing : a.gen \in Nat
  BY DEF Session
<1>4. SocketGens(t)
  BY <1>1, <1>2 DEF Calm, Owned, SocketGens
<1>5. LiveHeld(t) /\ LiveSingle(t)
  BY DEF Calm, LiveHeld, LiveSingle
<1>6. RefsCurrent(t)
  BY DEF Calm, RefsCurrent, Holding
<1>7. Attempts(t) /\ AttemptsDiffer(t) /\ Unconfirmed(t)
  BY <1>1, <1>3 DEF Ind, Calm, Kept, Attempts, AttemptsDiffer, Unconfirmed, Current
<1>8. Awaiting(t) /\ Identities(t)
  BY DEF Calm, Awaiting, Identities
<1>9. QED
  BY <1>4, <1>5, <1>6, <1>7, <1>8 DEF Ind

LEMMA OverflowedInd ==
  ASSUME NEW s \in Session, NEW t \in Session, Ind(s), Overflowed(s, t, s.generation)
  PROVE  Ind(t)
<1>1. s.generation \in Nat
  BY DEF Session
<1>2. /\ Calm(s, t, s.generation) /\ t.state = "degraded" /\ t.generation = s.generation + 1
  BY DEF Overflowed
<1>3. t.generation > s.generation /\ t.generation >= s.generation
  BY <1>1, <1>2
<1>4. QED BY <1>2, <1>3, CalmInd

LEMMA PushInd ==
  ASSUME NEW s \in Session, Ind(s), NEW v \in EventValue PROVE Ind(Push(s, v))
<1>1. s.generation \in Nat /\ Owned(s, s.generation) /\ Push(s, v) \in Session
  BY IndOwned, PushType
<1>2. \/ Same(s, Push(s, v)) /\ Push(s, v).state = s.state
      \/ Overflowed(s, Push(s, v), s.generation)
  BY <1>1, PushCases
<1>3. QED BY <1>1, <1>2, SameInd, OverflowedInd

LEMMA PushStateInd ==
  ASSUME NEW s \in Session, Ind(s), NEW st \in States \ {"degraded", "stopped"},
         st = "awaiting-confirmation" => ~s.bound
  PROVE  Ind(PushState(s, st))
<1> DEFINE t == PushState(s, st)
<1>1. s.generation \in Nat /\ Owned(s, s.generation) /\ t \in Session
  BY IndOwned, PushStateType
<1>2. \/ Same(s, t) /\ t.state = st
      \/ Overflowed(s, t, s.generation)
  BY <1>1, PushStateCases
<1> HIDE DEF t
<1>3. CASE Same(s, t) /\ t.state = st
  <2>1. t.state = "awaiting-confirmation" => ~t.bound
    BY <1>3 DEF Same, Kept
  <2>2. QED BY <1>3, <2>1, RestateInd DEF t
<1>4. CASE Overflowed(s, t, s.generation)
  BY <1>1, <1>4, OverflowedInd DEF t
<1>5. QED BY <1>2, <1>3, <1>4

LEMMA DegradeInd ==
  ASSUME NEW s \in Session, Ind(s)
  PROVE  Ind(Degrade(s)) /\ (~s.stopped => /\ Calm(s, Degrade(s), s.generation)
                                          /\ ~Degrade(s).stopped)
<1>1. CASE s.stopped
  BY <1>1 DEF Degrade
<1>2. CASE ~s.stopped
  <2>1. s.generation \in Nat /\ Owned(s, s.generation) /\ Degrade(s) \in Session
    BY IndOwned, DegradeType
  <2>2. /\ Calm(s, Degrade(s), s.generation) /\ ~Degrade(s).stopped
        /\ Degrade(s).state = "degraded" /\ Degrade(s).generation > s.generation
    BY <1>2, <2>1, DegradeCases
  <2>3. Degrade(s).generation >= s.generation
    <3>1. Degrade(s).generation \in Nat
      BY <2>1 DEF Session
    <3>2. QED BY <2>1, <2>2, <3>1
  <2>4. QED BY <2>1, <2>2, <2>3, CalmInd
<1>3. QED BY <1>1, <1>2

\* After stop nothing is current, so the generation no longer matters.
LEMMA StopSessionInd ==
  ASSUME NEW s \in Session, Ind(s), NEW emitState \in BOOLEAN PROVE Ind(StopSession(s, emitState))
<1> DEFINE t == StopSession(s, emitState)
<1>1. CASE s.stopped
  BY <1>1 DEF StopSession
<1>2. CASE ~s.stopped
  <2>1. s.generation \in Nat /\ Owned(s, s.generation) /\ t \in Session
    BY IndOwned, StopSessionType
  <2>2. Calm(s, t, s.generation) /\ t.stopped /\ t.state \in {"stopped", "degraded"}
    BY <1>2, <2>1, StopSessionCases
  <2>3. t.generation >= s.generation
    <3>1. t.generation > s.generation
      BY <1>2, <2>1, StopSessionCases
    <3>2. t.generation \in Nat
      <4> HIDE DEF t
      <4> QED BY <2>1 DEF Session
    <3>3. QED
      <4> HIDE DEF t
      <4> QED BY <2>1, <3>1, <3>2
  <2>4. QED
    <3> HIDE DEF t
    <3>1. Ind(t)
      BY <2>1, <2>2, <2>3, CalmInd
    <3>2. QED BY <3>1 DEF t
<1>3. QED BY <1>1, <1>2

LEMMA NothingLive ==
  ASSUME NEW s \in Session, Ind(s), ~Holding(s) PROVE Live(s) = {}
  BY DEF Ind, SocketGens, LiveHeld, Live, Holds, Holding

\* A confirmed session without sockets may start an attempt.
LEMMA ConnectInd ==
  ASSUME NEW s \in Session, Ind(s), s.bound, ~Holding(s), NEW stream \in Streams
  PROVE  Ind(Connect(s, stream))
<1> DEFINE gen == s.generation + 1
           g == [s EXCEPT !.generation = gen]
           p == PushState(g, "connecting")
           attempt == [gen |-> gen, stream |-> stream]
           attempts == p.signing \cup {attempt}
           t == [p EXCEPT !.streamKey = stream, !.signing = attempts]
<1>1. s.generation \in Nat /\ gen \in Nat
  BY DEF Session
<1>2. /\ g \in Session /\ Kept(s, g) /\ g.generation = gen /\ g.state = s.state
      /\ g.stopped = s.stopped /\ g.sockets = s.sockets
      /\ g.signalingSocket = s.signalingSocket /\ g.mediaSocket = s.mediaSocket
      /\ g.aliases = s.aliases /\ g.seenPackets = s.seenPackets
  <2>1. g \in Session
    <3> HIDE DEF gen
    <3> QED BY <1>1 DEF Session
  <2>2. QED
    <3> HIDE DEF gen
    <3> QED BY <2>1 DEF Session, Kept
<1>3. Live(s) = {} /\ \A a \in s.signing : a.gen \in Nat /\ a.gen # 0 /\ a.gen <= s.generation
  <2>1. \A a \in s.signing : a.gen \in Nat
    BY DEF Session
  <2>2. QED BY <2>1, NothingLive DEF Ind, Attempts
<1>4. \A k \in s.sockets : k.gen \in Nat /\ k.gen # 0 /\ k.gen <= s.generation
  <2>1. \A k \in s.sockets : k.gen \in Nat
    BY DEF Session, Socket
  <2>2. QED BY <2>1 DEF Ind, SocketGens
<1>5. Ind(g)
  <2> HIDE DEF g
  <2>1. SocketGens(g)
    BY <1>1, <1>2, <1>4 DEF SocketGens
  <2>2. Live(g) = {} /\ ~Holding(g)
    BY <1>2, <1>3 DEF Live, Holding
  <2>3. LiveHeld(g) /\ LiveSingle(g) /\ RefsCurrent(g)
    BY <2>2 DEF LiveHeld, LiveSingle, RefsCurrent, Holding
  <2>4. Attempts(g) /\ AttemptsDiffer(g)
    BY <1>1, <1>2, <1>3 DEF Attempts, AttemptsDiffer, Kept, Current, Ind
  <2>5. Unconfirmed(g) /\ Awaiting(g) /\ Identities(g)
    BY <1>2 DEF Ind, Unconfirmed, Awaiting, Identities, Kept, Ended
  <2>6. QED BY <2>1, <2>3, <2>4, <2>5 DEF Ind
<1>6. p \in Session /\ Ind(p)
  <2> HIDE DEF g
  <2> QED BY <1>2, <1>5, PushStateType, PushStateInd, StateNames
<1>7. \/ Same(g, p) /\ p.state = "connecting"
      \/ Overflowed(g, p, gen)
  <2> HIDE DEF g
  <2>1. Owned(g, g.generation)
    BY <1>2, <1>5, IndOwned
  <2>2. QED BY <1>1, <1>2, <2>1, PushStateCases, StateNames
<1>8. /\ ~Holding(p) /\ Live(p) = {} /\ p.bound /\ p.signing = s.signing
      /\ p.generation \in {gen, gen + 1} /\ (p.generation = gen => ~Ended(p) \/ p.stopped)
  <2> HIDE DEF g, p, gen
  <2>1. CASE Same(g, p) /\ p.state = "connecting"
    BY <1>1, <1>2, <1>3, <2>1 DEF Same, Kept, Holding, Live, Ended
  <2>2. CASE Overflowed(g, p, gen)
    BY <1>1, <1>2, <2>2 DEF Overflowed, Calm, Kept
  <2>3. QED BY <1>7, <2>1, <2>2
<1>9. /\ t.sockets = p.sockets /\ t.generation = p.generation /\ t.state = p.state
      /\ t.stopped = p.stopped /\ t.bound = p.bound /\ t.streamKey = stream
      /\ t.signing = attempts /\ t.signalingSocket = p.signalingSocket
      /\ t.mediaSocket = p.mediaSocket /\ t.aliases = p.aliases /\ t.seenPackets = p.seenPackets
  <2> HIDE DEF p, attempts
  <2> QED BY <1>6 DEF Session
<1>10. Ind(t)
  <2> HIDE DEF t, p, g
  <2>1. Live(t) = {} /\ ~Holding(t) /\ SocketGens(t)
    BY <1>6, <1>8, <1>9 DEF Live, Holding, SocketGens, Ind
  <2>2. LiveHeld(t) /\ LiveSingle(t) /\ RefsCurrent(t)
    BY <2>1 DEF LiveHeld, LiveSingle, RefsCurrent, Holding
  <2>3. Attempts(t)
    <3> SUFFICES ASSUME NEW a \in s.signing \cup {attempt}
                 PROVE  /\ a.gen # 0 /\ a.gen <= t.generation
                        /\ Current(t, a.gen) => /\ ~Holding(t) /\ ~Ended(t) /\ t.bound
                                                /\ a.stream = t.streamKey
      BY <1>8, <1>9 DEF Attempts
    <3>1. CASE a \in s.signing
      BY <1>1, <1>3, <1>8, <1>9, <3>1 DEF Current
    <3>2. CASE a = attempt
      BY <1>1, <1>8, <1>9, <2>1, <3>2 DEF Current, Ended
    <3>3. QED BY <3>1, <3>2
  <2>4. AttemptsDiffer(t)
    <3> SUFFICES ASSUME NEW a \in s.signing \cup {attempt}, NEW b \in s.signing \cup {attempt},
                        a.gen = b.gen
                 PROVE  a = b
      BY <1>8, <1>9 DEF AttemptsDiffer
    <3>1. \A c \in s.signing : c.gen # gen
      BY <1>1, <1>3
    <3>2. QED BY <3>1 DEF Ind, AttemptsDiffer
  <2>5. Unconfirmed(t) /\ Awaiting(t) /\ Identities(t)
    BY <1>6, <1>8, <1>9 DEF Ind, Unconfirmed, Awaiting, Identities, Ended
  <2>6. QED BY <2>1, <2>2, <2>3, <2>4, <2>5 DEF Ind
<1>11. Connect(s, stream) = IF s.stopped \/ s.state \notin {"waiting", "degraded"} THEN s ELSE t
  BY DEF Connect
<1>12. QED
  <2> HIDE DEF t
  <2> QED BY <1>10, <1>11

\* A connected session that has not ended may remember packets and speakers.
LEMMA NotedInd ==
  ASSUME NEW s, NEW t, Ind(s), ~Ended(s), Kept(s, t), t.stopped = s.stopped,
         t.generation = s.generation, t.state = s.state, t.sockets = s.sockets,
         t.signalingSocket = s.signalingSocket, t.mediaSocket = s.mediaSocket
  PROVE  Ind(t)
  BY DEF Ind, Kept, SocketGens, LiveHeld, LiveSingle, RefsCurrent, Attempts,
         AttemptsDiffer, Unconfirmed, Awaiting, Identities, Live, Current, Holds, Holding, Ended

LEMMA TranscriptUtteranceInd ==
  ASSUME NEW s \in Session, Ind(s), ~Ended(s), NEW p \in Packets
  PROVE  Ind(TranscriptUtterance(s, p))
<1> DEFINE named == IF Known(s.aliases, p) THEN s.aliases ELSE Append(s.aliases, SpeakerOf[p])
           seen == Remember(s.seenPackets, p)
           noted == [s EXCEPT !.seenPackets = seen, !.aliases = named]
           value == [type |-> "utterance", packet |-> p, alias |-> AliasOf(named, p)]
<1>1. noted \in Session /\ value \in EventValue
  BY UtteranceParts
<1>2. /\ Kept(s, noted) /\ noted.stopped = s.stopped /\ noted.generation = s.generation
      /\ noted.state = s.state /\ noted.sockets = s.sockets
      /\ noted.signalingSocket = s.signalingSocket /\ noted.mediaSocket = s.mediaSocket
  <2> HIDE DEF named, seen
  <2> QED BY DEF Session, Kept
<1>3. TranscriptUtterance(s, p) \in {s, Degrade(s), noted, Push(noted, value)}
  BY DEF TranscriptUtterance
<1>4. QED
  <2> HIDE DEF noted, value
  <2>1. Ind(noted)
    BY <1>2, NotedInd
  <2>2. Ind(Degrade(s)) /\ Ind(Push(noted, value))
    BY <1>1, <2>1, DegradeInd, PushInd
  <2>3. QED BY <1>3, <2>1, <2>2

\* A socket that is not closing advances, or starts to close.
LEMMA RephaseInd ==
  ASSUME NEW s \in Session, Ind(s), NEW k \in s.sockets, k.phase # "closing",
         NEW phase, k.kind = "signaling" /\ phase = "open" => k.phase = "connecting",
         phase # "connecting"
  PROVE  Ind(Rephase(s, k, phase))
<1> DEFINE n == [k EXCEPT !.phase = phase]
           rest == s.sockets \ {k}
           t == Rephase(s, k, phase)
<1>1. k \in Socket
  BY DEF Session
<1>2. n.kind = k.kind /\ n.gen = k.gen /\ n.stream = k.stream /\ n.phase = phase
  BY <1>1 DEF Socket
<1>3. t = [s EXCEPT !.sockets = rest \cup {n}]
  BY DEF Rephase
<1>4. /\ t.sockets = rest \cup {n} /\ Kept(s, t) /\ t.stopped = s.stopped
      /\ t.generation = s.generation /\ t.state = s.state
      /\ t.signalingSocket = s.signalingSocket /\ t.mediaSocket = s.mediaSocket
      /\ t.aliases = s.aliases /\ t.seenPackets = s.seenPackets
  <2> HIDE DEF t, n, rest
  <2> QED BY <1>3 DEF Session, Kept
<1>5. k \in Live(s)
  BY DEF Live
<1>6. \A j \in Live(t) : j = n \/ (j \in Live(s) /\ j # k)
  <2> HIDE DEF n
  <2> QED BY <1>4 DEF Live
<1>7. SocketGens(t)
  <2> HIDE DEF n, t
  <2> QED BY <1>2, <1>4 DEF SocketGens, Ind
<1>8. LiveHeld(t)
  <2> HIDE DEF n, t
  <2> QED BY <1>2, <1>4, <1>5, <1>6 DEF Ind, LiveHeld, Current, Holds, Kept
<1>9. LiveSingle(t)
  <2> HIDE DEF n, t
  <2> QED BY <1>2, <1>5, <1>6 DEF Ind, LiveSingle
<1>10. QED
  <2> HIDE DEF n, t
  <2>1. Ind(t)
    BY <1>4, <1>7, <1>8, <1>9
       DEF Ind, Kept, RefsCurrent, Attempts, AttemptsDiffer, Unconfirmed, Awaiting,
           Identities, Current, Holding, Ended
  <2>2. QED BY <2>1 DEF t

LEMMA DropSocketInd ==
  ASSUME NEW s \in Session, Ind(s), NEW k
  PROVE  Ind([s EXCEPT !.sockets = @ \ {k}])
<1> DEFINE rest == s.sockets \ {k}
           t == [s EXCEPT !.sockets = rest]
<1>1. /\ t.sockets = rest /\ Kept(s, t) /\ t.stopped = s.stopped
      /\ t.generation = s.generation /\ t.state = s.state
      /\ t.signalingSocket = s.signalingSocket /\ t.mediaSocket = s.mediaSocket
      /\ t.aliases = s.aliases /\ t.seenPackets = s.seenPackets
  <2> HIDE DEF rest
  <2> QED BY DEF Session, Kept
<1>2. t.sockets \subseteq s.sockets /\ Live(t) \subseteq Live(s)
  <2> HIDE DEF t
  <2> QED BY <1>1 DEF Live
<1>3. QED
  <2> HIDE DEF t
  <2>1. SocketGens(t) /\ LiveHeld(t) /\ LiveSingle(t)
    BY <1>1, <1>2 DEF Ind, SocketGens, LiveHeld, LiveSingle, Current, Holds, Kept
  <2>2. Ind(t)
    BY <1>1, <2>1
       DEF Ind, Kept, RefsCurrent, Attempts, AttemptsDiffer, Unconfirmed, Awaiting,
           Identities, Current, Holding, Ended
  <2>3. QED BY <2>2 DEF t

-----------------------------------------------------------------------------
(* Every callback preserves the invariant. *)

LEMMA IInvFacts ==
  ASSUME IInv PROVE session \in Session /\ Ind(session)
  BY DEF IInv, TypeOK

LEMMA WebhookInd ==
  ASSUME IInv, Webhook PROVE Ind(session')
<1>1. session \in Session /\ Ind(session)
  BY IInvFacts
<1>2. PICK stream \in Streams :
        \/ Started(stream)
        \/ \E hasUrl \in BOOLEAN : Interrupted(stream, hasUrl)
        \/ StreamStopped(stream)
  BY DEF Webhook
<1>4. CASE StartedAmbiguous(stream)
  BY <1>1, <1>4, DegradeInd DEF StartedAmbiguous
<1>5. CASE StartedWaiting(stream)
  <2> DEFINE asked == [session EXCEPT !.pendingPayload = stream]
             told  == PushState(asked, "awaiting-confirmation")
             timer == session.cursor + 1
             running == told.timers \cup {timer}
             t == [told EXCEPT !.confirmationTimer = timer, !.timers = running]
  <2>1. asked \in Session
    BY <1>1 DEF Session
  <2>2. Same(session, asked) /\ asked.state = session.state
    BY <1>1 DEF Session, Same, Kept
  <2>3. ~session.bound
    BY <1>5 DEF StartedWaiting, Unbound
  <2>4. Ind(asked) /\ ~asked.bound
    <3> HIDE DEF asked
    <3> QED BY <1>1, <2>2, <2>3, SameInd DEF Same, Kept
  <2>5. told \in Session /\ Ind(told)
    <3> HIDE DEF asked
    <3> QED BY <2>1, <2>4, PushStateInd, PushStateType, StateNames
  <2>6. Same(told, t) /\ t.state = told.state
    <3> HIDE DEF told, timer, running
    <3> QED BY <2>5 DEF Session, Same, Kept
  <2>7. session' = t
    BY <1>5 DEF StartedWaiting
  <2>8. QED
    <3> HIDE DEF told, t
    <3> QED BY <2>5, <2>6, <2>7, SameInd
<1>6. ASSUME NEW hasUrl \in BOOLEAN, Interrupted(stream, hasUrl) PROVE Ind(session')
  <2> DEFINE d == Degrade(session)
  <2>1. /\ ~session.stopped /\ session.bound
        /\ session' = IF hasUrl THEN Connect(d, stream) ELSE d
    BY <1>6 DEF Interrupted
  <2>2. d \in Session /\ Ind(d) /\ Calm(session, d, session.generation)
    BY <1>1, <2>1, DegradeInd, DegradeType
  <2>3. QED
    <3> HIDE DEF d
    <3>1. d.bound /\ ~Holding(d)
      BY <2>1, <2>2 DEF Calm, Kept
    <3>2. QED BY <2>1, <2>2, <3>1, ConnectInd
<1>7. CASE StreamStopped(stream)
  BY <1>1, <1>7, StopSessionInd DEF StreamStopped
<1>8. QED BY <1>2, <1>4, <1>5, <1>6, <1>7 DEF Started

\* Confirm: the session was unconfirmed, so no attempt is under way and it holds nothing.
LEMMA UserInd ==
  ASSUME IInv, User PROVE Ind(session')
<1>1. session \in Session /\ Ind(session)
  BY IInvFacts
<1>2. CASE Confirm
  <2> DEFINE cleared == ClearTimers(session)
             bound == [cleared EXCEPT !.bound = TRUE, !.state = "waiting"]
  <2>1. cleared \in Session /\ Same(session, cleared)
    BY <1>1, ClearTimersType, ClearTimersSame
  <2>2. bound \in Session
    <3> HIDE DEF cleared
    <3> QED BY <2>1, StateNames DEF Session
  <2>3. /\ bound.bound /\ bound.state = "waiting" /\ bound.streamKey = cleared.streamKey
        /\ bound.signing = cleared.signing /\ bound.stopped = cleared.stopped
        /\ bound.generation = cleared.generation /\ bound.sockets = cleared.sockets
        /\ bound.signalingSocket = cleared.signalingSocket
        /\ bound.mediaSocket = cleared.mediaSocket /\ bound.aliases = cleared.aliases
        /\ bound.seenPackets = cleared.seenPackets
    <3> HIDE DEF cleared
    <3> QED BY <2>1 DEF Session
  <2>4. /\ ~session.stopped /\ session.state = "awaiting-confirmation"
        /\ session.pendingPayload # None /\ session' = Connect(bound, session.pendingPayload)
    BY <1>2 DEF Confirm
  <2>5. session.pendingPayload \in Streams
    <3>1. session.pendingPayload \in Streams \cup {None}
      BY <1>1 DEF Session
    <3>2. QED BY <2>4, <3>1
  <2>6. ~session.bound /\ session.signing = {} /\ ~Holding(session) /\ Live(session) = {}
    <3>1. ~session.bound
      BY <1>1, <2>4 DEF Ind, Awaiting
    <3>2. QED BY <1>1, <3>1, NothingLive DEF Ind, Unconfirmed, RefsCurrent
  <2>7. QED
    <3> HIDE DEF cleared, bound
    <3>1. bound.sockets = session.sockets /\ bound.signing = {} /\ ~Holding(bound)
      BY <2>1, <2>3, <2>6 DEF Same, Kept, Holding
    <3>2. Live(bound) = {} /\ SocketGens(bound)
      BY <1>1, <2>1, <2>3, <2>6, <3>1 DEF Live, Ind, SocketGens, Same
    <3>3. Ind(bound)
      BY <2>3, <2>4, <2>1, <3>1, <3>2
         DEF Ind, LiveHeld, LiveSingle, RefsCurrent, Attempts, AttemptsDiffer, Unconfirmed,
             Awaiting, Identities, Ended, Same, Holding
    <3>4. QED BY <2>2, <2>3, <2>4, <2>5, <3>1, <3>3, ConnectInd
<1>3. CASE Pause
  <2> DEFINE paused == [session EXCEPT !.stateBeforePause = session.state, !.paused = TRUE]
  <2>1. paused \in Session
    <3>1. session.state \in States
      BY <1>1 DEF Session
    <3>2. QED BY <1>1, <3>1 DEF Session
  <2>2. Same(session, paused) /\ paused.state = session.state
    BY <1>1 DEF Session, Same, Kept
  <2>3. session' = PushState(paused, "paused")
    BY <1>3 DEF Pause
  <2>4. QED
    <3> HIDE DEF paused
    <3> QED BY <1>1, <2>1, <2>2, <2>3, SameInd, PushStateInd, StateNames
<1>4. CASE Resume
  <2> DEFINE resumed == [session EXCEPT !.paused = FALSE]
             st == IF session.stateBeforePause \in {"active", "connecting"}
                   THEN session.stateBeforePause ELSE "waiting"
  <2>1. resumed \in Session
    BY <1>1 DEF Session
  <2>2. Same(session, resumed) /\ resumed.state = session.state
    BY <1>1 DEF Session, Same, Kept
  <2>3. st \in States \ {"degraded", "stopped"} /\ st # "awaiting-confirmation"
    BY StateNames
  <2>4. session' = PushState(resumed, st)
    BY <1>4 DEF Resume
  <2>5. QED
    <3> HIDE DEF resumed, st
    <3> QED BY <1>1, <2>1, <2>2, <2>3, <2>4, SameInd, PushStateInd
<1>5. CASE Stop
  BY <1>1, <1>5, StopSessionInd DEF Stop
<1>6. QED BY <1>2, <1>3, <1>4, <1>5 DEF User

LEMMA PollInd ==
  ASSUME IInv, Poll PROVE Ind(session')
<1>1. session \in Session /\ Ind(session)
  BY IInvFacts
<1>2. PICK after \in 0..session.cursor : GetEvents(after)
  BY DEF Poll
<1>3. PICK n \in 0..Len(session.events) :
        session' = [session EXCEPT !.events = SubSeq(@, n + 1, Len(@))]
  BY <1>2 DEF GetEvents
<1> DEFINE kept == SubSeq(session.events, n + 1, Len(session.events))
           t == [session EXCEPT !.events = kept]
<1>4. session' = t
  BY <1>3
<1>5. Same(session, t) /\ t.state = session.state
  <2> HIDE DEF kept
  <2> QED BY <1>1 DEF Session, Same, Kept
<1>6. QED
  <2> HIDE DEF t
  <2> QED BY <1>1, <1>4, <1>5, SameInd

LEMMA TimerInd ==
  ASSUME IInv, Timer PROVE Ind(session')
<1>1. session \in Session /\ Ind(session)
  BY IInvFacts
<1>2. CASE ArmWindowCloses
  BY <1>1, <1>2 DEF ArmWindowCloses
<1>3. CASE ArmTimerFires
  <2> DEFINE fired == [session EXCEPT !.armTimer = FALSE]
  <2>1. fired \in Session
    BY <1>1 DEF Session
  <2>2. Same(session, fired) /\ fired.state = session.state
    BY <1>1 DEF Session, Same, Kept
  <2>3. session' = (IF ~session.bound THEN Degrade(fired) ELSE fired)
    BY <1>3 DEF ArmTimerFires
  <2>4. QED
    <3> HIDE DEF fired
    <3> QED BY <1>1, <2>1, <2>2, <2>3, SameInd, DegradeInd
<1>4. ASSUME NEW timer \in session.timers, ConfirmationTimerFires(timer) PROVE Ind(session')
  <2> DEFINE left == session.timers \ {timer}
             fired == [session EXCEPT !.timers = left, !.pendingPayload = None,
                                      !.confirmationTimer = 0]
  <2>1. fired \in Session
    <3>1. left \in SUBSET Nat /\ None \in Streams \cup {None}
      BY <1>1 DEF Session
    <3> HIDE DEF left
    <3>2. QED BY <1>1, <3>1 DEF Session
  <2>2. Same(session, fired) /\ fired.state = session.state
    <3> HIDE DEF left
    <3> QED BY <1>1 DEF Session, Same, Kept
  <2>3. session' = (IF ~session.bound THEN Degrade(fired) ELSE fired)
    BY <1>4 DEF ConfirmationTimerFires
  <2>4. QED
    <3> HIDE DEF fired
    <3> QED BY <1>1, <2>1, <2>2, <2>3, SameInd, DegradeInd
<1>5. QED BY <1>2, <1>3, <1>4 DEF Timer

\* An attempt that resolves leaves the others superseded.
LEMMA SignedInd ==
  ASSUME NEW s \in Session, Ind(s), NEW attempt
  PROVE  LET signed == [s EXCEPT !.signing = @ \ {attempt}]
         IN signed \in Session /\ Ind(signed)
<1> DEFINE left == s.signing \ {attempt}
           t == [s EXCEPT !.signing = left]
<1>1. left \in SUBSET [gen : Nat, stream : Streams]
  BY DEF Session
<1>2. t \in Session
  <2> HIDE DEF left
  <2> QED BY <1>1 DEF Session
<1>3. /\ t.signing = left /\ t.bound = s.bound /\ t.streamKey = s.streamKey
      /\ t.stopped = s.stopped /\ t.generation = s.generation /\ t.sockets = s.sockets
      /\ t.signalingSocket = s.signalingSocket /\ t.mediaSocket = s.mediaSocket
      /\ t.aliases = s.aliases /\ t.seenPackets = s.seenPackets /\ t.state = s.state
  <2> HIDE DEF left
  <2> QED BY DEF Session
<1>4. Ind(t)
  <2> HIDE DEF t
  <2> QED BY <1>3 DEF Ind, SocketGens, LiveHeld, LiveSingle, RefsCurrent, Attempts,
         AttemptsDiffer, Unconfirmed, Awaiting, Identities, Live, Current, Holds, Holding, Ended
<1>5. QED BY <1>2, <1>4

\* The signaling socket of the current attempt is the only one that is not closing.
LEMMA SignalingInd ==
  ASSUME NEW s \in Session, Ind(s), NEW attempt \in s.signing, Current(s, attempt.gen)
  PROVE  LET signed == [s EXCEPT !.signing = @ \ {attempt}]
             socket == [kind |-> "signaling", gen |-> attempt.gen, stream |-> attempt.stream,
                        phase |-> "connecting"]
         IN Ind([signed EXCEPT !.sockets = @ \cup {socket}, !.signalingSocket = attempt.gen])
<1> DEFINE signed == [s EXCEPT !.signing = @ \ {attempt}]
           socket == [kind |-> "signaling", gen |-> attempt.gen, stream |-> attempt.stream,
                      phase |-> "connecting"]
           socks == signed.sockets \cup {socket}
           t == [signed EXCEPT !.sockets = socks, !.signalingSocket = attempt.gen]
<1>1. signed \in Session /\ Ind(signed)
  BY SignedInd
<1>2. /\ signed.signing = s.signing \ {attempt} /\ signed.sockets = s.sockets
      /\ signed.generation = s.generation /\ signed.stopped = s.stopped
      /\ signed.signalingSocket = s.signalingSocket /\ signed.mediaSocket = s.mediaSocket
      /\ signed.bound = s.bound /\ signed.streamKey = s.streamKey /\ signed.state = s.state
  BY DEF Session
<1>3. /\ ~Holding(s) /\ ~Ended(s) /\ s.bound /\ attempt.stream = s.streamKey
      /\ attempt.gen = s.generation /\ attempt.gen # 0 /\ attempt.gen \in Nat /\ ~s.stopped
  BY DEF Ind, Attempts, Current, Session
<1>4. Live(signed) = {}
  BY <1>1, <1>2, <1>3, NothingLive DEF Holding
<1>5. \A a \in signed.signing : ~Current(signed, a.gen)
  BY <1>2, <1>3 DEF Ind, AttemptsDiffer, Current
<1>6. /\ t.sockets = socks /\ t.signalingSocket = attempt.gen
      /\ t.signing = signed.signing /\ t.bound = signed.bound /\ t.streamKey = signed.streamKey
      /\ t.stopped = signed.stopped /\ t.generation = signed.generation
      /\ t.mediaSocket = signed.mediaSocket /\ t.state = signed.state
      /\ t.aliases = signed.aliases /\ t.seenPackets = signed.seenPackets
  <2> HIDE DEF signed, socks
  <2> QED BY <1>1 DEF Session
<1>7. Live(t) = {socket}
  <2> HIDE DEF signed, t
  <2> QED BY <1>4, <1>6 DEF Live
<1>8. QED
  <2>1. SocketGens(t)
    <3> HIDE DEF signed, t
    <3> QED BY <1>1, <1>2, <1>3, <1>6 DEF Ind, SocketGens
  <2>2. LiveHeld(t) /\ LiveSingle(t)
    <3> HIDE DEF signed, t
    <3> QED BY <1>2, <1>3, <1>6, <1>7 DEF LiveHeld, LiveSingle, Current, Holds, Holding
  <2>3. RefsCurrent(t)
    <3> HIDE DEF signed, t
    <3> QED BY <1>2, <1>3, <1>6 DEF RefsCurrent, Holding, Ended
  <2>4. Attempts(t) /\ AttemptsDiffer(t) /\ Unconfirmed(t) /\ Awaiting(t) /\ Identities(t)
    <3> HIDE DEF signed, t
    <3> QED BY <1>1, <1>5, <1>6 DEF Ind, Attempts, AttemptsDiffer, Unconfirmed, Awaiting,
                                     Identities, Current, Ended
  <2>5. Ind(t)
    <3> HIDE DEF t
    <3> QED BY <2>1, <2>2, <2>3, <2>4 DEF Ind
  <2>6. QED BY <2>5

LEMMA SignatureInd ==
  ASSUME IInv, Signature PROVE Ind(session')
<1>1. session \in Session /\ Ind(session)
  BY IInvFacts
<1>2. PICK attempt \in session.signing : SignSucceeds(attempt) \/ SignFails(attempt)
  BY DEF Signature
<1> DEFINE signed == [session EXCEPT !.signing = @ \ {attempt}]
           socket == [kind |-> "signaling", gen |-> attempt.gen, stream |-> attempt.stream,
                      phase |-> "connecting"]
           opened == [signed EXCEPT !.sockets = @ \cup {socket},
                                    !.signalingSocket = attempt.gen]
<1>3. signed \in Session /\ Ind(signed)
  BY <1>1, SignedInd
<1>4. CASE SignSucceeds(attempt)
  <2>1. session' = IF Current(session, attempt.gen) THEN opened ELSE signed
    BY <1>4 DEF SignSucceeds
  <2>2. Current(session, attempt.gen) => Ind(opened)
    BY <1>1, SignalingInd
  <2>3. QED
    <3> HIDE DEF signed, opened
    <3> QED BY <1>3, <2>1, <2>2
<1>5. CASE SignFails(attempt)
  <2>1. session' = Degrade(signed)
    BY <1>5 DEF SignFails
  <2>2. QED
    <3> HIDE DEF signed
    <3> QED BY <1>3, <2>1, DegradeInd
<1>6. QED BY <1>2, <1>4, <1>5

\* The media socket opens next to an answered signaling socket, where none was.
LEMMA MediaInd ==
  ASSUME NEW s \in Session, Ind(s), NEW k \in s.sockets,
         k.kind = "signaling", k.phase = "open", Current(s, k.gen)
  PROVE  LET answered == Rephase(s, k, "answered")
             media == [kind |-> "media", gen |-> k.gen, stream |-> k.stream,
                       phase |-> "connecting"]
         IN Ind([answered EXCEPT !.sockets = @ \cup {media}, !.mediaSocket = k.gen])
<1> DEFINE n == [k EXCEPT !.phase = "answered"]
           rest == s.sockets \ {k}
           answered == Rephase(s, k, "answered")
           media == [kind |-> "media", gen |-> k.gen, stream |-> k.stream,
                     phase |-> "connecting"]
           socks == answered.sockets \cup {media}
           t == [answered EXCEPT !.sockets = socks, !.mediaSocket = k.gen]
<1>1. k \in Socket
  BY DEF Session
<1>2. answered \in Session /\ Ind(answered)
  BY RephaseType, RephaseInd
<1>3. /\ answered.sockets = rest \cup {n} /\ answered.signing = s.signing
      /\ answered.generation = s.generation /\ answered.stopped = s.stopped
      /\ answered.signalingSocket = s.signalingSocket /\ answered.mediaSocket = s.mediaSocket
      /\ answered.bound = s.bound /\ answered.streamKey = s.streamKey
      /\ answered.state = s.state
  <2>1. answered = [s EXCEPT !.sockets = rest \cup {n}]
    BY DEF Rephase
  <2> HIDE DEF answered, rest, n
  <2>2. QED BY <2>1 DEF Session
<1>4. n.kind = "signaling" /\ n.gen = k.gen /\ n.stream = k.stream /\ n.phase = "answered"
  BY <1>1 DEF Socket
<1>5. /\ k \in Live(s) /\ k.gen = s.generation /\ k.gen # 0 /\ s.signalingSocket = k.gen
      /\ s.mediaSocket = 0 /\ s.bound /\ k.stream = s.streamKey
  BY DEF Ind, LiveHeld, Live, SocketGens, Current, Holds
<1>6. ~Ended(s) /\ ~s.stopped
  BY <1>5 DEF Ind, RefsCurrent, Holding, Current
<1>7. \A j \in Live(s) : j = k
  <2> SUFFICES ASSUME NEW j \in Live(s) PROVE j = k
    OBVIOUS
  <2>1. j \in Socket /\ j.gen # 0 /\ Holds(s, j)
    BY DEF Ind, LiveHeld, Live, SocketGens, Session
  <2>2. j.kind = "signaling"
    BY <1>5, <2>1 DEF Holds, Socket
  <2>3. QED BY <1>5, <2>2 DEF Ind, LiveSingle
<1>8. \A j \in Live(answered) : j = n
  <2> HIDE DEF n, answered
  <2> QED BY <1>3, <1>7 DEF Live
<1>9. \A a \in answered.signing : ~Current(answered, a.gen)
  <2> HIDE DEF answered
  <2> QED BY <1>3, <1>5 DEF Ind, Attempts, Current, Holding
<1>10. /\ t.sockets = socks /\ t.mediaSocket = k.gen
       /\ t.signing = answered.signing /\ t.bound = answered.bound
       /\ t.streamKey = answered.streamKey /\ t.stopped = answered.stopped
       /\ t.generation = answered.generation /\ t.state = answered.state
       /\ t.signalingSocket = answered.signalingSocket
       /\ t.aliases = answered.aliases /\ t.seenPackets = answered.seenPackets
  <2> HIDE DEF answered, socks
  <2> QED BY <1>2 DEF Session
<1>11. \A j \in Live(t) : j = n \/ j = media
  <2> HIDE DEF answered, t, media, n
  <2> QED BY <1>8, <1>10 DEF Live
<1>12. QED
  <2>1. SocketGens(t)
    <3>1. \A j \in answered.sockets : j.gen # 0 /\ j.gen <= answered.generation
      BY <1>2 DEF Ind, SocketGens
    <3>2. k.gen \in Nat /\ media.gen = k.gen
      BY <1>1 DEF Socket
    <3> HIDE DEF answered, t, media
    <3>3. QED BY <1>3, <1>5, <1>10, <3>1, <3>2 DEF SocketGens
  <2>2. LiveHeld(t)
    <3> HIDE DEF answered, t, n
    <3> QED BY <1>3, <1>4, <1>5, <1>6, <1>10, <1>11 DEF LiveHeld, Current, Holds
  <2>3. LiveSingle(t)
    <3> HIDE DEF answered, t, n
    <3> QED BY <1>4, <1>11 DEF LiveSingle
  <2>4. RefsCurrent(t)
    <3> HIDE DEF answered, t
    <3> QED BY <1>3, <1>5, <1>6, <1>10 DEF RefsCurrent, Ended
  <2>5. Attempts(t) /\ AttemptsDiffer(t) /\ Unconfirmed(t) /\ Awaiting(t) /\ Identities(t)
    <3> HIDE DEF answered, t
    <3> QED BY <1>2, <1>9, <1>10 DEF Ind, Attempts, AttemptsDiffer, Unconfirmed, Awaiting,
                                     Identities, Current, Ended
  <2>6. Ind(t)
    <3> HIDE DEF t
    <3> QED BY <2>1, <2>2, <2>3, <2>4, <2>5 DEF Ind
  <2>7. QED BY <2>6

\* A socket that is not closing belongs to a session that has not ended.
LEMMA LiveRuns ==
  ASSUME NEW s \in Session, Ind(s), NEW k \in s.sockets, k.phase # "closing"
  PROVE  ~Ended(s) /\ Current(s, k.gen)
  BY DEF Ind, LiveHeld, Live, SocketGens, RefsCurrent, Holds, Holding

LEMMA NetworkInd ==
  ASSUME IInv, Network PROVE Ind(session')
<1>1. session \in Session /\ Ind(session)
  BY IInvFacts
<1>2. PICK k \in session.sockets :
        \/ SocketOpens(k) \/ SignalingAccepted(k) \/ MediaAccepted(k)
        \/ \E p \in Packets : Transcript(k, p)
        \/ BadMessage(k) \/ PeerCloses(k) \/ SocketErrors(k) \/ SocketCloses(k)
  BY DEF Network
<1>3. CASE SocketOpens(k)
  <2>1. k.phase = "connecting"
    BY <1>3 DEF SocketOpens
  <2>2. Ind(Rephase(session, k, "open")) /\ Ind(Rephase(session, k, "closing"))
    BY <1>1, <2>1, RephaseInd
  <2>3. QED BY <1>3, <2>2 DEF SocketOpens
<1>4. CASE SignalingAccepted(k)
  <2> DEFINE answered == Rephase(session, k, "answered")
             media == [kind |-> "media", gen |-> k.gen, stream |-> k.stream,
                       phase |-> "connecting"]
             t == [answered EXCEPT !.sockets = @ \cup {media}, !.mediaSocket = k.gen]
  <2>1. /\ k.kind = "signaling" /\ k.phase = "open"
        /\ session' = IF Current(session, k.gen) THEN t ELSE answered
    BY <1>4 DEF SignalingAccepted
  <2>2. Current(session, k.gen) /\ Ind(t)
    BY <1>1, <2>1, LiveRuns, MediaInd
  <2>3. QED
    <3> HIDE DEF t, answered
    <3> QED BY <2>1, <2>2
<1>5. CASE MediaAccepted(k)
  <2> DEFINE streaming == Rephase(session, k, "streaming")
  <2>1. /\ k.phase = "open"
        /\ session' \in {streaming, Degrade(streaming), PushState(streaming, "active")}
    BY <1>5 DEF MediaAccepted
  <2>2. streaming \in Session /\ Ind(streaming)
    BY <1>1, <2>1, RephaseType, RephaseInd
  <2>3. QED
    <3> HIDE DEF streaming
    <3> QED BY <2>1, <2>2, DegradeInd, PushStateInd, StateNames
<1>6. ASSUME NEW p \in Packets, Transcript(k, p) PROVE Ind(session')
  <2>1. k.phase = "streaming"
    BY <1>6 DEF Transcript
  <2>2. QED BY <1>1, <1>6, <2>1, LiveRuns, TranscriptUtteranceInd DEF Transcript
<1>7. CASE BadMessage(k)
  BY <1>1, <1>7, DegradeInd DEF BadMessage
<1>8. CASE PeerCloses(k)
  <2>1. k.phase # "closing" /\ session' = Rephase(session, k, "closing")
    BY <1>8 DEF PeerCloses
  <2>2. QED BY <1>1, <2>1, RephaseInd
<1>9. CASE SocketErrors(k)
  <2> DEFINE closing == Rephase(session, k, "closing")
  <2>1. k.phase # "closing" /\ session' \in {closing, Degrade(closing)}
    BY <1>9 DEF SocketErrors
  <2>2. closing \in Session /\ Ind(closing)
    BY <1>1, <2>1, RephaseType, RephaseInd
  <2>3. QED
    <3> HIDE DEF closing
    <3> QED BY <2>1, <2>2, DegradeInd
<1>10. CASE SocketCloses(k)
  <2> DEFINE closed == [session EXCEPT !.sockets = @ \ {k}]
  <2>1. session' \in {closed, Degrade(closed)}
    BY <1>10 DEF SocketCloses
  <2>2. closed \in Session
    <3> DEFINE rest == session.sockets \ {k}
    <3>1. rest \in SUBSET Socket
      BY <1>1 DEF Session
    <3> HIDE DEF rest
    <3>2. [session EXCEPT !.sockets = rest] \in Session
      BY <1>1, <3>1 DEF Session
    <3>3. QED BY <3>2 DEF rest
  <2>3. Ind(closed)
    BY <1>1, DropSocketInd
  <2>4. QED
    <3> HIDE DEF closed
    <3> QED BY <2>1, <2>2, <2>3, DegradeInd
<1>11. QED BY <1>2, <1>3, <1>4, <1>5, <1>6, <1>7, <1>8, <1>9, <1>10

LEMMA IndInductive == IInv /\ [Next]_vars => IInv'
<1> SUFFICES ASSUME IInv, [Next]_vars PROVE IInv'
  OBVIOUS
<1>1. TypeOK'
  BY TypeInductive DEF IInv
<1>2. Ind(session')
  <2>1. CASE UNCHANGED vars
    BY <2>1, IInvFacts DEF vars
  <2>2. CASE Next
    BY <2>2, WebhookInd, UserInd, PollInd, TimerInd, SignatureInd, NetworkInd DEF Next
  <2>3. QED BY <2>1, <2>2
<1>3. QED BY <1>1, <1>2 DEF IInv

LEMMA NewSessionInd == Ind(NewSession)
  BY DEF NewSession, Ind, SocketGens, LiveHeld, LiveSingle, RefsCurrent, Attempts,
         AttemptsDiffer, Unconfirmed, Awaiting, Identities, Live, Holding, Ended

\* The whole connection discipline of createZoomRtmsController is an invariant.
THEOREM Discipline == Spec => []IInv
<1>1. Init => IInv
  BY NewSessionType, NewSessionInd DEF Init, IInv, TypeOK
<1>2. QED BY <1>1, IndInductive, PTL DEF Spec

\* However webhooks, requests, timers, signatures and sockets interleave, an open
\* socket is the current one of a confirmed session (stopSession, degrade and the
\* overflow of push close every other), for any number of streams and packets.
THEOREM SingleConnection == Spec => []OneConnection
<1>1. IInv => OneConnection
  BY DEF IInv, Ind, LiveHeld, LiveSingle, OneConnection
<1>2. QED BY <1>1, Discipline, PTL

\* A session that reports degraded or is stopped keeps no speaker and no packet
\* digest (the clears of stopSession, degrade and push).
THEOREM NothingRemembered == Spec => []IdentityForgotten
<1>1. IInv => IdentityForgotten
  BY DEF IInv, Ind, Identities, Ended, IdentityForgotten
<1>2. QED BY <1>1, Discipline, PTL

-----------------------------------------------------------------------------
(* A stopped session is inert. *)

\* What a callback may leave of a stopped session: less of its events and sockets.
Inert(s, t) ==
  /\ t.stopped /\ t.state = s.state /\ t.cursor = s.cursor
  /\ Live(t) = {}
  /\ \A i \in 1..Len(t.events) : \E j \in 1..Len(s.events) : t.events[i] = s.events[j]

\* None of its sockets is open: an open one would be current.
LEMMA StoppedHasNoSocket ==
  ASSUME NEW s \in Session, Ind(s), s.stopped PROVE Live(s) = {} /\ \A gen : ~Current(s, gen)
  BY DEF Ind, LiveHeld, Current

LEMMA InertSame ==
  ASSUME NEW s, NEW t, Live(s) = {}, s.stopped, t.stopped, t.state = s.state, t.cursor = s.cursor,
         t.sockets \subseteq s.sockets, t.events = s.events
  PROVE  Inert(s, t)
  BY DEF Inert, Live

LEMMA DegradeStopped ==
  ASSUME NEW s, s.stopped PROVE Degrade(s) = s
  BY DEF Degrade

LEMMA PollInert ==
  ASSUME NEW s \in Session, Live(s) = {}, s.stopped, NEW n \in 0..Len(s.events)
  PROVE  Inert(s, [s EXCEPT !.events = SubSeq(@, n + 1, Len(@))])
<1> DEFINE kept == SubSeq(s.events, n + 1, Len(s.events))
           t    == [s EXCEPT !.events = kept]
<1>1. s.events \in Seq(Event) /\ Len(s.events) \in Nat /\ n \in Nat /\ n <= Len(s.events)
  BY DEF Session
<1>2. \A i \in 1..Len(kept) : \E j \in 1..Len(s.events) : kept[i] = s.events[j]
  <2>1. Len(kept) = Len(s.events) - n /\ \A i \in 1..Len(s.events) - n : kept[i] = s.events[i + n]
    BY <1>1
  <2> HIDE DEF kept
  <2>2. \A i \in 1..Len(s.events) - n : i + n \in 1..Len(s.events)
    BY <1>1
  <2>3. QED BY <2>1, <2>2
<1>3. /\ t.events = kept /\ t.stopped = s.stopped /\ t.state = s.state /\ t.cursor = s.cursor
      /\ t.sockets = s.sockets
  <2> HIDE DEF kept
  <2> QED BY DEF Session
<1>4. Inert(s, t)
  <2> HIDE DEF kept, t
  <2> QED BY <1>2, <1>3 DEF Inert, Live
<1>5. QED BY <1>4

LEMMA StoppedStep ==
  ASSUME IInv, [Next]_vars, session.stopped PROVE Inert(session, session')
<1>1. /\ session \in Session /\ Live(session) = {} /\ \A gen : ~Current(session, gen)
  BY IInvFacts, StoppedHasNoSocket
<1>2. \A k \in session.sockets : k.phase = "closing"
  BY <1>1 DEF Live
<1>3. CASE UNCHANGED vars \/ ArmWindowCloses
  BY <1>1, <1>3, InertSame DEF vars, ArmWindowCloses
<1>4. CASE Webhook
  BY <1>4 DEF Webhook, Started, StartedAmbiguous, StartedWaiting, Unbound, Interrupted, StreamStopped
<1>5. CASE User
  BY <1>5 DEF User, Confirm, Pause, Resume, Stop
<1>6. CASE Poll
  <2>1. PICK n \in 0..Len(session.events) :
          session' = [session EXCEPT !.events = SubSeq(@, n + 1, Len(@))]
    BY <1>6 DEF Poll, GetEvents
  <2>2. QED BY <1>1, <2>1, PollInert
<1>7. CASE ArmTimerFires
  <2> DEFINE fired == [session EXCEPT !.armTimer = FALSE]
  <2>1. session' \in {Degrade(fired), fired}
    BY <1>7 DEF ArmTimerFires
  <2>2. /\ fired.stopped = session.stopped /\ fired.state = session.state /\ fired.cursor = session.cursor
        /\ fired.sockets = session.sockets /\ fired.events = session.events
    BY <1>1 DEF Session
  <2> HIDE DEF fired
  <2>3. session' = fired
    BY <2>1, <2>2, DegradeStopped
  <2>4. QED BY <1>1, <2>2, <2>3, InertSame
<1>8. ASSUME NEW timer \in session.timers, ConfirmationTimerFires(timer) PROVE Inert(session, session')
  <2> DEFINE left == session.timers \ {timer}
             fired == [session EXCEPT !.timers = left, !.pendingPayload = None, !.confirmationTimer = 0]
  <2>1. session' \in {Degrade(fired), fired}
    BY <1>8 DEF ConfirmationTimerFires
  <2>2. /\ fired.stopped = session.stopped /\ fired.state = session.state /\ fired.cursor = session.cursor
        /\ fired.sockets = session.sockets /\ fired.events = session.events
    <3> HIDE DEF left
    <3> QED BY <1>1 DEF Session
  <2> HIDE DEF fired
  <2>3. session' = fired
    BY <2>1, <2>2, DegradeStopped
  <2>4. QED BY <1>1, <2>2, <2>3, InertSame
<1>9. ASSUME NEW attempt \in session.signing, SignSucceeds(attempt) \/ SignFails(attempt)
      PROVE  Inert(session, session')
  <2> DEFINE left == session.signing \ {attempt}
             signed == [session EXCEPT !.signing = left]
  <2>1. session' \in {Degrade(signed), signed}
    BY <1>1, <1>9 DEF SignSucceeds, SignFails
  <2>2. /\ signed.stopped = session.stopped /\ signed.state = session.state /\ signed.cursor = session.cursor
        /\ signed.sockets = session.sockets /\ signed.events = session.events
    <3> HIDE DEF left
    <3> QED BY <1>1 DEF Session
  <2> HIDE DEF signed
  <2>3. session' = signed
    BY <2>1, <2>2, DegradeStopped
  <2>4. QED BY <1>1, <2>2, <2>3, InertSame
<1>10. CASE Network
  <2>1. PICK k \in session.sockets :
          \/ SocketOpens(k) \/ SignalingAccepted(k) \/ MediaAccepted(k)
          \/ \E p \in Packets : Transcript(k, p)
          \/ BadMessage(k) \/ PeerCloses(k) \/ SocketErrors(k) \/ SocketCloses(k)
    BY <1>10 DEF Network
  <2>2. SocketCloses(k)
    BY <1>2, <2>1 DEF SocketOpens, SignalingAccepted, MediaAccepted, Transcript, BadMessage, PeerCloses,
                      SocketErrors
  <2> DEFINE rest == session.sockets \ {k}
             closed == [session EXCEPT !.sockets = rest]
  <2>3. session' = closed
    BY <1>1, <2>2 DEF SocketCloses
  <2>4. /\ closed.stopped = session.stopped /\ closed.state = session.state /\ closed.cursor = session.cursor
        /\ closed.sockets = rest /\ closed.events = session.events
    <3> HIDE DEF rest
    <3> QED BY <1>1 DEF Session
  <2> HIDE DEF closed
  <2>5. QED BY <1>1, <2>3, <2>4, InertSame
<1>11. QED BY <1>3, <1>4, <1>5, <1>6, <1>7, <1>8, <1>9, <1>10 DEF Next, Timer, Signature

\* After stopSession (zoom-rtms-bridge.mjs:140) no timer, late signature or socket event that
\* was under way revives the session, tells the browser anything or leaves a socket open.
THEOREM StoppedStays == Spec => StoppedIsFinal
<1>1. IInv /\ [Next]_vars => [session.stopped => Inert(session, session')]_vars
  BY StoppedStep
<1>2. (session.stopped => Inert(session, session')) =>
        (session.stopped =>
           /\ session'.stopped /\ session'.state = session.state
           /\ session'.cursor = session.cursor
           /\ Live(session') = {}
           /\ \A i \in 1..Len(session'.events) :
                \E j \in 1..Len(session.events) : session'.events[i] = session.events[j])
  BY DEF Inert
<1>3. QED BY <1>1, <1>2, Discipline, PTL DEF Spec, StoppedIsFinal

-----------------------------------------------------------------------------
(* The stream of a session is bound once, by its confirmation. *)

Binding(s, t) == t.bound = s.bound /\ t.streamKey = s.streamKey

LEMMA BindingChain ==
  ASSUME NEW s, NEW t, NEW u, Binding(s, t), Binding(t, u) PROVE Binding(s, u)
  BY DEF Binding

LEMMA PushBinding ==
  ASSUME NEW s \in Session, Ind(s), NEW v \in EventValue PROVE Binding(s, Push(s, v))
  BY IndOwned, PushCases DEF Same, Overflowed, Calm, Kept, Binding

LEMMA PushStateBinding ==
  ASSUME NEW s \in Session, Ind(s), NEW st \in States PROVE Binding(s, PushState(s, st))
  BY IndOwned, PushStateCases DEF Same, Overflowed, Calm, Kept, Binding

LEMMA DegradeBinding ==
  ASSUME NEW s \in Session, Ind(s) PROVE Binding(s, Degrade(s))
<1>1. CASE s.stopped
  BY <1>1 DEF Degrade, Binding
<1>2. CASE ~s.stopped
  BY <1>2, DegradeInd DEF Calm, Kept, Binding
<1>3. QED BY <1>1, <1>2

LEMMA StopSessionBinding ==
  ASSUME NEW s \in Session, Ind(s), NEW emitState \in BOOLEAN PROVE Binding(s, StopSession(s, emitState))
<1>1. CASE s.stopped
  BY <1>1 DEF StopSession, Binding
<1>2. CASE ~s.stopped
  <2>1. s.generation \in Nat /\ Owned(s, s.generation)
    BY IndOwned
  <2> DEFINE t == StopSession(s, emitState)
  <2>2. Calm(s, t, s.generation)
    BY <1>2, <2>1, StopSessionCases
  <2> HIDE DEF t
  <2>3. Binding(s, t)
    BY <2>2 DEF Calm, Kept, Binding
  <2>4. QED BY <2>3 DEF t
<1>3. QED BY <1>1, <1>2

\* connect announces before it stores the stream: only the last step is its own.
LEMMA ConnectBinding ==
  ASSUME NEW s \in Session, NEW stream \in Streams, s.generation \in Nat, Owned(s, s.generation)
  PROVE  /\ Connect(s, stream).bound = s.bound
         /\ Connect(s, stream).streamKey =
              IF s.stopped \/ s.state \notin {"waiting", "degraded"} THEN s.streamKey ELSE stream
<1> DEFINE gen == s.generation + 1
           g == [s EXCEPT !.generation = gen]
           p == PushState(g, "connecting")
           attempts == p.signing \cup {[gen |-> gen, stream |-> stream]}
           t == [p EXCEPT !.streamKey = stream, !.signing = attempts]
<1>1. gen \in Nat /\ s.generation \in Nat
  OBVIOUS
<1>2. g \in Session /\ g.bound = s.bound /\ Owned(g, s.generation)
  <2>1. g \in Session
    <3> HIDE DEF gen
    <3> QED BY <1>1 DEF Session
  <2>2. g.bound = s.bound /\ g.sockets = s.sockets /\ g.signalingSocket = s.signalingSocket
        /\ g.mediaSocket = s.mediaSocket
    <3> HIDE DEF gen
    <3> QED BY DEF Session
  <2>3. Owned(g, s.generation)
    <3> HIDE DEF g
    <3> QED BY <2>2 DEF Owned, Holds
  <2>4. QED BY <2>1, <2>2, <2>3
<1>3. p \in Session /\ p.bound = s.bound
  <2> HIDE DEF g
  <2>1. p \in Session
    BY <1>2, PushStateType, StateNames
  <2>2. p.bound = g.bound
    BY <1>1, <1>2, PushStateCases, StateNames DEF Same, Overflowed, Calm, Kept
  <2>3. QED BY <1>2, <2>1, <2>2
<1>4. t.bound = p.bound /\ t.streamKey = stream
  <2> HIDE DEF p, attempts
  <2> QED BY <1>3 DEF Session
<1>5. Connect(s, stream) = IF s.stopped \/ s.state \notin {"waiting", "degraded"} THEN s ELSE t
  BY DEF Connect
<1>6. QED
  <2> HIDE DEF t, p
  <2> QED BY <1>3, <1>4, <1>5

LEMMA RephaseBinding ==
  ASSUME NEW s \in Session, NEW k, NEW phase PROVE Binding(s, Rephase(s, k, phase))
<1> DEFINE socks == (s.sockets \ {k}) \cup {[k EXCEPT !.phase = phase]}
<1>1. Rephase(s, k, phase) = [s EXCEPT !.sockets = socks]
  BY DEF Rephase
<1> HIDE DEF socks
<1>2. QED BY <1>1 DEF Session, Binding

LEMMA WebhookBinding ==
  ASSUME IInv, Webhook PROVE Binding(session, session')
<1>1. session \in Session /\ Ind(session)
  BY IInvFacts
<1>2. PICK stream \in Streams :
        \/ Started(stream)
        \/ \E hasUrl \in BOOLEAN : Interrupted(stream, hasUrl)
        \/ StreamStopped(stream)
  BY DEF Webhook
<1>3. CASE StartedAmbiguous(stream)
  BY <1>1, <1>3, DegradeBinding DEF StartedAmbiguous
<1>4. CASE StartedWaiting(stream)
  <2> DEFINE asked == [session EXCEPT !.pendingPayload = stream]
             told  == PushState(asked, "awaiting-confirmation")
             timer == session.cursor + 1
             running == told.timers \cup {timer}
             t == [told EXCEPT !.confirmationTimer = timer, !.timers = running]
  <2>1. asked \in Session /\ Same(session, asked) /\ asked.state = session.state
    BY <1>1 DEF Session, Same, Kept
  <2>2. Ind(asked) /\ Binding(session, asked)
    <3> HIDE DEF asked
    <3> QED BY <1>1, <2>1, SameInd DEF Same, Kept, Binding
  <2>3. told \in Session /\ Binding(asked, told)
    <3> HIDE DEF asked
    <3> QED BY <2>1, <2>2, PushStateBinding, PushStateType, StateNames
  <2>4. Binding(told, t)
    <3> HIDE DEF told, timer, running
    <3> QED BY <2>3 DEF Session, Binding
  <2>5. session' = t
    BY <1>4 DEF StartedWaiting
  <2>6. QED
    <3> HIDE DEF asked, told, t
    <3> QED BY <2>2, <2>3, <2>4, <2>5 DEF Binding
<1>5. ASSUME NEW hasUrl \in BOOLEAN, Interrupted(stream, hasUrl) PROVE Binding(session, session')
  <2> DEFINE d == Degrade(session)
  <2>1. session.streamKey = stream /\ session' = IF hasUrl THEN Connect(d, stream) ELSE d
    BY <1>5 DEF Interrupted
  <2>2. d \in Session /\ Ind(d) /\ Binding(session, d)
    BY <1>1, DegradeInd, DegradeType, DegradeBinding
  <2> HIDE DEF d
  <2>3. d.generation \in Nat /\ Owned(d, d.generation)
    BY <2>2, IndOwned
  <2>4. Connect(d, stream).bound = d.bound /\ Connect(d, stream).streamKey \in {d.streamKey, stream}
    BY <2>2, <2>3, ConnectBinding
  <2>5. QED BY <2>1, <2>2, <2>4 DEF Binding
<1>6. CASE StreamStopped(stream)
  BY <1>1, <1>6, StopSessionBinding DEF StreamStopped
<1>7. QED BY <1>2, <1>3, <1>4, <1>5, <1>6 DEF Started

\* Confirm binds the stream that was announced to a session that had none.
Confirmation(s, t) ==
  /\ ~s.bound /\ t.bound
  /\ s.state = "awaiting-confirmation"
  /\ t.streamKey = s.pendingPayload

LEMMA UserBinding ==
  ASSUME IInv, User PROVE Binding(session, session') \/ Confirmation(session, session')
<1>1. session \in Session /\ Ind(session)
  BY IInvFacts
<1>2. CASE Confirm
  <2> DEFINE cleared == ClearTimers(session)
             bound == [cleared EXCEPT !.bound = TRUE, !.state = "waiting"]
  <2>1. cleared \in Session /\ Same(session, cleared)
    BY <1>1, ClearTimersType, ClearTimersSame
  <2>2. bound \in Session
    <3> HIDE DEF cleared
    <3> QED BY <2>1, StateNames DEF Session
  <2>3. /\ bound.bound /\ bound.state = "waiting" /\ bound.stopped = cleared.stopped
        /\ bound.generation = cleared.generation /\ bound.sockets = cleared.sockets
        /\ bound.signalingSocket = cleared.signalingSocket
        /\ bound.mediaSocket = cleared.mediaSocket
    <3> HIDE DEF cleared
    <3> QED BY <2>1 DEF Session
  <2>4. /\ ~session.stopped /\ session.state = "awaiting-confirmation"
        /\ session.pendingPayload # None /\ session' = Connect(bound, session.pendingPayload)
    BY <1>2 DEF Confirm
  <2>5. session.pendingPayload \in Streams
    <3>1. session.pendingPayload \in Streams \cup {None}
      BY <1>1 DEF Session
    <3>2. QED BY <2>4, <3>1
  <2>6. ~session.bound
    BY <1>1, <2>4 DEF Ind, Awaiting
  <2>7. session.generation \in Nat /\ Owned(session, session.generation)
    BY <1>1, IndOwned
  <2>8. bound.generation \in Nat /\ Owned(bound, bound.generation) /\ ~bound.stopped
    <3> HIDE DEF cleared, bound
    <3> QED BY <2>1, <2>3, <2>4, <2>7 DEF Same, Owned, Holds
  <2>9. session'.bound = bound.bound /\ session'.streamKey = session.pendingPayload
    <3> HIDE DEF cleared, bound
    <3> QED BY <2>2, <2>3, <2>4, <2>5, <2>8, ConnectBinding
  <2>10. QED BY <2>3, <2>4, <2>6, <2>9 DEF Confirmation
<1>3. CASE Pause
  <2> DEFINE paused == [session EXCEPT !.stateBeforePause = session.state, !.paused = TRUE]
  <2>1. paused \in Session
    <3>1. session.state \in States
      BY <1>1 DEF Session
    <3>2. QED BY <1>1, <3>1 DEF Session
  <2>2. Same(session, paused) /\ paused.state = session.state
    BY <1>1 DEF Session, Same, Kept
  <2>3. session' = PushState(paused, "paused")
    BY <1>3 DEF Pause
  <2> HIDE DEF paused
  <2>4. Ind(paused) /\ Binding(session, paused)
    BY <1>1, <2>2, SameInd DEF Same, Kept, Binding
  <2>5. Binding(paused, session')
    BY <2>1, <2>3, <2>4, PushStateBinding, StateNames
  <2>6. QED BY <2>4, <2>5 DEF Binding
<1>4. CASE Resume
  <2> DEFINE resumed == [session EXCEPT !.paused = FALSE]
             st == IF session.stateBeforePause \in {"active", "connecting"}
                   THEN session.stateBeforePause ELSE "waiting"
  <2>1. resumed \in Session /\ st \in States
    BY <1>1, StateNames DEF Session
  <2>2. Same(session, resumed) /\ resumed.state = session.state
    BY <1>1 DEF Session, Same, Kept
  <2>3. session' = PushState(resumed, st)
    BY <1>4 DEF Resume
  <2> HIDE DEF resumed, st
  <2>4. Ind(resumed) /\ Binding(session, resumed)
    BY <1>1, <2>2, SameInd DEF Same, Kept, Binding
  <2>5. Binding(resumed, session')
    BY <2>1, <2>3, <2>4, PushStateBinding
  <2>6. QED BY <2>4, <2>5 DEF Binding
<1>5. CASE Stop
  BY <1>1, <1>5, StopSessionBinding DEF Stop
<1>6. QED BY <1>2, <1>3, <1>4, <1>5 DEF User

LEMMA PollBinding ==
  ASSUME IInv, Poll PROVE Binding(session, session')
<1>1. session \in Session
  BY IInvFacts
<1>2. PICK n \in 0..Len(session.events) :
        session' = [session EXCEPT !.events = SubSeq(@, n + 1, Len(@))]
  BY DEF Poll, GetEvents
<1> DEFINE kept == SubSeq(session.events, n + 1, Len(session.events))
<1>3. session' = [session EXCEPT !.events = kept]
  BY <1>2
<1> HIDE DEF kept
<1>4. QED BY <1>1, <1>3 DEF Session, Binding

LEMMA TimerBinding ==
  ASSUME IInv, Timer PROVE Binding(session, session')
<1>1. session \in Session /\ Ind(session)
  BY IInvFacts
<1>2. CASE ArmWindowCloses
  BY <1>2 DEF ArmWindowCloses, Binding
<1>3. CASE ArmTimerFires
  <2> DEFINE fired == [session EXCEPT !.armTimer = FALSE]
  <2>1. fired \in Session /\ Same(session, fired) /\ fired.state = session.state
    BY <1>1 DEF Session, Same, Kept
  <2>2. session' \in {Degrade(fired), fired}
    BY <1>3 DEF ArmTimerFires
  <2> HIDE DEF fired
  <2>3. Ind(fired) /\ Binding(session, fired)
    BY <1>1, <2>1, SameInd DEF Same, Kept, Binding
  <2>4. Binding(fired, Degrade(fired))
    BY <2>1, <2>3, DegradeBinding
  <2>5. QED BY <2>2, <2>3, <2>4 DEF Binding
<1>4. ASSUME NEW timer \in session.timers, ConfirmationTimerFires(timer)
      PROVE  Binding(session, session')
  <2> DEFINE left == session.timers \ {timer}
             fired == [session EXCEPT !.timers = left, !.pendingPayload = None,
                                      !.confirmationTimer = 0]
  <2>1. fired \in Session /\ Same(session, fired) /\ fired.state = session.state
    <3>1. left \in SUBSET Nat /\ None \in Streams \cup {None}
      BY <1>1 DEF Session
    <3> HIDE DEF left
    <3>2. fired \in Session
      BY <1>1, <3>1 DEF Session
    <3>3. Same(session, fired) /\ fired.state = session.state
      BY <1>1 DEF Session, Same, Kept
    <3>4. QED BY <3>2, <3>3
  <2>2. session' \in {Degrade(fired), fired}
    BY <1>4 DEF ConfirmationTimerFires
  <2> HIDE DEF fired
  <2>3. Ind(fired) /\ Binding(session, fired)
    BY <1>1, <2>1, SameInd DEF Same, Kept, Binding
  <2>4. Binding(fired, Degrade(fired))
    BY <2>1, <2>3, DegradeBinding
  <2>5. QED BY <2>2, <2>3, <2>4 DEF Binding
<1>5. QED BY <1>2, <1>3, <1>4 DEF Timer

LEMMA SignatureBinding ==
  ASSUME IInv, Signature PROVE Binding(session, session')
<1>1. session \in Session /\ Ind(session)
  BY IInvFacts
<1>2. PICK attempt \in session.signing : SignSucceeds(attempt) \/ SignFails(attempt)
  BY DEF Signature
<1> DEFINE signed == [session EXCEPT !.signing = @ \ {attempt}]
           socket == [kind |-> "signaling", gen |-> attempt.gen, stream |-> attempt.stream,
                      phase |-> "connecting"]
           socks == signed.sockets \cup {socket}
           opened == [signed EXCEPT !.sockets = socks, !.signalingSocket = attempt.gen]
<1>3. signed \in Session /\ Ind(signed)
  BY <1>1, SignedInd
<1>4. Binding(session, signed)
  BY <1>1 DEF Session, Binding
<1>5. session' \in {signed, opened, Degrade(signed)}
  BY <1>2 DEF SignSucceeds, SignFails
<1> HIDE DEF signed, socks
<1>6. Binding(signed, opened)
  BY <1>3 DEF Session, Binding
<1> HIDE DEF opened
<1>7. Binding(signed, Degrade(signed))
  BY <1>3, DegradeBinding
<1>8. QED BY <1>4, <1>5, <1>6, <1>7 DEF Binding

LEMMA TranscriptUtteranceBinding ==
  ASSUME NEW s \in Session, Ind(s), ~Ended(s), NEW p \in Packets
  PROVE  Binding(s, TranscriptUtterance(s, p))
<1> DEFINE named == IF Known(s.aliases, p) THEN s.aliases ELSE Append(s.aliases, SpeakerOf[p])
           seen == Remember(s.seenPackets, p)
           noted == [s EXCEPT !.seenPackets = seen, !.aliases = named]
           value == [type |-> "utterance", packet |-> p, alias |-> AliasOf(named, p)]
<1>1. noted \in Session /\ value \in EventValue
  BY UtteranceParts
<1>2. /\ Kept(s, noted) /\ noted.stopped = s.stopped /\ noted.generation = s.generation
      /\ noted.state = s.state /\ noted.sockets = s.sockets
      /\ noted.signalingSocket = s.signalingSocket /\ noted.mediaSocket = s.mediaSocket
  <2> HIDE DEF named, seen
  <2> QED BY DEF Session, Kept
<1>3. TranscriptUtterance(s, p) \in {s, Degrade(s), noted, Push(noted, value)}
  BY DEF TranscriptUtterance
<1> HIDE DEF noted, value
<1>4. Ind(noted) /\ Binding(s, noted)
  BY <1>2, NotedInd DEF Kept, Binding
<1>5. Binding(noted, Push(noted, value)) /\ Binding(s, Degrade(s))
  BY <1>1, <1>4, PushBinding, DegradeBinding
<1>6. QED BY <1>3, <1>4, <1>5 DEF Binding

LEMMA NetworkBinding ==
  ASSUME IInv, Network PROVE Binding(session, session')
<1>1. session \in Session /\ Ind(session)
  BY IInvFacts
<1>2. PICK k \in session.sockets :
        \/ SocketOpens(k) \/ SignalingAccepted(k) \/ MediaAccepted(k)
        \/ \E p \in Packets : Transcript(k, p)
        \/ BadMessage(k) \/ PeerCloses(k) \/ SocketErrors(k) \/ SocketCloses(k)
  BY DEF Network
<1>3. CASE SocketOpens(k) \/ PeerCloses(k)
  BY <1>1, <1>3, RephaseBinding DEF SocketOpens, PeerCloses
<1>4. CASE SignalingAccepted(k)
  <2> DEFINE answered == Rephase(session, k, "answered")
             media == [kind |-> "media", gen |-> k.gen, stream |-> k.stream,
                       phase |-> "connecting"]
             socks == answered.sockets \cup {media}
             t == [answered EXCEPT !.sockets = socks, !.mediaSocket = k.gen]
  <2>1. k.phase # "closing" /\ session' \in {answered, t}
    BY <1>4 DEF SignalingAccepted
  <2>2. answered \in Session /\ Binding(session, answered)
    BY <1>1, <2>1, RephaseType, RephaseBinding
  <2> HIDE DEF answered, socks
  <2>3. Binding(answered, t)
    BY <2>2 DEF Session, Binding
  <2> HIDE DEF t
  <2>4. QED BY <2>1, <2>2, <2>3 DEF Binding
<1>5. CASE MediaAccepted(k)
  <2> DEFINE streaming == Rephase(session, k, "streaming")
  <2>1. /\ k.phase = "open"
        /\ session' \in {streaming, Degrade(streaming), PushState(streaming, "active")}
    BY <1>5 DEF MediaAccepted
  <2>2. streaming \in Session /\ Ind(streaming) /\ Binding(session, streaming)
    BY <1>1, <2>1, RephaseType, RephaseInd, RephaseBinding
  <2> HIDE DEF streaming
  <2>3. Binding(streaming, Degrade(streaming)) /\ Binding(streaming, PushState(streaming, "active"))
    BY <2>2, DegradeBinding, PushStateBinding, StateNames
  <2>4. QED BY <2>1, <2>2, <2>3 DEF Binding
<1>6. ASSUME NEW p \in Packets, Transcript(k, p) PROVE Binding(session, session')
  <2>1. k.phase = "streaming" /\ session' \in {TranscriptUtterance(session, p), session}
    BY <1>6 DEF Transcript
  <2>2. Binding(session, TranscriptUtterance(session, p))
    BY <1>1, <2>1, LiveRuns, TranscriptUtteranceBinding
  <2>3. QED BY <2>1, <2>2 DEF Binding
<1>7. CASE BadMessage(k)
  BY <1>1, <1>7, DegradeBinding DEF BadMessage, Binding
<1>8. CASE SocketErrors(k)
  <2> DEFINE closing == Rephase(session, k, "closing")
  <2>1. k.phase # "closing" /\ session' \in {closing, Degrade(closing)}
    BY <1>8 DEF SocketErrors
  <2>2. closing \in Session /\ Ind(closing) /\ Binding(session, closing)
    BY <1>1, <2>1, RephaseType, RephaseInd, RephaseBinding
  <2> HIDE DEF closing
  <2>3. Binding(closing, Degrade(closing))
    BY <2>2, DegradeBinding
  <2>4. QED BY <2>1, <2>2, <2>3 DEF Binding
<1>9. CASE SocketCloses(k)
  <2> DEFINE rest == session.sockets \ {k}
             closed == [session EXCEPT !.sockets = rest]
  <2>1. session' \in {closed, Degrade(closed)}
    BY <1>9 DEF SocketCloses
  <2>2. closed \in Session /\ Binding(session, closed)
    <3>1. rest \in SUBSET Socket
      BY <1>1 DEF Session
    <3> HIDE DEF rest
    <3>2. QED BY <1>1, <3>1 DEF Session, Binding
  <2>3. Ind(closed)
    BY <1>1, DropSocketInd
  <2> HIDE DEF closed
  <2>4. Binding(closed, Degrade(closed))
    BY <2>2, <2>3, DegradeBinding
  <2>5. QED BY <2>1, <2>2, <2>4 DEF Binding
<1>10. QED BY <1>2, <1>3, <1>4, <1>5, <1>6, <1>7, <1>8, <1>9

LEMMA StepBinding ==
  ASSUME IInv, [Next]_vars PROVE Binding(session, session') \/ Confirmation(session, session')
<1>1. CASE UNCHANGED vars
  BY <1>1 DEF vars, Binding
<1>2. CASE Next
  BY <1>2, WebhookBinding, UserBinding, PollBinding, TimerBinding, SignatureBinding, NetworkBinding DEF Next
<1>3. QED BY <1>1, <1>2

\* Whatever an interruption, a late webhook or a second announcement names, connect stores
\* the stream of a session (zoom-rtms-bridge.mjs:267) only once: the one the user confirmed.
THEOREM OnlyTheConfirmed == Spec => ConfirmedStreamOnly
<1>1. IInv /\ [Next]_vars =>
        (session'.streamKey # session.streamKey \/ session'.bound # session.bound =>
           /\ ~session.bound /\ session'.bound
           /\ session.state = "awaiting-confirmation"
           /\ session'.streamKey = session.pendingPayload)
  BY StepBinding DEF Binding, Confirmation
<1>2. QED BY <1>1, Discipline, PTL DEF Spec, ConfirmedStreamOnly

-----------------------------------------------------------------------------
(* The ring of events, for a client that has heard all up to a cursor *)

Notice(event) == event.value.type = "state" /\ event.value.state = "degraded"

\* What a session that Zoom or a failure ended says last.
Ends(event) == event.value.type = "state" /\ event.value.state \in {"stopped", "degraded"}

\* The ring ends at the cursor of the session without a gap.  It begins where the client is, or
\* before, or with the notice of a loss; and the end of a session is still in it.
Follows(s, c) ==
  /\ c \in Nat /\ c <= s.cursor
  /\ \A i \in 1..Len(s.events) : s.events[i].cursor + Len(s.events) = s.cursor + i
  /\ s.cursor <= c + Len(s.events) \/ (s.events # <<>> /\ Notice(s.events[1]))
  /\ s.stopped => s.events # <<>> /\ Ends(s.events[Len(s.events)]) /\ c < s.cursor

SameFeed(s, t) == t.cursor = s.cursor /\ t.events = s.events /\ t.stopped = s.stopped

LEMMA SameFollows ==
  ASSUME NEW s, NEW t, NEW c, Follows(s, c), SameFeed(s, t) PROVE Follows(t, c)
  BY DEF Follows, SameFeed

LEMMA SameFeedChain ==
  ASSUME NEW s, NEW t, NEW u, SameFeed(s, t), SameFeed(t, u) PROVE SameFeed(s, u)
  BY DEF SameFeed

LEMMA EventsTyped ==
  ASSUME NEW s \in Session
  PROVE  /\ s.cursor \in Nat /\ s.events \in Seq(Event) /\ Len(s.events) \in Nat
         /\ (s.events # <<>> => Len(s.events) \in 1..Len(s.events) /\ 1 \in 1..Len(s.events))
         /\ \A i \in 1..Len(s.events) : s.events[i] \in Event /\ s.events[i].cursor \in Nat
<1>1. s.cursor \in Nat /\ s.events \in Seq(Event)
  BY DEF Session
<1>2. Len(s.events) \in Nat /\ (s.events # <<>> => Len(s.events) # 0)
  BY <1>1, EmptySeq, LenProperties
<1>3. \A i \in 1..Len(s.events) : s.events[i] \in Event
  BY <1>1, ElementOfSeq
<1>4. QED BY <1>1, <1>2, <1>3 DEF Event

LEMMA Append1Feed ==
  ASSUME NEW s \in Session, NEW v \in EventValue
  PROVE  LET t == Append1(s, v)
             e == [cursor |-> s.cursor + 1, value |-> v]
         IN /\ t.cursor = s.cursor + 1 /\ t.stopped = s.stopped /\ t.events = Append(s.events, e)
            /\ e \in Event /\ Len(t.events) = Len(s.events) + 1 /\ t.events[Len(t.events)] = e
            /\ \A i \in 1..Len(s.events) : t.events[i] = s.events[i]
<1> DEFINE e == [cursor |-> s.cursor + 1, value |-> v]
           more == Append(s.events, e)
<1>1. s.cursor \in Nat /\ s.events \in Seq(Event)
  BY EventsTyped
<1>2. e \in Event
  BY <1>1 DEF Event
<1>3. Len(more) = Len(s.events) + 1 /\ more[Len(s.events) + 1] = e
      /\ \A i \in 1..Len(s.events) : more[i] = s.events[i]
  BY <1>1, <1>2, AppendProperties
<1>4. Append1(s, v) = [s EXCEPT !.cursor = s.cursor + 1, !.events = more]
  BY DEF Append1
<1> HIDE DEF more
<1>5. Append1(s, v).cursor = s.cursor + 1 /\ Append1(s, v).stopped = s.stopped /\ Append1(s, v).events = more
  BY <1>4 DEF Session
<1>6. QED BY <1>2, <1>3, <1>5 DEF more

\* What a push leaves of a session that runs: the ring ends with the event, or the loss.
Pushed(s, t, v) ==
  /\ t.cursor = s.cursor + 1 /\ ~t.stopped /\ t.events # <<>>
  /\ t.events[Len(t.events)].value \in {v, StateEvent("degraded")}

LEMMA Append1Follows ==
  ASSUME NEW s \in Session, NEW c, Follows(s, c), ~s.stopped, NEW v \in EventValue
  PROVE  Follows(Append1(s, v), c) /\ Pushed(s, Append1(s, v), v)
<1> DEFINE t == Append1(s, v)
           e == [cursor |-> s.cursor + 1, value |-> v]
<1>1. /\ t.cursor = s.cursor + 1 /\ t.stopped = s.stopped
      /\ Len(t.events) = Len(s.events) + 1 /\ t.events[Len(t.events)] = e
      /\ \A i \in 1..Len(s.events) : t.events[i] = s.events[i]
  BY Append1Feed
<1>2. /\ s.cursor \in Nat /\ Len(s.events) \in Nat /\ (s.events # <<>> => 1 \in 1..Len(s.events))
      /\ \A i \in 1..Len(s.events) : s.events[i].cursor \in Nat
  BY EventsTyped
<1>3. t.events # <<>>
  BY <1>1, <1>2, EmptySeq
<1>4. e.cursor = s.cursor + 1 /\ e.value = v
  OBVIOUS
<1> HIDE DEF t, e
<1>5. \A i \in 1..Len(t.events) : t.events[i].cursor + Len(t.events) = t.cursor + i
  <2> TAKE i \in 1..Len(t.events)
  <2>1. CASE i \in 1..Len(s.events)
    <3>1. \A j \in 1..Len(s.events) : s.events[j].cursor + Len(s.events) = s.cursor + j
      BY DEF Follows
    <3>2. s.events[i].cursor + Len(s.events) = s.cursor + i /\ t.events[i] = s.events[i]
      BY <1>1, <2>1, <3>1
    <3>3. s.events[i].cursor \in Nat /\ i \in Nat /\ Len(s.events) \in Nat /\ s.cursor \in Nat
      BY <1>2, <2>1
    <3>5. s.events[i].cursor + Len(s.events) = s.cursor + i
      BY <3>2
    <3> DEFINE a == s.events[i].cursor
               n == Len(s.events)
               b == s.cursor
    <3>4. a \in Nat /\ n \in Nat /\ b \in Nat /\ i \in Nat /\ a + n = b + i
      BY <3>3, <3>5
    <3> HIDE DEF a, n, b
    <3>8. a + (n + 1) = (b + 1) + i
      BY <3>4
    <3>6. t.events[i].cursor = a /\ Len(t.events) = n + 1 /\ t.cursor = b + 1
      BY <1>1, <3>2 DEF a, n, b
    <3>7. QED BY <3>6, <3>8
  <2>2. CASE i = Len(s.events) + 1
    BY <1>1, <1>2, <1>4, <2>2
  <2>3. QED BY <1>1, <1>2, <2>1, <2>2
<1>6. t.cursor <= c + Len(t.events) \/ Notice(t.events[1])
  BY <1>1, <1>2 DEF Follows
<1>7. c \in Nat /\ c <= t.cursor
  BY <1>1, <1>2 DEF Follows
<1>8. Follows(t, c) /\ Pushed(s, t, v)
  BY <1>1, <1>3, <1>4, <1>5, <1>6, <1>7 DEF Follows, Pushed
<1>9. QED BY <1>8 DEF t

LEMMA ReleaseFeed ==
  ASSUME NEW s \in Session PROVE SameFeed(s, Release(s))
<1> DEFINE closed == {ClosedIfHeld(s, k) : k \in s.sockets}
<1>1. Release(s) = [s EXCEPT !.sockets = closed, !.mediaSocket = 0, !.signalingSocket = 0,
                             !.aliases = <<>>, !.seenPackets = <<>>]
  BY DEF Release
<1> HIDE DEF closed
<1>2. QED BY <1>1 DEF Session, SameFeed

LEMMA ClearTimersFeed ==
  ASSUME NEW s \in Session PROVE SameFeed(s, ClearTimers(s))
<1> DEFINE left == s.timers \ {s.confirmationTimer}
<1>1. ClearTimers(s) = [s EXCEPT !.armTimer = FALSE, !.timers = left,
                                 !.confirmationTimer = 0, !.pendingPayload = None]
  BY DEF ClearTimers
<1> HIDE DEF left
<1>2. QED BY <1>1 DEF Session, SameFeed

LEMMA OverflowFollows ==
  ASSUME NEW s \in Session, NEW c, Follows(s, c), ~s.stopped, NEW v
  PROVE  Follows(Overflow(s), c) /\ Pushed(s, Overflow(s), v)
<1> DEFINE r == Release(s)
           o == [r EXCEPT !.events = <<>>, !.state = "degraded", !.generation = @ + 1]
           t == Append1(o, StateEvent("degraded"))
           e == [cursor |-> o.cursor + 1, value |-> StateEvent("degraded")]
<1>1. r \in Session /\ r.cursor = s.cursor /\ r.stopped = s.stopped
  BY ReleaseType, ReleaseFeed DEF SameFeed
<1>2. o \in Session /\ o.cursor = s.cursor /\ o.stopped = s.stopped /\ o.events = <<>>
  <2> HIDE DEF r
  <2>1. r.generation + 1 \in Nat
    BY <1>1 DEF Session
  <2>2. o \in Session
    BY <1>1, <2>1, EmptySeqs, StateNames DEF Session
  <2>3. o.cursor = r.cursor /\ o.stopped = r.stopped /\ o.events = <<>>
    BY <1>1 DEF Session
  <2>4. QED BY <1>1, <2>2, <2>3
<1> HIDE DEF o
<1>0. StateEvent("degraded") \in EventValue /\ Len(<<>>) = 0
  BY StateEventType, StateNames, EmptySeq
<1>3. t.cursor = s.cursor + 1 /\ t.stopped = s.stopped /\ t.events = Append(<<>>, e)
      /\ Len(t.events) = Len(o.events) + 1 /\ t.events[Len(t.events)] = e
  <2>1. /\ t.cursor = o.cursor + 1 /\ t.stopped = o.stopped /\ t.events = Append(o.events, e)
        /\ Len(t.events) = Len(o.events) + 1 /\ t.events[Len(t.events)] = e
    BY <1>0, <1>2, Append1Feed
  <2> HIDE DEF t, e
  <2>2. QED BY <1>2, <2>1
<1>4. Len(t.events) = 1 /\ t.events # <<>>
  <2> HIDE DEF t, e
  <2>1. Len(t.events) = 1
    BY <1>0, <1>2, <1>3
  <2>2. QED BY <1>0, <2>1
<1>5. e.cursor = s.cursor + 1 /\ e.value = StateEvent("degraded") /\ Notice(e)
  BY <1>2 DEF Notice, StateEvent
<1>6. s.cursor \in Nat /\ c \in Nat /\ c <= s.cursor
  BY EventsTyped DEF Follows
<1> HIDE DEF t, e
<1>7. Follows(t, c) /\ Pushed(s, t, v)
  BY <1>3, <1>4, <1>5, <1>6 DEF Follows, Pushed
<1>8. Overflow(s) = t
  BY DEF Overflow, t, o
<1>9. QED BY <1>7, <1>8

LEMMA PushFollows ==
  ASSUME NEW s \in Session, NEW c, Follows(s, c), NEW v \in EventValue
  PROVE  Follows(Push(s, v), c) /\ (~s.stopped => Pushed(s, Push(s, v), v))
  BY Append1Follows, OverflowFollows DEF Push

LEMMA PushStateFollows ==
  ASSUME NEW s \in Session, NEW c, Follows(s, c), NEW st \in States
  PROVE  Follows(PushState(s, st), c) /\ (~s.stopped => Pushed(s, PushState(s, st), StateEvent(st)))
<1> DEFINE t == [s EXCEPT !.state = st]
<1>1. t \in Session /\ SameFeed(s, t)
  BY DEF Session, SameFeed
<1>2. PushState(s, st) = Push(t, StateEvent(st))
  BY DEF PushState
<1> HIDE DEF t
<1>3. Follows(t, c)
  BY <1>1, SameFollows
<1>4. QED BY <1>1, <1>2, <1>3, PushFollows, StateEventType DEF SameFeed, Pushed


LEMMA DegradeFollows ==
  ASSUME NEW s \in Session, NEW c, Follows(s, c) PROVE Follows(Degrade(s), c)
<1> DEFINE r == Release(ClearTimers(s))
           p == PushState(r, "degraded")
           d == [p EXCEPT !.generation = @ + 1]
<1>1. r \in Session /\ SameFeed(s, r)
  <2>1. ClearTimers(s) \in Session /\ SameFeed(s, ClearTimers(s))
    BY ClearTimersType, ClearTimersFeed
  <2>2. r \in Session /\ SameFeed(ClearTimers(s), r)
    BY <2>1, ReleaseType, ReleaseFeed
  <2>3. QED BY <2>1, <2>2, SameFeedChain
<1>2. Degrade(s) = IF s.stopped THEN s ELSE d
  BY DEF Degrade
<1> HIDE DEF r
<1>3. p \in Session /\ Follows(p, c)
  BY <1>1, SameFollows, PushStateFollows, PushStateType, StateNames
<1> HIDE DEF p
<1>4. SameFeed(p, d)
  BY <1>3 DEF Session, SameFeed
<1> HIDE DEF d
<1>5. Follows(d, c)
  BY <1>3, <1>4, SameFollows
<1>6. QED BY <1>2, <1>5

LEMMA StopSessionFollows ==
  ASSUME NEW s \in Session, NEW c, Follows(s, c) PROVE Follows(StopSession(s, TRUE), c)
<1> DEFINE n == Release(ClearTimers(s))
           r == [n EXCEPT !.state = "stopped", !.generation = @ + 1]
           t == PushState(r, "stopped")
           u == [t EXCEPT !.stopped = TRUE]
<1>1. n \in Session /\ SameFeed(s, n)
  <2>1. ClearTimers(s) \in Session /\ SameFeed(s, ClearTimers(s))
    BY ClearTimersType, ClearTimersFeed
  <2>2. n \in Session /\ SameFeed(ClearTimers(s), n)
    BY <2>1, ReleaseType, ReleaseFeed
  <2>3. QED BY <2>1, <2>2, SameFeedChain
<1>2. StopSession(s, TRUE) = IF s.stopped THEN s ELSE u
  BY DEF StopSession
<1> HIDE DEF n
<1>3. r \in Session /\ SameFeed(n, r)
  <2>1. n.generation + 1 \in Nat
    BY <1>1 DEF Session
  <2>2. r \in Session
    BY <1>1, <2>1, StateNames DEF Session
  <2>3. SameFeed(n, r)
    BY <1>1 DEF Session, SameFeed
  <2>4. QED BY <2>2, <2>3
<1> HIDE DEF r
<1>4. Follows(r, c) /\ r.stopped = s.stopped
  BY <1>1, <1>3, SameFollows DEF SameFeed
<1>5. t \in Session /\ Follows(t, c) /\ (~r.stopped => Pushed(r, t, StateEvent("stopped")))
  BY <1>3, <1>4, PushStateFollows, PushStateType, StateNames
<1> HIDE DEF t
<1>6. u.cursor = t.cursor /\ u.events = t.events
  BY <1>5 DEF Session
<1> HIDE DEF u
<1>7. ASSUME ~s.stopped PROVE Follows(u, c)
  <2>1. t.events # <<>> /\ t.cursor = r.cursor + 1
        /\ t.events[Len(t.events)].value \in {StateEvent("stopped"), StateEvent("degraded")}
    BY <1>4, <1>5, <1>7 DEF Pushed
  <2>2. Ends(t.events[Len(t.events)])
    BY <2>1 DEF Ends, StateEvent
  <2>3. c < t.cursor
    <3>1. c \in Nat /\ c <= r.cursor
      BY <1>4 DEF Follows
    <3>2. r.cursor \in Nat
      BY <1>3, EventsTyped
    <3>3. QED BY <2>1, <3>1, <3>2
  <2>4. QED BY <1>5, <1>6, <2>1, <2>2, <2>3 DEF Follows
<1>8. QED BY <1>2, <1>7

LEMMA ConnectFollows ==
  ASSUME NEW s \in Session, NEW c, Follows(s, c), NEW stream \in Streams PROVE Follows(Connect(s, stream), c)
<1> DEFINE gen == s.generation + 1
           g == [s EXCEPT !.generation = gen]
           p == PushState(g, "connecting")
           attempts == p.signing \cup {[gen |-> gen, stream |-> stream]}
           t == [p EXCEPT !.streamKey = stream, !.signing = attempts]
<1>1. gen \in Nat
  BY DEF Session
<1>2. g \in Session /\ SameFeed(s, g)
  <2> HIDE DEF gen
  <2> QED BY <1>1 DEF Session, SameFeed
<1>3. p \in Session /\ Follows(p, c)
  <2> HIDE DEF g
  <2> QED BY <1>2, SameFollows, PushStateFollows, PushStateType, StateNames
<1>4. SameFeed(p, t)
  <2> HIDE DEF p, attempts
  <2> QED BY <1>3 DEF Session, SameFeed
<1>5. Connect(s, stream) = IF s.stopped \/ s.state \notin {"waiting", "degraded"} THEN s ELSE t
  BY DEF Connect
<1> HIDE DEF p, t
<1>6. Follows(t, c)
  BY <1>3, <1>4, SameFollows
<1>7. QED BY <1>5, <1>6

LEMMA TranscriptUtteranceFollows ==
  ASSUME NEW s \in Session, NEW c, Follows(s, c), NEW p \in Packets PROVE Follows(TranscriptUtterance(s, p), c)
<1> DEFINE named == IF Known(s.aliases, p) THEN s.aliases ELSE Append(s.aliases, SpeakerOf[p])
           seen == Remember(s.seenPackets, p)
           noted == [s EXCEPT !.seenPackets = seen, !.aliases = named]
           value == [type |-> "utterance", packet |-> p, alias |-> AliasOf(named, p)]
<1>1. noted \in Session /\ value \in EventValue
  BY UtteranceParts
<1>2. SameFeed(s, noted)
  <2> HIDE DEF named, seen
  <2> QED BY DEF Session, SameFeed
<1>3. TranscriptUtterance(s, p) \in {s, Degrade(s), noted, Push(noted, value)}
  BY DEF TranscriptUtterance
<1> HIDE DEF noted, value
<1>4. Follows(noted, c)
  BY <1>2, SameFollows
<1>5. Follows(Push(noted, value), c) /\ Follows(Degrade(s), c)
  BY <1>1, <1>4, PushFollows, DegradeFollows
<1>6. QED BY <1>3, <1>4, <1>5

LEMMA RephaseFollows ==
  ASSUME NEW s \in Session, NEW c, Follows(s, c), NEW k, NEW phase PROVE Follows(Rephase(s, k, phase), c)
<1> DEFINE socks == (s.sockets \ {k}) \cup {[k EXCEPT !.phase = phase]}
<1>1. Rephase(s, k, phase) = [s EXCEPT !.sockets = socks]
  BY DEF Rephase
<1> HIDE DEF socks
<1>2. SameFeed(s, Rephase(s, k, phase))
  BY <1>1 DEF Session, SameFeed
<1>3. QED BY <1>2, SameFollows

LEMMA WebhookFollows ==
  ASSUME session \in Session, NEW c, Follows(session, c), Webhook PROVE Follows(session', c)
<1>1. PICK stream \in Streams :
        \/ Started(stream)
        \/ \E hasUrl \in BOOLEAN : Interrupted(stream, hasUrl)
        \/ StreamStopped(stream)
  BY DEF Webhook
<1>2. CASE StartedAmbiguous(stream)
  BY <1>2, DegradeFollows DEF StartedAmbiguous
<1>3. CASE StartedWaiting(stream)
  <2> DEFINE asked == [session EXCEPT !.pendingPayload = stream]
             told  == PushState(asked, "awaiting-confirmation")
             timer == session.cursor + 1
             running == told.timers \cup {timer}
             t == [told EXCEPT !.confirmationTimer = timer, !.timers = running]
  <2>1. asked \in Session /\ SameFeed(session, asked)
    BY DEF Session, SameFeed
  <2>2. told \in Session /\ Follows(told, c)
    <3> HIDE DEF asked
    <3> QED BY <2>1, SameFollows, PushStateFollows, PushStateType, StateNames
  <2>3. SameFeed(told, t)
    <3> HIDE DEF told, timer, running
    <3> QED BY <2>2 DEF Session, SameFeed
  <2>4. session' = t
    BY <1>3 DEF StartedWaiting
  <2> HIDE DEF told, t
  <2>5. QED BY <2>2, <2>3, <2>4, SameFollows
<1>4. ASSUME NEW hasUrl \in BOOLEAN, Interrupted(stream, hasUrl) PROVE Follows(session', c)
  <2> DEFINE d == Degrade(session)
  <2>1. session' = IF hasUrl THEN Connect(d, stream) ELSE d
    BY <1>4 DEF Interrupted
  <2>2. d \in Session /\ Follows(d, c)
    BY DegradeType, DegradeFollows
  <2> HIDE DEF d
  <2>3. QED BY <2>1, <2>2, ConnectFollows
<1>5. CASE StreamStopped(stream)
  BY <1>5, StopSessionFollows DEF StreamStopped
<1>6. QED BY <1>1, <1>2, <1>3, <1>4, <1>5 DEF Started

LEMMA ControlFollows ==
  ASSUME session \in Session, NEW c, Follows(session, c), Confirm \/ Pause \/ Resume PROVE Follows(session', c)
<1>1. CASE Confirm
  <2> DEFINE cleared == ClearTimers(session)
             bound == [cleared EXCEPT !.bound = TRUE, !.state = "waiting"]
  <2>1. cleared \in Session /\ SameFeed(session, cleared)
    BY ClearTimersType, ClearTimersFeed
  <2>2. bound \in Session /\ SameFeed(cleared, bound)
    <3> HIDE DEF cleared
    <3> QED BY <2>1, StateNames DEF Session, SameFeed
  <2>3. session.pendingPayload \in Streams
    <3>1. session.pendingPayload \in Streams \cup {None}
      BY DEF Session
    <3>2. QED BY <1>1, <3>1 DEF Confirm
  <2>4. session' = Connect(bound, session.pendingPayload)
    BY <1>1 DEF Confirm
  <2> HIDE DEF cleared, bound
  <2>5. Follows(bound, c)
    BY <2>1, <2>2, SameFollows
  <2>6. QED BY <2>2, <2>3, <2>4, <2>5, ConnectFollows
<1>2. CASE Pause
  <2> DEFINE paused == [session EXCEPT !.stateBeforePause = session.state, !.paused = TRUE]
  <2>1. paused \in Session /\ SameFeed(session, paused)
    <3>1. session.state \in States
      BY DEF Session
    <3>2. QED BY <3>1 DEF Session, SameFeed
  <2>2. session' = PushState(paused, "paused")
    BY <1>2 DEF Pause
  <2> HIDE DEF paused
  <2>3. QED BY <2>1, <2>2, SameFollows, PushStateFollows, StateNames
<1>3. CASE Resume
  <2> DEFINE resumed == [session EXCEPT !.paused = FALSE]
             st == IF session.stateBeforePause \in {"active", "connecting"}
                   THEN session.stateBeforePause ELSE "waiting"
  <2>1. resumed \in Session /\ SameFeed(session, resumed) /\ st \in States
    BY StateNames DEF Session, SameFeed
  <2>2. session' = PushState(resumed, st)
    BY <1>3 DEF Resume
  <2> HIDE DEF resumed, st
  <2>3. QED BY <2>1, <2>2, SameFollows, PushStateFollows
<1>4. QED BY <1>1, <1>2, <1>3

LEMMA TimerFollows ==
  ASSUME session \in Session, NEW c, Follows(session, c), Timer PROVE Follows(session', c)
<1>1. CASE ArmWindowCloses
  BY <1>1 DEF ArmWindowCloses
<1>2. CASE ArmTimerFires
  <2> DEFINE fired == [session EXCEPT !.armTimer = FALSE]
  <2>1. fired \in Session /\ SameFeed(session, fired)
    BY DEF Session, SameFeed
  <2>2. session' \in {Degrade(fired), fired}
    BY <1>2 DEF ArmTimerFires
  <2> HIDE DEF fired
  <2>3. QED BY <2>1, <2>2, SameFollows, DegradeFollows
<1>3. ASSUME NEW timer \in session.timers, ConfirmationTimerFires(timer) PROVE Follows(session', c)
  <2> DEFINE left == session.timers \ {timer}
             fired == [session EXCEPT !.timers = left, !.pendingPayload = None, !.confirmationTimer = 0]
  <2>1. fired \in Session /\ SameFeed(session, fired)
    <3>1. left \in SUBSET Nat /\ None \in Streams \cup {None}
      BY DEF Session
    <3> HIDE DEF left
    <3>2. fired \in Session
      BY <3>1 DEF Session
    <3>3. SameFeed(session, fired)
      BY DEF Session, SameFeed
    <3>4. QED BY <3>2, <3>3
  <2>2. session' \in {Degrade(fired), fired}
    BY <1>3 DEF ConfirmationTimerFires
  <2> HIDE DEF fired
  <2>3. QED BY <2>1, <2>2, SameFollows, DegradeFollows
<1>4. QED BY <1>1, <1>2, <1>3 DEF Timer

LEMMA SignatureFollows ==
  ASSUME session \in Session, NEW c, Follows(session, c), Signature PROVE Follows(session', c)
<1>1. PICK attempt \in session.signing : SignSucceeds(attempt) \/ SignFails(attempt)
  BY DEF Signature
<1> DEFINE left == session.signing \ {attempt}
           signed == [session EXCEPT !.signing = left]
           socket == [kind |-> "signaling", gen |-> attempt.gen, stream |-> attempt.stream,
                      phase |-> "connecting"]
           socks == signed.sockets \cup {socket}
           opened == [signed EXCEPT !.sockets = socks, !.signalingSocket = attempt.gen]
<1>2. session' \in {signed, opened, Degrade(signed)}
  BY <1>1 DEF SignSucceeds, SignFails
<1>3. signed \in Session /\ SameFeed(session, signed)
  <2>1. left \in SUBSET [gen : Nat, stream : Streams]
    BY DEF Session
  <2> HIDE DEF left
  <2>2. QED BY <2>1 DEF Session, SameFeed
<1> HIDE DEF signed, socks
<1>4. SameFeed(signed, opened)
  BY <1>3 DEF Session, SameFeed
<1> HIDE DEF opened
<1>5. Follows(signed, c) /\ Follows(opened, c)
  BY <1>3, <1>4, SameFollows
<1>6. QED BY <1>2, <1>3, <1>5, DegradeFollows

LEMMA NetworkFollows ==
  ASSUME session \in Session, NEW c, Follows(session, c), Network PROVE Follows(session', c)
<1>1. PICK k \in session.sockets :
        \/ SocketOpens(k) \/ SignalingAccepted(k) \/ MediaAccepted(k)
        \/ \E p \in Packets : Transcript(k, p)
        \/ BadMessage(k) \/ PeerCloses(k) \/ SocketErrors(k) \/ SocketCloses(k)
  BY DEF Network
<1>2. CASE SocketOpens(k) \/ PeerCloses(k)
  BY <1>2, RephaseFollows DEF SocketOpens, PeerCloses
<1>3. CASE SignalingAccepted(k)
  <2> DEFINE answered == Rephase(session, k, "answered")
             media == [kind |-> "media", gen |-> k.gen, stream |-> k.stream, phase |-> "connecting"]
             socks == answered.sockets \cup {media}
             t == [answered EXCEPT !.sockets = socks, !.mediaSocket = k.gen]
  <2>1. session' \in {answered, t}
    BY <1>3 DEF SignalingAccepted
  <2>2. answered \in Session /\ Follows(answered, c)
    BY RephaseType, RephaseFollows
  <2> HIDE DEF answered, socks
  <2>3. SameFeed(answered, t)
    BY <2>2 DEF Session, SameFeed
  <2> HIDE DEF t
  <2>4. QED BY <2>1, <2>2, <2>3, SameFollows
<1>4. CASE MediaAccepted(k)
  <2> DEFINE streaming == Rephase(session, k, "streaming")
  <2>1. session' \in {streaming, Degrade(streaming), PushState(streaming, "active")}
    BY <1>4 DEF MediaAccepted
  <2>2. streaming \in Session /\ Follows(streaming, c)
    BY RephaseType, RephaseFollows
  <2> HIDE DEF streaming
  <2>3. QED BY <2>1, <2>2, DegradeFollows, PushStateFollows, StateNames
<1>5. ASSUME NEW p \in Packets, Transcript(k, p) PROVE Follows(session', c)
  BY <1>5, TranscriptUtteranceFollows DEF Transcript
<1>6. CASE BadMessage(k)
  BY <1>6, DegradeFollows DEF BadMessage
<1>7. CASE SocketErrors(k)
  <2> DEFINE closing == Rephase(session, k, "closing")
  <2>1. session' \in {closing, Degrade(closing)}
    BY <1>7 DEF SocketErrors
  <2>2. closing \in Session /\ Follows(closing, c)
    BY RephaseType, RephaseFollows
  <2> HIDE DEF closing
  <2>3. QED BY <2>1, <2>2, DegradeFollows
<1>8. CASE SocketCloses(k)
  <2> DEFINE rest == session.sockets \ {k}
             closed == [session EXCEPT !.sockets = rest]
  <2>1. session' \in {closed, Degrade(closed)}
    BY <1>8 DEF SocketCloses
  <2>2. closed \in Session /\ SameFeed(session, closed)
    <3>1. rest \in SUBSET Socket
      BY DEF Session
    <3> HIDE DEF rest
    <3>2. QED BY <3>1 DEF Session, SameFeed
  <2> HIDE DEF closed
  <2>3. QED BY <2>1, <2>2, SameFollows, DegradeFollows
<1>9. QED BY <1>1, <1>2, <1>3, <1>4, <1>5, <1>6, <1>7, <1>8


-----------------------------------------------------------------------------
(* A poll, from the ring to the client *)

\* The events end at the cursor `to` without a gap.
Numbered(events, to) == \A i \in 1..Len(events) : events[i].cursor + Len(events) = to + i

\* A batch for a client that has heard all up to c: what comes next, or the notice of a loss.
Continues(events, to, c) ==
  /\ events \in Seq(Event) /\ Numbered(events, to)
  /\ events = <<>> => to = c
  /\ events # <<>> => c < events[1].cursor /\ (events[1].cursor = c + 1 \/ Notice(events[1]))

LEMMA KeptRing ==
  ASSUME NEW s \in Session, NEW n \in 0..Len(s.events)
  PROVE  LET kept == SubSeq(s.events, n + 1, Len(s.events))
         IN /\ kept \in Seq(Event) /\ Len(kept) = Len(s.events) - n
            /\ \A i \in 1..Len(kept) : kept[i] = s.events[n + i]
<1> DEFINE kept == SubSeq(s.events, n + 1, Len(s.events))
<1>1. s.events \in Seq(Event) /\ Len(s.events) \in Nat /\ n \in Nat /\ n <= Len(s.events)
  BY EventsTyped
<1>2. \A i \in n + 1..Len(s.events) : s.events[i] \in Event
  BY <1>1, EventsTyped
<1>3. n + 1 \in Int /\ Len(s.events) \in Int
  BY <1>1
<1>4. /\ kept \in Seq(Event)
      /\ Len(kept) = IF n + 1 <= Len(s.events) THEN Len(s.events) - (n + 1) + 1 ELSE 0
      /\ \A i \in 1..Len(s.events) - (n + 1) + 1 : kept[i] = s.events[n + 1 + i - 1]
  BY <1>2, <1>3, SubSeqProperties
<1> HIDE DEF kept
<1>5. Len(kept) = Len(s.events) - n
  BY <1>1, <1>4
<1>6. \A i \in 1..Len(kept) : kept[i] = s.events[n + i]
  <2> TAKE i \in 1..Len(kept)
  <2>1. i \in 1..Len(s.events) - (n + 1) + 1 /\ n + 1 + i - 1 = n + i
    BY <1>1, <1>5
  <2>2. kept[i] = s.events[n + 1 + i - 1]
    BY <1>4, <2>1
  <2>3. QED BY <2>1, <2>2
<1>7. QED BY <1>4, <1>5, <1>6 DEF kept

LEMMA KeptNumbered ==
  ASSUME NEW s \in Session, NEW n \in 0..Len(s.events), Numbered(s.events, s.cursor)
  PROVE  Numbered(SubSeq(s.events, n + 1, Len(s.events)), s.cursor)
<1> DEFINE kept == SubSeq(s.events, n + 1, Len(s.events))
           len == Len(s.events)
           rest == Len(kept)
<1>1. rest = len - n /\ \A i \in 1..rest : kept[i] = s.events[n + i]
  BY KeptRing
<1>2. /\ len \in Nat /\ n \in Nat /\ n <= len /\ s.cursor \in Nat
      /\ \A i \in 1..len : s.events[i].cursor \in Nat
      /\ \A i \in 1..len : s.events[i].cursor + len = s.cursor + i
  BY EventsTyped DEF Numbered
<1> HIDE DEF kept, len
<1>3. SUFFICES ASSUME NEW i \in 1..rest PROVE kept[i].cursor + rest = s.cursor + i
  BY DEF Numbered, kept
<1> HIDE DEF rest
<1>4. n + i \in 1..len /\ kept[i] = s.events[n + i]
  BY <1>1, <1>2
<1> DEFINE a == kept[i].cursor
<1>5. a \in Nat /\ a + len = s.cursor + (n + i) /\ i \in Nat /\ rest = len - n
      /\ len \in Nat /\ n \in Nat /\ s.cursor \in Nat
  BY <1>1, <1>2, <1>4
<1> HIDE DEF a
<1>6. a + rest = s.cursor + i
  BY <1>5
<1>7. QED BY <1>6 DEF a

\* The numbers of a ring, where its events are told apart by n: those up to c, and the later ones.
LEMMA CutNumbers ==
  ASSUME NEW s \in Session, NEW c, Follows(s, c), NEW n \in 0..Len(s.events),
         \A i \in 1..Len(s.events) : s.events[i].cursor <= c <=> i <= n
  PROVE  /\ n = Len(s.events) => s.cursor = c
         /\ n < Len(s.events) => /\ c < s.events[n + 1].cursor
                                 /\ s.events[n + 1].cursor = c + 1
                                    \/ (n = 0 /\ Notice(s.events[1]))
<1> DEFINE len == Len(s.events)
<1>1. len \in Nat /\ n \in Nat /\ n <= len /\ c \in Nat /\ s.cursor \in Nat /\ c <= s.cursor
  BY EventsTyped DEF Follows
<1>2. \A i \in 1..len : s.events[i].cursor \in Nat /\ s.events[i].cursor + len = s.cursor + i
  BY EventsTyped DEF Follows
<1>3. s.cursor <= c + len \/ Notice(s.events[1])
  BY DEF Follows
<1>4. s.events = <<>> => s.cursor <= c + len
  BY DEF Follows
<1>5. len = 0 => s.events = <<>>
  BY EventsTyped, EmptySeq
<1> HIDE DEF len
<1>6. ASSUME n = len PROVE s.cursor = c
  <2>1. CASE len = 0
    BY <1>1, <1>4, <1>5, <2>1
  <2>2. CASE len # 0
    <3>1. len \in 1..len
      BY <1>1, <2>2
    <3>2. s.events[len].cursor <= c
      BY <1>6, <3>1 DEF len
    <3>3. s.events[len].cursor \in Nat /\ s.events[len].cursor + len = s.cursor + len
      BY <1>2, <3>1
    <3>4. QED BY <1>1, <3>2, <3>3
  <2>3. QED BY <2>1, <2>2
<1>7. ASSUME n < len
      PROVE  c < s.events[n + 1].cursor /\ (s.events[n + 1].cursor = c + 1 \/ (n = 0 /\ Notice(s.events[1])))
  <2>1. n + 1 \in 1..len /\ ~(n + 1 <= n)
    BY <1>1, <1>7
  <2>2. s.events[n + 1].cursor \in Nat /\ s.events[n + 1].cursor + len = s.cursor + (n + 1)
    BY <1>2, <2>1
  <2>3. ~(s.events[n + 1].cursor <= c)
    BY <2>1 DEF len
  <2>4. CASE n = 0
    BY <1>1, <1>3, <2>2, <2>3, <2>4
  <2>5. CASE n # 0
    <3>1. n \in 1..len
      BY <1>1, <2>5
    <3>2. s.events[n].cursor \in Nat /\ s.events[n].cursor + len = s.cursor + n
      BY <1>2, <3>1
    <3>3. s.events[n].cursor <= c
      BY <3>1 DEF len
    <3> DEFINE last == s.events[n].cursor
               next == s.events[n + 1].cursor
    <3>4. /\ last \in Nat /\ last <= c /\ last + len = s.cursor + n
          /\ next \in Nat /\ ~(next <= c) /\ next + len = s.cursor + (n + 1)
      BY <2>2, <2>3, <3>2, <3>3
    <3> HIDE DEF last, next
    <3>5. next = last + 1
      BY <1>1, <3>4
    <3>6. c < next /\ next = c + 1
      BY <1>1, <3>4, <3>5
    <3>7. QED BY <3>6 DEF next
  <2>6. QED BY <2>4, <2>5
<1>8. QED BY <1>6, <1>7 DEF len

\* A poll answers with the rest of the ring, leaves a ring the client still follows, and one that a
\* client that has heard the answer follows too.
LEMMA PollFollows ==
  ASSUME session \in Session, NEW c, Follows(session, c), GetEvents(c)
  PROVE  /\ session' \in Session
         /\ session'.cursor = session.cursor /\ session'.stopped = session.stopped
         /\ Follows(session', c)
         /\ Continues(session'.events, session'.cursor, c)
         /\ ~session.stopped => Follows(session', session'.cursor)
<1>1. PICK n \in 0..Len(session.events) :
        /\ \A i \in 1..Len(session.events) : session.events[i].cursor <= c <=> i <= n
        /\ session' = [session EXCEPT !.events = SubSeq(@, n + 1, Len(@))]
  BY DEF GetEvents
<1> DEFINE kept == SubSeq(session.events, n + 1, Len(session.events))
           len == Len(session.events)
           rest == Len(kept)
<1>2. kept \in Seq(Event) /\ rest = len - n /\ \A i \in 1..rest : kept[i] = session.events[n + i]
  BY KeptRing
<1>3. session' = [session EXCEPT !.events = kept]
  BY <1>1
<1>4. /\ len \in Nat /\ n \in Nat /\ n <= len /\ session.cursor \in Nat /\ c \in Nat /\ c <= session.cursor
      /\ \A i \in 1..len : session.events[i].cursor \in Nat
      /\ \A i \in 1..len : session.events[i].cursor + len = session.cursor + i
  BY EventsTyped DEF Follows
<1>5. /\ n = len => session.cursor = c
      /\ n < len => /\ c < session.events[n + 1].cursor
                    /\ session.events[n + 1].cursor = c + 1 \/ (n = 0 /\ Notice(session.events[1]))
  BY <1>1, CutNumbers
<1>6. (kept = <<>>) <=> rest = 0
  BY <1>2, EmptySeq
<1>7. session.stopped => len # 0 /\ Ends(session.events[len]) /\ c < session.cursor
  BY EventsTyped, EmptySeq DEF Follows
<1> HIDE DEF kept, len
<1>8. /\ session' \in Session /\ session'.cursor = session.cursor /\ session'.stopped = session.stopped
      /\ session'.events = kept
  BY <1>2, <1>3 DEF Session
<1> HIDE DEF rest
<1>9. rest \in Nat
  BY <1>2, <1>4
<1>10. Numbered(kept, session.cursor)
  <2>1. Numbered(session.events, session.cursor)
    BY DEF Follows, Numbered
  <2>2. QED BY <2>1, KeptNumbered DEF kept
<1>11. rest # 0 => kept[1] = session.events[n + 1] /\ n < len
  BY <1>2, <1>4, <1>9
<1>12. rest = 0 => session.cursor = c
  BY <1>2, <1>4, <1>5
<1>13. rest # 0 => c < kept[1].cursor /\ (kept[1].cursor = c + 1 \/ Notice(kept[1]))
  BY <1>5, <1>11
<1>14. Continues(kept, session.cursor, c)
  BY <1>2, <1>6, <1>10, <1>12, <1>13 DEF Continues
<1>15. session.cursor <= c + rest \/ (kept # <<>> /\ Notice(kept[1]))
  <2>1. CASE rest = 0
    BY <1>4, <1>12, <2>1
  <2>2. CASE rest # 0
    <3>1. 1 \in 1..rest
      BY <1>9, <2>2
    <3>2. kept[1].cursor + rest = session.cursor + 1
      BY <1>10, <3>1 DEF Numbered, rest
    <3>3. CASE kept[1].cursor = c + 1
      BY <1>4, <1>9, <3>2, <3>3
    <3>4. QED BY <1>6, <1>13, <2>2, <3>3
  <2>3. QED BY <2>1, <2>2
<1>16. session.stopped => kept # <<>> /\ Ends(kept[rest])
  <2> HAVE session.stopped
  <2>1. rest # 0
    BY <1>4, <1>7, <1>12
  <2>2. rest \in 1..rest /\ n + rest = len
    BY <1>2, <1>4, <1>9, <2>1
  <2>3. kept[rest] = session.events[len]
    BY <1>2, <2>2
  <2>4. QED BY <1>6, <1>7, <2>1, <2>3
<1>17. Follows(session', c)
  BY <1>4, <1>7, <1>8, <1>10, <1>15, <1>16 DEF Follows, Numbered, rest
<1>18. ~session.stopped => Follows(session', session'.cursor)
  <2>1. session.cursor <= session.cursor /\ session.cursor <= session.cursor + rest
    BY <1>4, <1>9
  <2>2. QED BY <1>4, <1>8, <1>10, <2>1 DEF Follows, Numbered, rest
<1>19. QED BY <1>8, <1>14, <1>17, <1>18


-----------------------------------------------------------------------------
(* What an open client, the response under way and the ring have to do with each other *)

ClientFields == {"closed", "cursor", "paused", "poll", "control", "reply", "stopping", "mode", "shown"}

Entry == [cursor : Nat, notice : BOOLEAN]

\* A response under way continues what was heard; if the session is not over, its ring goes on
\* from there, and if it is, the response says so.
Answer(s, poll, c) ==
  /\ poll.cursor \in Nat /\ Continues(poll.events, poll.cursor, c)
  /\ IF poll.stopped THEN poll.events # <<>> /\ Ends(poll.events[Len(poll.events)])
                     ELSE Follows(s, poll.cursor)

Listens(s, c) ==
  /\ ~c.stopping /\ Follows(s, c.cursor)
  /\ c.poll.at \in {"asked", "waited"} => c.poll.after = c.cursor
  /\ c.poll.at = "answered" => Answer(s, c.poll, c.cursor)

Hears ==
  /\ DOMAIN client = ClientFields /\ client.control \in Controls /\ client.closed \in BOOLEAN
  /\ got \in Seq(Entry)
  /\ ~client.closed => IInv /\ client.cursor = Feed!Last(Len(got)) /\ Listens(session, client)


LEMMA SessionStep ==
  ASSUME IInv, Webhook \/ Confirm \/ Pause \/ Resume \/ Timer \/ Signature \/ Network
  PROVE  IInv' /\ \A c : Follows(session, c) => Follows(session', c)
<1>1. session \in Session
  BY DEF IInv, TypeOK
<1>2. IInv'
  BY IndInductive DEF Next, User
<1>3. ASSUME NEW c, Follows(session, c) PROVE Follows(session', c)
  BY <1>1, <1>3, WebhookFollows, ControlFollows, TimerFollows, SignatureFollows, NetworkFollows
<1>4. QED BY <1>2, <1>3

\* The client d awaits the same answer as c and has heard as much.
Alike(c, d) ==
  /\ DOMAIN d = ClientFields /\ d.control \in Controls /\ d.closed = c.closed
  /\ d.cursor = c.cursor /\ d.poll = c.poll /\ d.stopping = c.stopping

LEMMA QuietHears ==
  ASSUME Hears, Alike(client, client'), got' = got,
         ~client.closed => IInv' /\ \A c : Follows(session, c) => Follows(session', c)
  PROVE  Hears'
<1>1. ASSUME ~client.closed PROVE Listens(session', client')
  <2>1. Listens(session, client) /\ \A c : Follows(session, c) => Follows(session', c)
    BY <1>1 DEF Hears
  <2>2. client.poll.at = "answered" => Answer(session', client.poll, client.cursor)
    BY <2>1 DEF Listens, Answer
  <2>3. QED BY <2>1, <2>2 DEF Listens, Alike
<1>2. Feed!Last(Len(got))' = Feed!Last(Len(got))
  BY DEF Feed!Last
<1>3. QED BY <1>1, <1>2 DEF Hears, Alike

LEMMA ClosedHears ==
  ASSUME Hears, DOMAIN client' = ClientFields, client'.control \in Controls, client'.closed = TRUE,
         got' \in Seq(Entry)
  PROVE  Hears'
  BY DEF Hears

LEMMA FailFields ==
  ASSUME NEW c, DOMAIN c = ClientFields, c.closed \in BOOLEAN, c.control \in Controls
  PROVE  DOMAIN Fail(c) = ClientFields /\ Fail(c).closed = TRUE /\ Fail(c).control \in Controls
  BY DEF Fail, ClientFields

LEMMA PanelFields ==
  ASSUME NEW c, DOMAIN c = ClientFields, NEW control PROVE Alike(c, Panel(c, control))
<1> DEFINE mode == CASE c.mode = "ended" -> c.mode
                     [] c.mode # "ended" /\ control = "pause" -> "paused"
                     [] c.mode # "ended" /\ control = "resume" -> "listening"
                     [] OTHER -> c.mode
<1>1. Panel(c, control) = [c EXCEPT !.control = "none", !.reply = "due", !.mode = mode]
  BY DEF Panel
<1> HIDE DEF mode
<1>2. QED BY <1>1 DEF Alike, ClientFields, Controls

LEMMA PollSendsHears ==
  ASSUME Hears, PollSends PROVE Hears'
<1> DEFINE asked == [at |-> "asked", after |-> client.cursor]
<1>1. client' = [client EXCEPT !.poll = asked] /\ session' = session /\ armed' = armed /\ got' = got
      /\ ~client.closed
  BY DEF PollSends
<1>2. asked.at = "asked" /\ asked.after = client.cursor
  OBVIOUS
<1> HIDE DEF asked
<1>3. DOMAIN client = ClientFields
  BY DEF Hears
<1>4. /\ DOMAIN client' = ClientFields /\ client'.control = client.control /\ client'.closed = client.closed
      /\ client'.cursor = client.cursor /\ client'.stopping = client.stopping /\ client'.poll = asked
  BY <1>1, <1>3 DEF ClientFields
<1>5. Listens(session', client')
  BY <1>1, <1>2, <1>4 DEF Hears, Listens
<1>6. Feed!Last(Len(got))' = Feed!Last(Len(got))
  BY <1>1 DEF Feed!Last
<1>7. IInv'
  BY <1>1, IndInductive DEF Hears, vars
<1>8. QED BY <1>1, <1>4, <1>5, <1>6, <1>7 DEF Hears

LEMMA PollServedHears ==
  ASSUME Hears, PollServed PROVE Hears'
<1> DEFINE waited == [at |-> "waited", after |-> client.poll.after]
           answered == [at |-> "answered", cursor |-> session'.cursor, events |-> session'.events,
                        state |-> session'.state, stopped |-> session'.stopped]
<1>1. /\ client.poll.at \in {"asked", "waited"} /\ GetEvents(client.poll.after) /\ got' = got
      /\ client' \in {[client EXCEPT !.poll = waited], [client EXCEPT !.poll = answered]}
  BY DEF PollServed
<1>2. waited.at = "waited" /\ waited.after = client.poll.after /\ answered.at = "answered"
      /\ answered.cursor = session'.cursor /\ answered.events = session'.events
      /\ answered.stopped = session'.stopped
  OBVIOUS
<1> HIDE DEF waited, answered
<1>3. DOMAIN client = ClientFields /\ client.control \in Controls /\ client.closed \in BOOLEAN
      /\ got \in Seq(Entry)
  BY DEF Hears
<1>4. /\ DOMAIN client' = ClientFields /\ client'.control = client.control /\ client'.closed = client.closed
      /\ client'.cursor = client.cursor /\ client'.stopping = client.stopping
      /\ client'.poll \in {waited, answered}
  BY <1>1, <1>3 DEF ClientFields
<1>5. CASE client.closed
  BY <1>1, <1>3, <1>4, <1>5 DEF Hears
<1>6. CASE ~client.closed
  <2>1. IInv /\ Listens(session, client) /\ client.cursor = Feed!Last(Len(got))
    BY <1>6 DEF Hears
  <2>2. session \in Session /\ Follows(session, client.cursor) /\ client.poll.after = client.cursor
    BY <1>1, <2>1 DEF IInv, TypeOK, Listens
  <2>3. /\ session' \in Session
        /\ session'.cursor = session.cursor /\ session'.stopped = session.stopped
        /\ Follows(session', client.cursor)
        /\ Continues(session'.events, session'.cursor, client.cursor)
        /\ ~session.stopped => Follows(session', session'.cursor)
    BY <1>1, <2>2, PollFollows
  <2>4. Answer(session', answered, client.cursor)
    <3>1. answered.cursor \in Nat
      BY <1>2, <2>3, EventsTyped
    <3>2. Continues(answered.events, answered.cursor, client.cursor)
      BY <1>2, <2>3
    <3>3. answered.stopped => answered.events # <<>> /\ Ends(answered.events[Len(answered.events)])
      BY <1>2, <2>3 DEF Follows
    <3>4. ~answered.stopped => Follows(session', answered.cursor)
      BY <1>2, <2>3
    <3>5. QED BY <3>1, <3>2, <3>3, <3>4 DEF Answer
  <2>5. Listens(session', client')
    BY <1>2, <1>4, <2>1, <2>2, <2>3, <2>4 DEF Listens
  <2>6. IInv'
    <3>1. client.cursor \in 0..session.cursor
      BY <2>2, EventsTyped DEF Follows
    <3>2. Poll
      BY <1>1, <2>2, <3>1 DEF Poll
    <3>3. QED BY <2>1, <3>2, IndInductive DEF Next
  <2>7. Feed!Last(Len(got))' = Feed!Last(Len(got))
    BY <1>1 DEF Feed!Last
  <2>8. QED BY <1>1, <1>3, <1>4, <2>1, <2>5, <2>6, <2>7 DEF Hears
<1>7. QED BY <1>5, <1>6


LEMMA HeardEntries ==
  ASSUME NEW events \in Seq(Event)
  PROVE  /\ Heard(events) \in Seq(Entry) /\ Len(Heard(events)) = Len(events)
         /\ \A i \in 1..Len(events) : /\ Heard(events)[i].cursor = events[i].cursor
                                      /\ Heard(events)[i].notice = Notice(events[i])
<1> DEFINE entry(i) == [cursor |-> events[i].cursor,
                        notice |-> events[i].value.type = "state" /\ events[i].value.state = "degraded"]
<1>1. Len(events) \in Nat /\ \A i \in 1..Len(events) : events[i] \in Event
  BY LenProperties, ElementOfSeq
<1>2. \A i \in 1..Len(events) : entry(i) \in Entry
  BY <1>1 DEF Event, Entry
<1>3. Heard(events) = [i \in 1..Len(events) |-> entry(i)]
  BY DEF Heard
<1>4. \A i \in 1..Len(events) : entry(i).cursor = events[i].cursor /\ entry(i).notice = Notice(events[i])
  BY DEF Notice
<1> HIDE DEF entry
<1>5. Heard(events) \in [1..Len(events) -> Entry]
  BY <1>2, <1>3
<1>6. Heard(events) \in Seq(Entry) /\ Len(Heard(events)) = Len(events)
  BY <1>1, <1>5
<1>7. QED BY <1>3, <1>4, <1>6

\* What the client heard after a batch begins with what it had heard, and ends at the batch's cursor.
LEMMA FeedGrows ==
  ASSUME got \in Seq(Entry), NEW events, NEW to \in Nat, Continues(events, to, Feed!Last(Len(got))),
         got' = got \o Heard(events)
  PROVE  got' \in Seq(Entry) /\ to = Feed!Last(Len(got))' /\ (got' = got \/ Feed!Hear)
<1> DEFINE h == Heard(events)
           n == Len(got)
           m == Len(events)
<1>1. events \in Seq(Event) /\ n \in Nat /\ m \in Nat
  BY LenProperties DEF Continues
<1>2. /\ h \in Seq(Entry) /\ Len(h) = m
      /\ \A i \in 1..m : h[i].cursor = events[i].cursor /\ h[i].notice = Notice(events[i])
  BY <1>1, HeardEntries
<1> HIDE DEF h
<1>3. /\ got' \in Seq(Entry) /\ Len(got') = n + m
      /\ \A i \in 1..n + m : got'[i] = IF i <= n THEN got[i] ELSE h[i - n]
  <2>1. got' = got \o h
    BY DEF h
  <2>2. /\ got \o h \in Seq(Entry) /\ Len(got \o h) = Len(got) + Len(h)
        /\ \A i \in 1..Len(got) + Len(h) : (got \o h)[i] = IF i <= Len(got) THEN got[i] ELSE h[i - Len(got)]
    <3>1. h \in Seq(Entry)
      BY <1>2
    <3>2. QED BY ONLY got \in Seq(Entry), <3>1, ConcatProperties, Zenon
  <2> HIDE DEF m
  <2>3. QED BY <1>2, <2>1, <2>2
<1>4. \A i \in 1..m : events[i].cursor \in Nat
  <2> TAKE i \in 1..m
  <2>1. events[i] \in Event
    BY <1>1, ElementOfSeq
  <2>2. QED BY <2>1 DEF Event
<1>5. \A i \in 1..m : events[i].cursor + m = to + i
  BY DEF Continues, Numbered
<1>6. m = 0 <=> events = <<>>
  BY <1>1, EmptySeq
<1>7. CASE m = 0
  <2>1. h = <<>>
    BY <1>2, <1>7, EmptySeq
  <2>2. got' = got
    BY <2>1, ConcatEmptySeq DEF h
  <2>3. Feed!Last(Len(got))' = Feed!Last(Len(got))
    BY <2>2 DEF Feed!Last
  <2>4. QED BY <1>3, <1>6, <1>7, <2>2, <2>3 DEF Continues
<1>8. CASE m # 0
  <2>1. n + m \in 1..n + m /\ ~(n + m <= n) /\ (n + m) - n = m /\ n + m # 0 /\ m \in 1..m
    BY <1>1, <1>8
  <2>2. got'[n + m].cursor = events[m].cursor
    BY <1>2, <1>3, <2>1
  <2>3. events[m].cursor = to
    BY <1>1, <1>4, <1>5, <2>1
  <2>4. to = Feed!Last(Len(got))'
    BY <1>3, <2>1, <2>2, <2>3 DEF Feed!Last
  <2>5. SubSeq(got', 1, n) = got
    <3>1. got' = got \o h
      BY DEF h
    <3>2. CASE n = 0
      <4>1. got = <<>>
        BY <3>2, EmptySeq
      <4>2. SubSeq(got', 1, 0) = <<>>
        BY SubSeqEmpty
      <4>3. QED BY <3>2, <4>1, <4>2
    <3>3. CASE n # 0
      <4>1. 1 \in 1..Len(got) /\ n \in 1..Len(got)
        BY <1>1, <3>3
      <4>2. SubSeq(got \o h, 1, n) = SubSeq(got, 1, n)
        BY <1>2, <4>1, SubSeqOfConcat1
      <4>3. SubSeq(got, 1, Len(got)) = got
        BY SubSeqFull
      <4>4. QED BY <3>1, <4>2, <4>3
    <3>4. QED BY <3>2, <3>3
  <2>6. ASSUME NEW i \in n + 1..n + m
        PROVE  LET before == IF i = n + 1 THEN Feed!Last(n) ELSE got'[i - 1].cursor
               IN IF got'[i].notice THEN got'[i].cursor > before ELSE got'[i].cursor = before + 1
    <3> DEFINE j == i - n
    <3>1. j \in 1..m /\ i \in 1..n + m /\ ~(i <= n) /\ j \in Nat
      BY <1>1
    <3>2. got'[i].cursor = events[j].cursor /\ got'[i].notice = Notice(events[j])
      BY <1>2, <1>3, <3>1
    <3>3. CASE i = n + 1
      <4>1. j = 1 /\ events # <<>>
        BY <1>1, <1>6, <1>8, <3>3
      <4>2. /\ Feed!Last(n) < events[1].cursor
            /\ events[1].cursor = Feed!Last(n) + 1 \/ Notice(events[1])
        BY <4>1 DEF Continues, n
      <4> HIDE DEF j
      <4>3. QED BY <3>2, <3>3, <4>1, <4>2
    <3>4. CASE i # n + 1
      <4>1. j - 1 \in 1..m /\ i - 1 \in 1..n + m /\ ~(i - 1 <= n) /\ (i - 1) - n = j - 1
        BY <1>1, <3>4
      <4>2. got'[i - 1].cursor = events[j - 1].cursor
        BY <1>2, <1>3, <4>1
      <4> HIDE DEF j
      <4> DEFINE a == events[j].cursor
                 b == events[j - 1].cursor
      <4>3. a \in Nat /\ b \in Nat /\ a + m = to + j /\ b + m = to + (j - 1)
        BY <1>4, <1>5, <3>1, <4>1
      <4>4. got'[i].cursor = a /\ got'[i - 1].cursor = b
        BY <3>2, <4>2
      <4> HIDE DEF a, b
      <4>5. a = b + 1 /\ a > b
        BY <1>1, <3>1, <4>3
      <4>6. QED BY <3>4, <4>4, <4>5
    <3>5. QED BY <3>3, <3>4
  <2>7. Len(got') > n
    BY <1>1, <1>3, <1>8
  <2>8. Feed!Hear
    BY <1>3, <2>5, <2>6, <2>7 DEF Feed!Hear
  <2>9. QED BY <1>3, <2>4, <2>8
<1>9. QED BY <1>7, <1>8

LEMMA PollReturnsHears ==
  ASSUME Hears, PollReturns PROVE Hears' /\ (got' = got \/ Feed!Hear)
<1> DEFINE reply == client.poll
           shown == Shown(reply.events, client.shown)
           heard == [client EXCEPT !.poll = NoPoll, !.cursor = reply.cursor,
                                   !.paused = (reply.state = "paused"), !.shown = shown]
<1>1. DOMAIN client = ClientFields /\ client.control \in Controls /\ client.closed \in BOOLEAN
      /\ got \in Seq(Entry)
  BY DEF Hears
<1>2. CASE client.closed
  <2>1. client' = [client EXCEPT !.poll = NoPoll] /\ got' = got
    BY <1>2 DEF PollReturns
  <2>2. DOMAIN client' = ClientFields /\ client'.control = client.control /\ client'.closed = client.closed
    BY <1>1, <2>1 DEF ClientFields
  <2>3. QED BY <1>1, <1>2, <2>1, <2>2 DEF Hears
<1>3. CASE ~client.closed
  <2>1. /\ client' = (IF reply.stopped THEN Fail(heard) ELSE heard) /\ got' = got \o Heard(reply.events)
        /\ session' = session /\ armed' = armed /\ reply.at = "answered"
    BY <1>3 DEF PollReturns
  <2>2. IInv /\ client.cursor = Feed!Last(Len(got)) /\ ~client.stopping /\ Answer(session, reply, client.cursor)
    BY <1>3, <2>1 DEF Hears, Listens
  <2> HIDE DEF shown
  <2>3. /\ DOMAIN heard = ClientFields /\ heard.control \in Controls /\ heard.closed \in BOOLEAN
        /\ heard.closed = client.closed /\ heard.cursor = reply.cursor /\ heard.poll = NoPoll
        /\ heard.stopping = client.stopping
    BY <1>1 DEF ClientFields
  <2> HIDE DEF heard
  <2>4. got' \in Seq(Entry) /\ reply.cursor = Feed!Last(Len(got))' /\ (got' = got \/ Feed!Hear)
    BY <1>1, <2>1, <2>2, FeedGrows DEF Answer
  <2>5. CASE reply.stopped
    <3>1. DOMAIN client' = ClientFields /\ client'.control \in Controls /\ client'.closed = TRUE
      BY <2>1, <2>3, <2>5, FailFields
    <3>2. QED BY <2>4, <3>1 DEF Hears
  <2>6. CASE ~reply.stopped
    <3>1. client' = heard
      BY <2>1, <2>6
    <3>2. Follows(session', client'.cursor)
      BY <2>1, <2>2, <2>3, <2>6, <3>1 DEF Answer
    <3>3. client'.poll.at = "idle"
      BY <2>3, <3>1 DEF NoPoll
    <3>4. Listens(session', client')
      BY <2>2, <2>3, <3>1, <3>2, <3>3 DEF Listens
    <3>5. IInv'
      BY <2>1, <2>2, IndInductive DEF vars
    <3>6. QED BY <2>3, <2>4, <3>1, <3>4, <3>5 DEF Hears
  <2>7. QED BY <2>4, <2>5, <2>6
<1>4. QED BY <1>1, <1>2, <1>3


LEMMA CompanionHears ==
  ASSUME Hears, Companion PROVE Hears'
<1>1. client' = client /\ got' = got /\ (Webhook \/ Timer \/ Signature \/ Network)
  BY DEF Companion, clientVars
<1>2. Alike(client, client')
  BY <1>1 DEF Alike, Hears
<1>3. ~client.closed => IInv' /\ \A c : Follows(session, c) => Follows(session', c)
  BY <1>1, SessionStep DEF Hears
<1>4. QED BY <1>1, <1>2, <1>3, QuietHears

\* Only the client moves, and it awaits the same answer.
LEMMA PanelHears ==
  ASSUME Hears, Alike(client, client'), session' = session, armed' = armed, got' = got PROVE Hears'
<1>1. ~client.closed => IInv' /\ \A c : Follows(session, c) => Follows(session', c)
  BY IndInductive DEF Hears, vars
<1>2. QED BY <1>1, QuietHears

LEMMA ControlHears ==
  ASSUME Hears, \/ \E control \in Controls \ {"none"} : ControlSends(control)
                \/ ControlServed \/ ControlReturns \/ ControlFails
  PROVE  Hears'
<1>1. DOMAIN client = ClientFields /\ client.control \in Controls
  BY DEF Hears
<1>2. ASSUME NEW control \in Controls \ {"none"}, ControlSends(control) PROVE Hears'
  <2> DEFINE sent == [client EXCEPT !.control = control, !.reply = "due"]
  <2>1. Alike(client, Panel(client, control))
    BY <1>1, PanelFields
  <2>2. Alike(client, sent)
    BY <1>1 DEF Alike, ClientFields
  <2> HIDE DEF sent
  <2>3. client' \in {Panel(client, control), sent} /\ session' = session /\ armed' = armed /\ got' = got
    BY <1>2 DEF ControlSends, sent
  <2>4. QED BY <2>1, <2>2, <2>3, PanelHears
<1>3. CASE ControlServed
  <2>1. Alike(client, [client EXCEPT !.reply = "failed"]) /\ Alike(client, [client EXCEPT !.reply = "ok"])
    BY <1>1 DEF Alike, ClientFields
  <2>2. CASE Refused(client.control)
    BY <1>3, <2>1, <2>2, PanelHears DEF ControlServed
  <2>3. CASE ~Refused(client.control)
    <3>1. client' = [client EXCEPT !.reply = "ok"] /\ Served(client.control) /\ got' = got
          /\ client.control # "none"
      BY <1>3, <2>3 DEF ControlServed
    <3>2. client.control \in {"confirm", "pause", "resume"}
      BY <1>1, <3>1 DEF Controls
    <3>3. Confirm \/ Pause \/ Resume
      BY <3>1, <3>2 DEF Served
    <3>4. ~client.closed => IInv' /\ \A c : Follows(session, c) => Follows(session', c)
      BY <3>3, SessionStep DEF Hears
    <3>5. QED BY <2>1, <3>1, <3>4, QuietHears
  <2>4. QED BY <2>2, <2>3
<1>4. CASE ControlReturns
  <2> DEFINE paused == IF client.reply = "ok" /\ client.control # "confirm"
                       THEN client.control = "pause" ELSE client.paused
             told == [client EXCEPT !.paused = paused]
  <2>1. client' = Panel(told, client.control) /\ session' = session /\ armed' = armed /\ got' = got
    BY <1>4 DEF ControlReturns
  <2> HIDE DEF paused
  <2>2. Alike(client, told)
    BY <1>1 DEF Alike, ClientFields
  <2> HIDE DEF told
  <2>3. Alike(told, Panel(told, client.control))
    BY <2>2, PanelFields DEF Alike
  <2>4. Alike(client, client')
    BY <2>1, <2>2, <2>3 DEF Alike
  <2>5. QED BY <2>1, <2>4, PanelHears
<1>5. CASE ControlFails
  <2>1. client' = Panel(client, client.control) /\ session' = session /\ armed' = armed /\ got' = got
    BY <1>5 DEF ControlFails
  <2>2. QED BY <1>1, <2>1, PanelFields, PanelHears
<1>6. QED BY <1>2, <1>3, <1>4, <1>5

LEMMA EndingHears ==
  ASSUME Hears, PollFails \/ StopSends \/ StopServed PROVE Hears'
<1>1. DOMAIN client = ClientFields /\ client.control \in Controls /\ client.closed \in BOOLEAN
      /\ got \in Seq(Entry)
  BY DEF Hears
<1>2. CASE PollFails
  <2> DEFINE c == [client EXCEPT !.poll = NoPoll]
  <2>1. DOMAIN c = ClientFields /\ c.control \in Controls /\ c.closed \in BOOLEAN
    BY <1>1 DEF ClientFields
  <2>2. client' = Fail(c) /\ got' = got
    BY <1>2 DEF PollFails
  <2> HIDE DEF c
  <2>3. DOMAIN client' = ClientFields /\ client'.control \in Controls /\ client'.closed = TRUE
    BY <2>1, <2>2, FailFields
  <2>4. QED BY <1>1, <2>2, <2>3, ClosedHears
<1>3. CASE StopSends
  <2>1. client' = [client EXCEPT !.closed = TRUE, !.stopping = TRUE, !.mode = "ended", !.shown = "stopped"]
        /\ got' = got
    BY <1>3 DEF StopSends
  <2>2. DOMAIN client' = ClientFields /\ client'.control \in Controls /\ client'.closed = TRUE
    BY <1>1, <2>1 DEF ClientFields
  <2>3. QED BY <1>1, <2>1, <2>2, ClosedHears
<1>4. CASE StopServed
  <2>1. client.stopping /\ client' = [client EXCEPT !.stopping = FALSE] /\ got' = got
    BY <1>4 DEF StopServed
  <2>2. client.closed = TRUE
    BY <1>1, <2>1 DEF Hears, Listens
  <2>3. DOMAIN client' = ClientFields /\ client'.control \in Controls /\ client'.closed = TRUE
    BY <1>1, <2>1, <2>2 DEF ClientFields
  <2>4. QED BY <1>1, <2>1, <2>3, ClosedHears
<1>5. QED BY <1>2, <1>3, <1>4

LEMMA StepHears ==
  ASSUME Hears, [ClientNext]_allVars PROVE Hears' /\ (got' = got \/ Feed!Hear)
<1>1. CASE UNCHANGED allVars
  <2>1. session' = session /\ armed' = armed /\ client' = client /\ got' = got
    BY <1>1 DEF allVars
  <2>2. Alike(client, client')
    BY <2>1 DEF Alike, Hears
  <2>3. QED BY <2>1, <2>2, PanelHears
<1>2. CASE Companion
  BY <1>2, CompanionHears DEF Companion, clientVars
<1>3. CASE PollSends
  BY <1>3, PollSendsHears DEF PollSends
<1>4. CASE PollServed
  BY <1>4, PollServedHears DEF PollServed
<1>5. CASE PollReturns
  BY <1>5, PollReturnsHears
<1>6. CASE \/ \E control \in Controls \ {"none"} : ControlSends(control)
           \/ ControlServed \/ ControlReturns \/ ControlFails
  BY <1>6, ControlHears DEF ControlSends, ControlServed, ControlReturns, ControlFails
<1>7. CASE PollFails \/ StopSends \/ StopServed
  BY <1>7, EndingHears DEF PollFails, StopSends, StopServed
<1>8. QED BY <1>1, <1>2, <1>3, <1>4, <1>5, <1>6, <1>7 DEF ClientNext, Polling

LEMMA InitHears == InitAll => Hears /\ Feed!Init
<1> SUFFICES ASSUME InitAll PROVE Hears /\ Feed!Init
  OBVIOUS
<1>1. session = NewSession /\ armed = TRUE /\ got = <<>>
  BY DEF InitAll, Init, ClientInit
<1>2. /\ DOMAIN client = ClientFields /\ client.control \in Controls /\ client.closed \in BOOLEAN
      /\ ~client.stopping /\ client.cursor = 0
      /\ client.poll.at = "asked" /\ client.poll.after = 0
  BY DEF InitAll, ClientInit, ClientFields, Controls
<1>3. IInv
  BY <1>1, NewSessionType, NewSessionInd DEF IInv, TypeOK
<1>4. session.cursor = 0 /\ session.events = <<>> /\ session.stopped = FALSE
  BY <1>1 DEF NewSession
<1>5. Len(<<>>) = 0
  BY EmptySeq
<1>6. Follows(session, 0)
  BY <1>4, <1>5 DEF Follows
<1>7. got \in Seq(Entry) /\ client.cursor = Feed!Last(Len(got))
  BY <1>1, <1>2, <1>5 DEF Feed!Last
<1>8. Listens(session, client)
  BY <1>2, <1>6 DEF Listens
<1>9. QED BY <1>1, <1>2, <1>3, <1>7, <1>8 DEF Hears, Feed!Init

THEOREM ClientHears == SpecAll => []Hears
<1>1. InitAll => Hears
  BY InitHears
<1>2. Hears /\ [ClientNext]_allVars => Hears'
  BY StepHears
<1>3. QED BY <1>1, <1>2, PTL DEF SpecAll

\* LocalZoomRtmsClient with getEvents and push is a numbered feed, for a ring of any size:
\* no event is heard twice or out of order, and what the ring had to drop, or degrade threw
\* away, is announced by a degraded notice before anything else is heard.
THEOREM FeedImplemented == SpecAll => AnnouncedLoss
<1>1. InitAll => Feed!Init
  BY InitHears
<1>2. Hears /\ [ClientNext]_allVars => [Feed!Next]_got
  BY StepHears DEF Feed!Next
<1>3. QED BY <1>1, <1>2, ClientHears, PTL DEF SpecAll, AnnouncedLoss, Feed!Spec

LEMMA ShownLast ==
  ASSUME NEW events, Len(events) \in Nat, Len(events) # 0, Ends(events[Len(events)]), NEW before
  PROVE  Shown(events, before) \in {"stopped", "degraded"}
<1> DEFINE last == Len(events)
           told == {i \in 1..last : events[i].value.type = "state"}
           pick == CHOOSE i \in told : \A j \in told : j <= i
<1>1. last \in told /\ \A j \in told : j <= last
  BY DEF Ends
<1>2. pick \in told /\ \A j \in told : j <= pick
  BY <1>1
<1>3. pick = last
  <2>1. pick <= last /\ last <= pick /\ pick \in Nat /\ last \in Nat
    BY <1>1, <1>2
  <2> HIDE DEF pick, last, told
  <2>2. QED BY <2>1
<1>4. Shown(events, before) = events[pick].value.state
  BY <1>1 DEF Shown
<1>5. QED BY <1>3, <1>4 DEF Ends

\* A client that closes because its session stopped has shown why, stopped or degraded: the last
\* event of a stopped session is never lost to the ring or to an acknowledgement.
THEOREM EndTold == SpecAll => EndIsTold
<1> DEFINE A == client'.closed /\ ~client.closed /\ client.poll.at = "answered" /\ client'.poll = NoPoll
                  /\ client.poll.stopped
                  => Shown(client.poll.events, client.shown) \in {"stopped", "degraded"}
<1>1. Hears => A
  <2> SUFFICES ASSUME Hears, ~client.closed, client.poll.at = "answered", client.poll.stopped
               PROVE  Shown(client.poll.events, client.shown) \in {"stopped", "degraded"}
    OBVIOUS
  <2>1. client.poll.events # <<>> /\ Ends(client.poll.events[Len(client.poll.events)])
        /\ client.poll.events \in Seq(Event)
    BY DEF Hears, Listens, Answer, Continues
  <2>2. Len(client.poll.events) \in Nat /\ Len(client.poll.events) # 0
    BY <2>1, EmptySeq, LenProperties
  <2>3. QED BY <2>1, <2>2, ShownLast
<1>2. Hears /\ [ClientNext]_allVars => [A]_allVars
  BY <1>1
<1>3. SpecAll => [][A]_allVars
  BY <1>2, ClientHears, PTL DEF SpecAll
<1>4. QED BY <1>3 DEF EndIsTold


-----------------------------------------------------------------------------
(* The session of the composition is a session: whatever the client does, also after it has closed, *)
(* the companion sees requests that its controller allows.                                          *)

RingNumbered == ~session.stopped => Numbered(session.events, session.cursor)

Reach ==
  /\ IInv /\ RingNumbered
  /\ DOMAIN client = ClientFields /\ client.control \in Controls
  /\ client.cursor \in 0..session.cursor
  /\ client.poll.at \in {"asked", "waited"} => client.poll.after \in 0..session.cursor
  /\ client.poll.at = "answered" => client.poll.cursor \in 0..session.cursor

LEMMA SilentStop ==
  ASSUME NEW s \in Session, ~s.stopped
  PROVE  StopSession(s, FALSE).stopped /\ StopSession(s, FALSE).cursor = s.cursor
<1> DEFINE n == Release(ClearTimers(s))
           r == [n EXCEPT !.state = "stopped", !.generation = @ + 1]
           e == [r EXCEPT !.events = <<>>]
<1>1. n \in Session /\ n.cursor = s.cursor
  BY ClearTimersType, ClearTimersFeed, ReleaseType, ReleaseFeed DEF SameFeed
<1>2. StopSession(s, FALSE) = [e EXCEPT !.stopped = TRUE]
  BY DEF StopSession
<1> HIDE DEF n
<1>3. [e EXCEPT !.stopped = TRUE].stopped = TRUE /\ [e EXCEPT !.stopped = TRUE].cursor = n.cursor
  BY <1>1 DEF Session
<1>4. QED BY <1>1, <1>2, <1>3

LEMMA CursorGrows ==
  ASSUME IInv, RingNumbered, [Next]_vars
  PROVE  session'.cursor \in Nat /\ session.cursor <= session'.cursor /\ RingNumbered'
<1>1. session \in Session /\ session' \in Session
  BY IndInductive DEF IInv, TypeOK
<1>2. session.cursor \in Nat /\ session'.cursor \in Nat /\ Len(session.events) \in Nat
  BY <1>1, EventsTyped
<1>3. CASE session.stopped
  BY <1>2, <1>3, StoppedStep DEF Inert, RingNumbered
<1>4. CASE ~session.stopped
  <2>1. Follows(session, session.cursor)
    <3>1. session.cursor <= session.cursor /\ session.cursor <= session.cursor + Len(session.events)
      BY <1>2
    <3>2. QED BY <1>2, <1>4, <3>1 DEF Follows, RingNumbered, Numbered
  <2>2. CASE Webhook \/ Confirm \/ Pause \/ Resume \/ Timer \/ Signature \/ Network
    <3>1. Follows(session', session.cursor)
      BY <2>1, <2>2, SessionStep
    <3>2. QED BY <1>2, <3>1 DEF Follows, RingNumbered, Numbered
  <2>3. CASE Stop
    <3>1. session' = StopSession(session, FALSE)
      BY <2>3 DEF Stop
    <3>2. session'.stopped /\ session'.cursor = session.cursor
      BY <1>1, <1>4, <3>1, SilentStop
    <3>3. QED BY <1>2, <3>2 DEF RingNumbered
  <2>4. CASE Poll
    <3>1. PICK n \in 0..Len(session.events) : session' = [session EXCEPT !.events = SubSeq(@, n + 1, Len(@))]
      BY <2>4 DEF Poll, GetEvents
    <3> DEFINE kept == SubSeq(session.events, n + 1, Len(session.events))
    <3>2. Numbered(kept, session.cursor)
      BY <1>1, <1>4, KeptNumbered DEF RingNumbered
    <3>3. session' = [session EXCEPT !.events = kept]
      BY <3>1
    <3> HIDE DEF kept
    <3>4. session'.events = kept /\ session'.cursor = session.cursor
      BY <1>1, <3>3 DEF Session
    <3>5. QED BY <1>2, <3>2, <3>4 DEF RingNumbered
  <2>5. CASE UNCHANGED vars
    BY <1>2, <2>5 DEF vars, RingNumbered, Numbered
  <2>6. QED BY <2>2, <2>3, <2>4, <2>5 DEF Next, User
<1>5. QED BY <1>3, <1>4

LEMMA SessionMoves ==
  ASSUME Reach, [ClientNext]_allVars PROVE [Next]_vars
<1>1. CASE Companion
  BY <1>1 DEF Companion, Next
<1>2. CASE PollServed
  <2>1. GetEvents(client.poll.after) /\ client.poll.after \in 0..session.cursor
    BY <1>2 DEF PollServed, Reach
  <2>2. QED BY <2>1 DEF Poll, Next
<1>3. CASE ControlServed
  <2>1. CASE Refused(client.control)
    BY <1>3, <2>1 DEF ControlServed, vars
  <2>2. CASE ~Refused(client.control)
    <3>1. Served(client.control) /\ client.control \in {"confirm", "pause", "resume"}
      BY <1>3, <2>2 DEF ControlServed, Reach, Controls
    <3>2. Confirm \/ Pause \/ Resume
      BY <3>1 DEF Served
    <3>3. QED BY <3>2 DEF Next, User
  <2>3. QED BY <2>1, <2>2
<1>4. CASE StopServed
  BY <1>4 DEF StopServed, Next, User, vars
<1>5. CASE \/ PollSends \/ PollReturns \/ PollFails
           \/ \E control \in Controls \ {"none"} : ControlSends(control)
           \/ ControlReturns \/ ControlFails \/ StopSends \/ UNCHANGED allVars
  BY <1>5 DEF PollSends, PollReturns, PollFails, ControlSends, ControlReturns, ControlFails, StopSends,
              allVars, vars
<1>6. QED BY <1>1, <1>2, <1>3, <1>4, <1>5 DEF ClientNext, Polling


LEMMA ReachKept ==
  ASSUME Reach, [Next]_vars, DOMAIN client' = ClientFields, client'.control \in Controls,
         client'.cursor = client.cursor, client'.poll = client.poll \/ client'.poll.at = "idle"
  PROVE  Reach'
<1>1. /\ session.cursor \in Nat /\ session'.cursor \in Nat /\ session.cursor <= session'.cursor
      /\ IInv' /\ RingNumbered'
  BY CursorGrows, IndInductive, EventsTyped DEF Reach, IInv, TypeOK
<1>2. \A c : c \in 0..session.cursor => c \in 0..session'.cursor
  BY <1>1
<1>3. QED BY <1>1, <1>2 DEF Reach

LEMMA AlikeReach ==
  ASSUME Reach, [Next]_vars, Alike(client, client') PROVE Reach'
  BY ReachKept DEF Alike

LEMMA FailKeeps ==
  ASSUME NEW c, DOMAIN c = ClientFields
  PROVE  /\ DOMAIN Fail(c) = ClientFields /\ Fail(c).control = c.control
         /\ Fail(c).cursor = c.cursor /\ Fail(c).poll = c.poll
  BY DEF Fail, ClientFields

LEMMA PollReach ==
  ASSUME Reach, [Next]_vars, Polling \/ PollFails PROVE Reach'
<1>1. DOMAIN client = ClientFields /\ client.control \in Controls
  BY DEF Reach
<1>2. /\ session.cursor \in Nat /\ session'.cursor \in Nat /\ session.cursor <= session'.cursor
      /\ IInv' /\ RingNumbered'
  BY CursorGrows, IndInductive, EventsTyped DEF Reach, IInv, TypeOK
<1>3. \A c : c \in 0..session.cursor => c \in 0..session'.cursor
  BY <1>2
<1>4. session'.cursor \in 0..session'.cursor
  BY <1>2
<1>5. CASE PollSends
  <2> DEFINE asked == [at |-> "asked", after |-> client.cursor]
  <2>1. client' = [client EXCEPT !.poll = asked] /\ asked.at = "asked" /\ asked.after = client.cursor
    BY <1>5 DEF PollSends
  <2> HIDE DEF asked
  <2>2. DOMAIN client' = ClientFields /\ client'.control = client.control /\ client'.cursor = client.cursor
        /\ client'.poll = asked
    BY <1>1, <2>1 DEF ClientFields
  <2>3. QED BY <1>2, <1>3, <2>1, <2>2 DEF Reach
<1>6. CASE PollServed
  <2> DEFINE waited == [at |-> "waited", after |-> client.poll.after]
             answered == [at |-> "answered", cursor |-> session'.cursor, events |-> session'.events,
                          state |-> session'.state, stopped |-> session'.stopped]
  <2>1. /\ client.poll.at \in {"asked", "waited"}
        /\ client' \in {[client EXCEPT !.poll = waited], [client EXCEPT !.poll = answered]}
    BY <1>6 DEF PollServed
  <2>2. waited.at = "waited" /\ waited.after = client.poll.after /\ answered.at = "answered"
        /\ answered.cursor = session'.cursor
    OBVIOUS
  <2> HIDE DEF waited, answered
  <2>3. DOMAIN client' = ClientFields /\ client'.control = client.control /\ client'.cursor = client.cursor
        /\ client'.poll \in {waited, answered}
    BY <1>1, <2>1 DEF ClientFields
  <2>4. client.poll.after \in 0..session.cursor /\ client.cursor \in 0..session.cursor
    BY <2>1 DEF Reach
  <2>5. QED BY <1>1, <1>2, <1>3, <1>4, <2>2, <2>3, <2>4 DEF Reach
<1>7. CASE PollReturns
  <2> DEFINE reply == client.poll
             shown == Shown(reply.events, client.shown)
             heard == [client EXCEPT !.poll = NoPoll, !.cursor = reply.cursor,
                                     !.paused = (reply.state = "paused"), !.shown = shown]
             deaf == [client EXCEPT !.poll = NoPoll]
  <2>1. client' \in {deaf, heard, Fail(heard)} /\ reply.at = "answered"
    BY <1>7 DEF PollReturns
  <2> HIDE DEF shown
  <2>2. DOMAIN heard = ClientFields /\ heard.control = client.control /\ heard.cursor = reply.cursor
        /\ heard.poll = NoPoll
    BY <1>1 DEF ClientFields
  <2>3. DOMAIN deaf = ClientFields /\ deaf.control = client.control /\ deaf.cursor = client.cursor
        /\ deaf.poll = NoPoll
    BY <1>1 DEF ClientFields
  <2> HIDE DEF heard, deaf
  <2>4. DOMAIN client' = ClientFields /\ client'.control = client.control
        /\ client'.cursor \in {client.cursor, reply.cursor} /\ client'.poll = NoPoll
    BY <2>1, <2>2, <2>3, FailKeeps
  <2>5. reply.cursor \in 0..session.cursor /\ client.cursor \in 0..session.cursor
    BY <2>1 DEF Reach
  <2>6. client'.poll.at = "idle"
    BY <2>4 DEF NoPoll
  <2>7. QED BY <1>1, <1>2, <1>3, <2>4, <2>5, <2>6 DEF Reach
<1>8. CASE PollFails
  <2> DEFINE deaf == [client EXCEPT !.poll = NoPoll]
  <2>1. DOMAIN deaf = ClientFields /\ deaf.control = client.control /\ deaf.cursor = client.cursor
        /\ deaf.poll = NoPoll
    BY <1>1 DEF ClientFields
  <2>2. client' = Fail(deaf)
    BY <1>8 DEF PollFails
  <2> HIDE DEF deaf
  <2>3. DOMAIN client' = ClientFields /\ client'.control = client.control /\ client'.cursor = client.cursor
        /\ client'.poll.at = "idle"
    BY <2>1, <2>2, FailKeeps DEF NoPoll
  <2>4. QED BY <1>1, <2>3, ReachKept
<1>9. QED BY <1>5, <1>6, <1>7, <1>8 DEF Polling

LEMMA ControlReach ==
  ASSUME Reach, [Next]_vars,
         \/ Companion \/ \E control \in Controls \ {"none"} : ControlSends(control)
         \/ ControlServed \/ ControlReturns \/ ControlFails \/ StopSends \/ StopServed
         \/ UNCHANGED allVars
  PROVE  Reach'
<1>1. DOMAIN client = ClientFields /\ client.control \in Controls
  BY DEF Reach
<1>2. CASE Companion \/ UNCHANGED allVars
  BY <1>1, <1>2, ReachKept DEF Companion, clientVars, allVars
<1>3. ASSUME NEW control \in Controls \ {"none"}, ControlSends(control) PROVE Reach'
  <2> DEFINE sent == [client EXCEPT !.control = control, !.reply = "due"]
  <2>1. Alike(client, Panel(client, control))
    BY <1>1, PanelFields
  <2>2. Alike(client, sent)
    BY <1>1 DEF Alike, ClientFields
  <2> HIDE DEF sent
  <2>3. client' \in {Panel(client, control), sent}
    BY <1>3 DEF ControlSends, sent
  <2>4. QED BY <2>1, <2>2, <2>3, AlikeReach
<1>4. CASE ControlServed
  <2>1. Alike(client, [client EXCEPT !.reply = "failed"]) /\ Alike(client, [client EXCEPT !.reply = "ok"])
    BY <1>1 DEF Alike, ClientFields
  <2>2. client' \in {[client EXCEPT !.reply = "failed"], [client EXCEPT !.reply = "ok"]}
    BY <1>4 DEF ControlServed
  <2>3. QED BY <2>1, <2>2, AlikeReach
<1>5. CASE ControlReturns
  <2> DEFINE paused == IF client.reply = "ok" /\ client.control # "confirm"
                       THEN client.control = "pause" ELSE client.paused
             told == [client EXCEPT !.paused = paused]
  <2>1. client' = Panel(told, client.control)
    BY <1>5 DEF ControlReturns
  <2> HIDE DEF paused
  <2>2. Alike(client, told)
    BY <1>1 DEF Alike, ClientFields
  <2> HIDE DEF told
  <2>3. Alike(told, Panel(told, client.control))
    BY <2>2, PanelFields DEF Alike
  <2>4. Alike(client, client')
    BY <2>1, <2>2, <2>3 DEF Alike
  <2>5. QED BY <2>4, AlikeReach
<1>6. CASE ControlFails
  <2>1. client' = Panel(client, client.control)
    BY <1>6 DEF ControlFails
  <2>2. QED BY <1>1, <2>1, PanelFields, AlikeReach
<1>7. CASE StopSends
  <2>1. client' = [client EXCEPT !.closed = TRUE, !.stopping = TRUE, !.mode = "ended", !.shown = "stopped"]
    BY <1>7 DEF StopSends
  <2>2. DOMAIN client' = ClientFields /\ client'.control = client.control /\ client'.cursor = client.cursor
        /\ client'.poll = client.poll
    BY <1>1, <2>1 DEF ClientFields
  <2>3. QED BY <1>1, <2>2, ReachKept
<1>8. CASE StopServed
  <2>1. client' = [client EXCEPT !.stopping = FALSE]
    BY <1>8 DEF StopServed
  <2>2. DOMAIN client' = ClientFields /\ client'.control = client.control /\ client'.cursor = client.cursor
        /\ client'.poll = client.poll
    BY <1>1, <2>1 DEF ClientFields
  <2>3. QED BY <1>1, <2>2, ReachKept
<1>9. QED BY <1>2, <1>3, <1>4, <1>5, <1>6, <1>7, <1>8

\* The session inside the composition of client, route, panel and controller behaves as a session
\* on its own does: a stale acknowledgement, a late control or a stop of a closed client asks
\* nothing of the controller that Spec does not allow, so that its theorems hold of it.
THEOREM SessionImplemented == SpecAll => Spec
<1>1. InitAll => Init /\ Reach
  <2> SUFFICES ASSUME InitAll PROVE Init /\ Reach
    OBVIOUS
  <2>1. session = NewSession /\ Init
    BY DEF InitAll, Init
  <2>2. /\ DOMAIN client = ClientFields /\ client.control \in Controls /\ client.cursor = 0
        /\ client.poll.at = "asked" /\ client.poll.after = 0
    BY DEF InitAll, ClientInit, ClientFields, Controls
  <2>3. IInv
    BY <2>1, NewSessionType, NewSessionInd DEF IInv, TypeOK, Init
  <2>4. session.cursor = 0 /\ session.events = <<>>
    BY <2>1 DEF NewSession
  <2>5. RingNumbered
    BY <2>4, EmptySeq DEF RingNumbered, Numbered
  <2>6. QED BY <2>1, <2>2, <2>3, <2>4, <2>5 DEF Reach
<1>2. Reach /\ [ClientNext]_allVars => Reach' /\ [Next]_vars
  <2> SUFFICES ASSUME Reach, [ClientNext]_allVars PROVE Reach' /\ [Next]_vars
    OBVIOUS
  <2>1. [Next]_vars
    BY SessionMoves
  <2>2. QED BY <2>1, PollReach, ControlReach DEF ClientNext
<1>3. QED BY <1>1, <1>2, PTL DEF SpecAll, Spec

=============================================================================
