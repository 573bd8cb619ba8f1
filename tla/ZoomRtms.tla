------------------------------ MODULE ZoomRtms ------------------------------
(***************************************************************************)
(* One Zoom RTMS session of the companion (companion/zoom-rtms-bridge.mjs, *)
(* createZoomRtmsController): the signed webhooks that announce, interrupt *)
(* and end a stream, the user's confirm / pause / resume / stop, the arm   *)
(* and confirmation timers, the asynchronous client signature, the         *)
(* signaling and media WebSockets and the ring of browser events.          *)
(*                                                                         *)
(* JavaScript runs one callback at a time, so one action is one callback:  *)
(* from its first statement, or from the statement after an await, to its  *)
(* end or to the next await.  The helpers below are functions from session *)
(* to session; a callback that calls several of them composes them in the  *)
(* order of the code.                                                      *)
(*                                                                         *)
(* Identities, signatures, URLs and texts are abstracted: a stream is a    *)
(* member of Streams, a transcript packet a member of Packets.             *)
(***************************************************************************)
EXTENDS Naturals, Sequences, FiniteSets

CONSTANTS
  Streams,      \* (meeting_uuid, rtms_stream_id) pairs that webhooks can name
  Packets,      \* transcript packets, identified by their digest
  Speakers,     \* raw user ids
  SpeakerOf,    \* the speaker of a packet
  None,         \* no stream: a null pendingPayload, an empty streamKey
  MaxEvents,    \* maximumEvents, 256 in the code
  MaxAliases,   \* maximumSpeakerAliases, 999 in the code
  MaxSeen,      \* maximumSeenPackets, 512 in the code
  Horizon       \* bound of the model: no outside event is taken once cursor reaches it

ASSUME ZoomConstants ==
  /\ None \notin Streams
  /\ SpeakerOf \in [Packets -> Speakers]
  /\ MaxEvents \in Nat \ {0}
  /\ MaxAliases \in Nat
  /\ MaxSeen \in Nat \ {0}
  /\ Horizon \in Nat

VARIABLES
  session,      \* the session object with the sockets, timers and promises made for it
  armed         \* armedUntil >= now()

vars == <<session, armed>>

States == {"waiting", "awaiting-confirmation", "connecting", "active",
           "paused", "degraded", "stopped"}

EventValue ==
  [type : {"state"}, state : States]
    \cup [type : {"utterance"}, packet : Packets, alias : Nat]

Event == [cursor : Nat, value : EventValue]

\* A WebSocket made for the session.  Its handlers captured the generation and
\* the stream.  "answered": the signaling handshake was accepted; "streaming":
\* the media handshake was; "closing": close() was called, the close event is due.
Socket == [kind : {"signaling", "media"}, gen : Nat, stream : Streams,
           phase : {"connecting", "open", "answered", "streaming", "closing"}]

Session ==
  [state : States, stopped : BOOLEAN, paused : BOOLEAN, stateBeforePause : States,
   bound : BOOLEAN, generation : Nat, cursor : Nat, events : Seq(Event),
   aliases : Seq(Speakers),            \* the k-th entry is shown as speaker-k
   seenPackets : Seq(Packets),         \* digests, oldest first
   signalingSocket : Nat,              \* generation of the socket, 0 for null
   mediaSocket : Nat,
   streamKey : Streams \cup {None},
   armTimer : BOOLEAN,
   pendingPayload : Streams \cup {None},
   confirmationTimer : Nat,            \* the timer's id, 0 for null
   timers : SUBSET Nat,                \* confirmation timers that are running
   signing : SUBSET [gen : Nat, stream : Streams],  \* signClient calls under way
   sockets : SUBSET Socket]

TypeOK == session \in Session /\ armed \in BOOLEAN

-----------------------------------------------------------------------------
(* Helpers of the controller *)

StateEvent(st) == [type |-> "state", state |-> st]

Holds(s, k) == k.gen = (IF k.kind = "media" THEN s.mediaSocket ELSE s.signalingSocket)

ClosedIfHeld(s, k) == IF Holds(s, k) THEN [k EXCEPT !.phase = "closing"] ELSE k

\* Mutants of Release: the media socket is forgotten without being closed; the
\* speakers are kept.
ReleaseLeaksMedia(s) ==
  [s EXCEPT !.sockets = {IF k.kind = "signaling" THEN ClosedIfHeld(s, k) ELSE k : k \in @},
            !.mediaSocket = 0, !.signalingSocket = 0, !.aliases = <<>>, !.seenPackets = <<>>]

ReleaseKeepsAliases(s) ==
  [s EXCEPT !.sockets = {ClosedIfHeld(s, k) : k \in @},
            !.mediaSocket = 0, !.signalingSocket = 0, !.seenPackets = <<>>]

\* The lines that overflow, stopSession and degrade share: both sockets closed
\* and forgotten, aliases and packet digests cleared.
Release(s) ==
  [s EXCEPT !.sockets = {ClosedIfHeld(s, k) : k \in @},
            !.mediaSocket = 0, !.signalingSocket = 0,
            !.aliases = <<>>, !.seenPackets = <<>>]

Append1(s, value) ==
  [s EXCEPT !.cursor = @ + 1,
            !.events = Append(@, [cursor |-> s.cursor + 1, value |-> value])]

\* Mutant of Overflow: the reason of the state event in the place of its state.
OverflowMisnamed(s) ==
  Append1([Release(s) EXCEPT !.events = <<>>, !.state = "degraded", !.generation = @ + 1],
          StateEvent("event-buffer-overflow"))

Overflow(s) ==
  Append1([Release(s) EXCEPT !.events = <<>>, !.state = "degraded", !.generation = @ + 1],
          StateEvent("degraded"))

Push(s, value) ==
  IF s.stopped THEN s
  ELSE IF Len(s.events) >= MaxEvents THEN Overflow(s)
  ELSE Append1(s, value)

PushState(s, st) == Push([s EXCEPT !.state = st], StateEvent(st))

\* clearTimeout reaches only the timer whose handle the session still holds.
ClearTimers(s) ==
  [s EXCEPT !.armTimer = FALSE, !.timers = @ \ {s.confirmationTimer},
            !.confirmationTimer = 0, !.pendingPayload = None]

StopSession(s, emitState) ==
  LET released == [Release(ClearTimers(s)) EXCEPT !.state = "stopped", !.generation = @ + 1]
      told     == IF emitState THEN PushState(released, "stopped")
                               ELSE [released EXCEPT !.events = <<>>]
  IN IF s.stopped THEN s ELSE [told EXCEPT !.stopped = TRUE]

\* Mutant of Degrade: a failure that arrives after stop is still announced.
DegradeAfterStop(s) ==
  [Release(ClearTimers(s)) EXCEPT !.state = "degraded", !.generation = @ + 1]

Degrade(s) ==
  IF s.stopped THEN s
  ELSE [PushState(Release(ClearTimers(s)), "degraded") EXCEPT !.generation = @ + 1]

\* connect up to its await: the attempt and its generation are now in flight.
Connect(s, stream) ==
  IF s.stopped \/ s.state \notin {"waiting", "degraded"} THEN s
  ELSE LET gen == s.generation + 1
       IN [PushState([s EXCEPT !.generation = gen], "connecting")
             EXCEPT !.streamKey = stream,
                    !.signing = @ \cup {[gen |-> gen, stream |-> stream]}]

\* transcriptUtterance and the push that follows it: a packet already seen is
\* dropped, the digest set forgets its oldest entry, a speaker gets the next alias,
\* one speaker too many is an exception, and a paused session drops the utterance.
Remember(seen, p) ==
  IF Len(seen) < MaxSeen THEN Append(seen, p) ELSE Append(Tail(seen), p)

AliasOf(aliases, p) == CHOOSE i \in 1..Len(aliases) : aliases[i] = SpeakerOf[p]

Known(aliases, p) == \E i \in 1..Len(aliases) : aliases[i] = SpeakerOf[p]

Seen(s, p) == \E i \in 1..Len(s.seenPackets) : s.seenPackets[i] = p

TranscriptUtterance(s, p) ==
  LET named == IF Known(s.aliases, p) THEN s.aliases ELSE Append(s.aliases, SpeakerOf[p])
      noted == [s EXCEPT !.seenPackets = Remember(@, p), !.aliases = named]
  IN IF Seen(s, p) THEN s
     ELSE IF Len(named) > MaxAliases THEN Degrade(s)
     ELSE IF s.paused THEN noted
     ELSE Push(noted, [type |-> "utterance", packet |-> p, alias |-> AliasOf(named, p)])

\* The test every handler of a socket and every continuation makes first.
Current(s, gen) == ~s.stopped /\ s.generation = gen

Room == session.cursor < Horizon

-----------------------------------------------------------------------------
(* createSession: the session as it is when the browser learns its id *)

NewSession ==
  [state |-> "waiting", stopped |-> FALSE, paused |-> FALSE, stateBeforePause |-> "waiting",
   bound |-> FALSE, generation |-> 0, cursor |-> 0, events |-> <<>>,
   aliases |-> <<>>, seenPackets |-> <<>>, signalingSocket |-> 0, mediaSocket |-> 0,
   streamKey |-> None, armTimer |-> TRUE, pendingPayload |-> None, confirmationTimer |-> 0,
   timers |-> {}, signing |-> {}, sockets |-> {}]

Init == session = NewSession /\ armed = TRUE

-----------------------------------------------------------------------------
(* Webhooks, after their signature was verified *)

Unbound == ~session.stopped /\ ~session.bound

\* A second announcement while one waits for the user: both are dropped.
StartedAmbiguous(stream) ==
  /\ Unbound /\ session.state = "awaiting-confirmation"
  /\ session' = Degrade(session)
  /\ UNCHANGED armed

\* The new timer's id is the cursor the state event is about to get, which no
\* earlier timer has.  A handle the session still held is overwritten.
StartedWaiting(stream) ==
  /\ Unbound /\ session.state = "waiting" /\ armed
  /\ LET told  == PushState([session EXCEPT !.pendingPayload = stream], "awaiting-confirmation")
         timer == session.cursor + 1
     IN session' = [told EXCEPT !.confirmationTimer = timer, !.timers = @ \cup {timer}]
  /\ UNCHANGED armed

Started(stream) == Room /\ (StartedAmbiguous(stream) \/ StartedWaiting(stream))

\* Mutant of Interrupted: the stream of the webhook is not compared.
InterruptedAny(stream, hasUrl) ==
  /\ Room
  /\ ~session.stopped /\ session.bound
  /\ session' = IF hasUrl THEN Connect(Degrade(session), stream) ELSE Degrade(session)
  /\ UNCHANGED armed

\* hasUrl: Zoom named a server to reconnect to.
Interrupted(stream, hasUrl) ==
  /\ Room
  /\ ~session.stopped /\ session.bound /\ session.streamKey = stream
  /\ session' = IF hasUrl THEN Connect(Degrade(session), stream) ELSE Degrade(session)
  /\ UNCHANGED armed

\* Mutant of StreamStopped: the browser is not told why its session ends.
StreamStoppedSilently(stream) ==
  /\ ~session.stopped /\ session.streamKey = stream
  /\ session' = StopSession(session, FALSE)
  /\ UNCHANGED armed

StreamStopped(stream) ==
  /\ ~session.stopped /\ session.streamKey = stream
  /\ session' = StopSession(session, TRUE)
  /\ UNCHANGED armed

-----------------------------------------------------------------------------
(* Requests of the browser *)

Confirm ==
  /\ Room
  /\ ~session.stopped /\ session.state = "awaiting-confirmation"
  /\ session.pendingPayload # None
  /\ session' = Connect([ClearTimers(session) EXCEPT !.bound = TRUE, !.state = "waiting"],
                        session.pendingPayload)
  /\ UNCHANGED armed

Pause ==
  /\ Room
  /\ ~session.stopped
  /\ session' = PushState([session EXCEPT !.stateBeforePause = session.state, !.paused = TRUE],
                          "paused")
  /\ UNCHANGED armed

Resume ==
  /\ Room
  /\ ~session.stopped /\ session.paused
  /\ session' = PushState([session EXCEPT !.paused = FALSE],
                          IF session.stateBeforePause \in {"active", "connecting"}
                          THEN session.stateBeforePause ELSE "waiting")
  /\ UNCHANGED armed

Stop ==
  /\ ~session.stopped
  /\ session' = StopSession(session, FALSE)
  /\ UNCHANGED armed

\* The browser acknowledges what it has up to cursor `after`: the filter of the
\* code drops those n events, a prefix of the ring because cursors only grow.
GetEvents(after) ==
  \E n \in 0..Len(session.events) :
    /\ \A i \in 1..Len(session.events) : session.events[i].cursor <= after <=> i <= n
    /\ session' = [session EXCEPT !.events = SubSeq(@, n + 1, Len(@))]
    /\ UNCHANGED armed

-----------------------------------------------------------------------------
(* Timers *)

ArmWindowCloses == armed /\ armed' = FALSE /\ UNCHANGED session

ArmTimerFires ==
  /\ session.armTimer /\ ~armed
  /\ session' = LET fired == [session EXCEPT !.armTimer = FALSE]
                IN IF ~session.bound THEN Degrade(fired) ELSE fired
  /\ UNCHANGED armed

\* Mutant of ConfirmationTimerFires: only a session that still shows the question
\* forgets the announcement.
ConfirmationTimerIfShown(timer) ==
  /\ timer \in session.timers
  /\ session' = LET fired == [session EXCEPT !.timers = @ \ {timer}]
                IN IF session.state = "awaiting-confirmation" THEN Degrade(fired) ELSE fired
  /\ UNCHANGED armed

ConfirmationTimerFires(timer) ==
  /\ timer \in session.timers
  /\ session' = LET fired == [session EXCEPT !.timers = @ \ {timer}, !.pendingPayload = None,
                                             !.confirmationTimer = 0]
                IN IF ~session.bound THEN Degrade(fired) ELSE fired
  /\ UNCHANGED armed

-----------------------------------------------------------------------------
(* The signature promise of connect *)

SignSucceeds(attempt) ==
  /\ attempt \in session.signing
  /\ LET signed == [session EXCEPT !.signing = @ \ {attempt}]
         socket == [kind |-> "signaling", gen |-> attempt.gen, stream |-> attempt.stream,
                    phase |-> "connecting"]
     IN session' = IF Current(session, attempt.gen)
                   THEN [signed EXCEPT !.sockets = @ \cup {socket}, !.signalingSocket = attempt.gen]
                   ELSE signed
  /\ UNCHANGED armed

\* signClient rejects, or the URL or the constructor of the socket is refused:
\* the .catch of the call site, which does not look at the generation.
SignFails(attempt) ==
  /\ attempt \in session.signing
  /\ session' = Degrade([session EXCEPT !.signing = @ \ {attempt}])
  /\ UNCHANGED armed

-----------------------------------------------------------------------------
(* Sockets *)

Rephase(s, k, phase) == [s EXCEPT !.sockets = (@ \ {k}) \cup {[k EXCEPT !.phase = phase]}]

SocketOpens(k) ==
  /\ k \in session.sockets /\ k.phase = "connecting"
  /\ session' = Rephase(session, k, IF Current(session, k.gen) THEN "open" ELSE "closing")
  /\ UNCHANGED armed

\* Message type 2 with a transcript server: openMedia, which has no await.
SignalingAccepted(k) ==
  /\ k \in session.sockets /\ k.kind = "signaling" /\ k.phase = "open"
  /\ LET answered == Rephase(session, k, "answered")
         media == [kind |-> "media", gen |-> k.gen, stream |-> k.stream, phase |-> "connecting"]
     IN session' = IF Current(session, k.gen)
                   THEN [answered EXCEPT !.sockets = @ \cup {media}, !.mediaSocket = k.gen]
                   ELSE answered
  /\ UNCHANGED armed

\* The peer starts to close: the socket is no longer open, its event is still due.
PeerCloses(k) ==
  /\ k \in session.sockets /\ k.phase \in {"open", "answered", "streaming"}
  /\ session' = Rephase(session, k, "closing")
  /\ UNCHANGED armed

SignalingOpen(s) ==
  \E k \in s.sockets : /\ k.kind = "signaling" /\ k.gen = s.signalingSocket
                       /\ k.phase \in {"open", "answered"}

\* Message type 4: the acknowledgement goes out on the signaling socket.
MediaAccepted(k) ==
  /\ Room
  /\ k \in session.sockets /\ k.kind = "media" /\ k.phase = "open"
  /\ LET streaming == Rephase(session, k, "streaming")
     IN session' = CASE ~Current(session, k.gen) -> streaming
                     [] Current(session, k.gen) /\ ~SignalingOpen(session) -> Degrade(streaming)
                     [] OTHER -> PushState(streaming, "active")
  /\ UNCHANGED armed

Transcript(k, p) ==
  /\ Room
  /\ k \in session.sockets /\ k.phase = "streaming"
  /\ session' = IF Current(session, k.gen) THEN TranscriptUtterance(session, p) ELSE session
  /\ UNCHANGED armed

\* A rejected handshake or a message the parser refuses.
BadMessage(k) ==
  /\ k \in session.sockets /\ k.phase \in {"open", "answered", "streaming"}
  /\ session' = IF Current(session, k.gen) THEN Degrade(session) ELSE session
  /\ UNCHANGED armed

SocketErrors(k) ==
  /\ k \in session.sockets /\ k.phase # "closing"
  /\ LET closing == Rephase(session, k, "closing")
     IN session' = IF Current(session, k.gen) THEN Degrade(closing) ELSE closing
  /\ UNCHANGED armed

SocketCloses(k) ==
  /\ k \in session.sockets
  /\ LET closed == [session EXCEPT !.sockets = @ \ {k}]
     IN session' = IF Current(session, k.gen) /\ session.state # "degraded"
                   THEN Degrade(closed) ELSE closed
  /\ UNCHANGED armed

-----------------------------------------------------------------------------

Webhook == \E stream \in Streams : \/ Started(stream)
                                   \/ \E hasUrl \in BOOLEAN : Interrupted(stream, hasUrl)
                                   \/ StreamStopped(stream)

User == Confirm \/ Pause \/ Resume \/ Stop

Poll == \E after \in 0..session.cursor : GetEvents(after)

Timer == \/ ArmWindowCloses \/ ArmTimerFires
         \/ \E timer \in session.timers : ConfirmationTimerFires(timer)

Signature == \E attempt \in session.signing : SignSucceeds(attempt) \/ SignFails(attempt)

Network == \E k \in session.sockets :
  \/ SocketOpens(k) \/ SignalingAccepted(k) \/ MediaAccepted(k)
  \/ \E p \in Packets : Transcript(k, p)
  \/ BadMessage(k) \/ PeerCloses(k) \/ SocketErrors(k) \/ SocketCloses(k)

Next == Webhook \/ User \/ Poll \/ Timer \/ Signature \/ Network

Spec == Init /\ [][Next]_vars

\* Node runs every timer that is due.  Nothing obliges the user, the browser,
\* Zoom or the network to do anything.
FairSpec ==
  Spec /\ WF_vars(\E timer \in session.timers : ConfirmationTimerFires(timer))

-----------------------------------------------------------------------------
(* Properties *)

Live(s) == {k \in s.sockets : k.phase # "closing"}

\* Whatever webhooks, timers, late signatures and socket events interleave, a
\* socket that is not being closed is the one of its kind the session refers to,
\* belongs to the current attempt of a running, confirmed session, and carries the
\* stream the session is bound to: stop, degrade and overflow leave none behind.
OneConnection ==
  /\ \A k \in Live(session) :
       /\ Current(session, k.gen) /\ Holds(session, k)
       /\ session.bound /\ k.stream = session.streamKey
  /\ \A j, k \in Live(session) : j.kind = k.kind => j = k

\* Once a session reports degraded or is stopped, the speaker map and the packet
\* digests are gone and stay gone, however it got there (user, Zoom, timer,
\* failure or overflow of the ring).
IdentityForgotten ==
  session.stopped \/ session.state = "degraded"
    => session.aliases = <<>> /\ session.seenPackets = <<>>

\* A stopped session is inert: no callback that was under way revives it, moves
\* its cursor, adds an event or opens a socket.
StoppedIsFinal ==
  [][session.stopped =>
       /\ session'.stopped /\ session'.state = session.state
       /\ session'.cursor = session.cursor
       /\ Live(session') = {}
       /\ \A i \in 1..Len(session'.events) :
            \E j \in 1..Len(session.events) : session'.events[i] = session.events[j]]_vars

\* The stream a session connects to is the one that was waiting for the user when
\* the user confirmed, and it never changes: no interruption or late webhook binds
\* the session to another meeting.
ConfirmedStreamOnly ==
  [][session'.streamKey # session.streamKey \/ session'.bound # session.bound =>
       /\ ~session.bound /\ session'.bound
       /\ session.state = "awaiting-confirmation"
       /\ session'.streamKey = session.pendingPayload]_vars

\* The raw identity of an announced meeting is kept in memory for a bounded time:
\* it is dropped even when nobody answers, and even when a second announcement
\* overwrote the handle of the first one's timer.
PendingForgotten == (session.pendingPayload # None) ~> (session.pendingPayload = None)

=============================================================================
