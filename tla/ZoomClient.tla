----------------------------- MODULE ZoomClient -----------------------------
(***************************************************************************)
(* The browser's side of a Zoom RTMS session, composed with the session of *)
(* the companion: LocalZoomRtmsClient polls for events and acknowledges    *)
(* them with its cursor, sends the user's confirm / pause / resume / stop, *)
(* and the capture panel shows the state it heard last and decides from it *)
(* which of these controls it offers.                                      *)
(*                                                                         *)
(* A request has three moments that other callbacks may separate: it is    *)
(* sent, the companion serves it, its response is handled.  A request or   *)
(* its response may fail at any of them.                                   *)
(***************************************************************************)
EXTENDS ZoomRtms

VARIABLES
  client,   \* the LocalZoomRtmsClient and the panel state that depends on it
  got       \* history: cursor of every event heard, and whether it reports degraded

clientVars == <<client, got>>
allVars == <<session, armed, client, got>>

NoPoll == [at |-> "idle"]

Controls == {"none", "confirm", "pause", "resume"}

\* The poll is asked, waited or answered; reply is that of the control: due, ok or failed.
ClientInit ==
  /\ client = [closed |-> FALSE,       \* #closed
               cursor |-> 0,           \* #cursor
               paused |-> FALSE,       \* #paused
               poll |-> [at |-> "asked", after |-> 0],      \* the one request of #poll
               control |-> "none", reply |-> "due",         \* the control the panel awaits
               stopping |-> FALSE,     \* a stop request is on its way
               mode |-> "listening",   \* the panel's session state
               shown |-> "waiting"]    \* zoomRtmsState
  /\ got = <<>>

-----------------------------------------------------------------------------
(* The poll loop *)

\* #fail: the client closes, asks the companion to stop, and the panel ends.
Fail(c) == IF c.closed THEN c
           ELSE [c EXCEPT !.closed = TRUE, !.stopping = TRUE, !.mode = "ended",
                          !.shown = "stopped"]

PollSends ==
  /\ ~client.closed /\ client.poll = NoPoll
  /\ client' = [client EXCEPT !.poll = [at |-> "asked", after |-> client.cursor]]
  /\ UNCHANGED <<session, armed, got>>

\* The route looks once, and once more 200 ms later when there was nothing to tell.
PollServed ==
  /\ client.poll.at \in {"asked", "waited"}
  /\ GetEvents(client.poll.after)
  /\ client' = [client EXCEPT !.poll =
       IF client.poll.at = "asked" /\ session'.events = <<>> /\ ~session.stopped
       THEN [at |-> "waited", after |-> client.poll.after]
       ELSE [at |-> "answered", cursor |-> session'.cursor, events |-> session'.events,
             state |-> session'.state, stopped |-> session'.stopped]]
  /\ UNCHANGED got

\* What the panel shows after a batch: the last state event of it.
Shown(events, before) ==
  LET told == {i \in 1..Len(events) : events[i].value.type = "state"}
  IN IF told = {} THEN before
     ELSE events[CHOOSE i \in told : \A j \in told : j <= i].value.state

Heard(events) ==
  [i \in 1..Len(events) |->
     [cursor |-> events[i].cursor,
      notice |-> events[i].value.type = "state" /\ events[i].value.state = "degraded"]]

\* Mutant of PollReturns: the cursor of a batch is not kept.
PollForgetsCursor ==
  /\ client.poll.at = "answered" /\ ~client.closed
  /\ LET reply == client.poll
         heard == [client EXCEPT !.poll = NoPoll, !.paused = (reply.state = "paused"),
                                 !.shown = Shown(reply.events, client.shown)]
     IN /\ client' = IF reply.stopped THEN Fail(heard) ELSE heard
        /\ got' = got \o Heard(reply.events)
  /\ UNCHANGED <<session, armed>>

\* Mutant of PollReturns: a stopped session is polled on.
PollIgnoresStopped ==
  /\ client.poll.at = "answered"
  /\ LET reply == client.poll
         heard == [client EXCEPT !.poll = NoPoll, !.cursor = reply.cursor,
                                 !.paused = (reply.state = "paused"),
                                 !.shown = Shown(reply.events, client.shown)]
     IN IF client.closed THEN client' = [client EXCEPT !.poll = NoPoll] /\ UNCHANGED got
        ELSE client' = heard /\ got' = got \o Heard(reply.events)
  /\ UNCHANGED <<session, armed>>

\* The events of a response are handed to the panel in one go; then the cursor moves.
PollReturns ==
  /\ client.poll.at = "answered"
  /\ LET reply == client.poll
         heard == [client EXCEPT !.poll = NoPoll, !.cursor = reply.cursor,
                                 !.paused = (reply.state = "paused"),
                                 !.shown = Shown(reply.events, client.shown)]
     IN IF client.closed THEN client' = [client EXCEPT !.poll = NoPoll] /\ UNCHANGED got
        ELSE /\ client' = IF reply.stopped THEN Fail(heard) ELSE heard
             /\ got' = got \o Heard(reply.events)
  /\ UNCHANGED <<session, armed>>

\* The request or its response is lost, or the companion no longer has the session.
PollFails ==
  /\ client.poll # NoPoll
  /\ client' = Fail([client EXCEPT !.poll = NoPoll])
  /\ UNCHANGED <<session, armed, got>>

-----------------------------------------------------------------------------
(* Controls *)

Offered(control) ==
  CASE control = "confirm" -> client.mode # "ended" /\ client.shown = "awaiting-confirmation"
    [] control = "pause"   -> client.mode = "listening" /\ client.shown = "active"
    [] control = "resume"  -> client.mode = "paused"

\* The early returns of confirm, pause and resume: no request is made, no error raised.
Skipped(control) ==
  client.closed \/ (IF control = "resume" THEN ~client.paused ELSE client.paused)

Panel(c, control) ==
  [c EXCEPT !.control = "none", !.reply = "due",
            !.mode = CASE @ = "ended" -> @
                       [] @ # "ended" /\ control = "pause" -> "paused"
                       [] @ # "ended" /\ control = "resume" -> "listening"
                       [] OTHER -> @]

ControlSends(control) ==
  /\ client.control = "none" /\ Offered(control)
  /\ client' = IF Skipped(control) THEN Panel(client, control)
               ELSE [client EXCEPT !.control = control, !.reply = "due"]
  /\ UNCHANGED <<session, armed, got>>

Served(control) ==
  CASE control = "confirm" -> Confirm
    [] control = "pause" -> Pause
    [] control = "resume" -> Resume

\* The companion refuses a control its session is not ready for.
Refused(control) ==
  \/ session.stopped
  \/ control = "confirm" /\ (session.state # "awaiting-confirmation" \/ session.pendingPayload = None)
  \/ control = "resume" /\ ~session.paused

ControlServed ==
  /\ client.control # "none" /\ client.reply = "due"
  /\ IF Refused(client.control)
     THEN client' = [client EXCEPT !.reply = "failed"] /\ UNCHANGED <<session, armed>>
     ELSE client' = [client EXCEPT !.reply = "ok"] /\ Served(client.control)
  /\ UNCHANGED got

\* #paused follows an answered control; the panel swallows a failure and moves on.
ControlReturns ==
  /\ client.control # "none" /\ client.reply # "due"
  /\ client' = Panel([client EXCEPT !.paused =
                        IF client.reply = "ok" /\ client.control # "confirm"
                        THEN client.control = "pause" ELSE @], client.control)
  /\ UNCHANGED <<session, armed, got>>

ControlFails ==
  /\ client.control # "none"
  /\ client' = Panel(client, client.control)
  /\ UNCHANGED <<session, armed, got>>

\* stop: the client is deaf at once, the companion learns of it later.
StopSends ==
  /\ ~client.closed
  /\ client' = [client EXCEPT !.closed = TRUE, !.stopping = TRUE, !.mode = "ended",
                              !.shown = "stopped"]
  /\ UNCHANGED <<session, armed, got>>

StopServed ==
  /\ client.stopping
  /\ client' = [client EXCEPT !.stopping = FALSE]
  /\ IF session.stopped THEN UNCHANGED <<session, armed>> ELSE Stop
  /\ UNCHANGED got

-----------------------------------------------------------------------------

Companion == (Webhook \/ Timer \/ Signature \/ Network) /\ UNCHANGED clientVars

Polling == PollSends \/ PollServed \/ PollReturns

ClientNext ==
  \/ Companion
  \/ Polling \/ PollFails
  \/ \E control \in Controls \ {"none"} : ControlSends(control)
  \/ ControlServed \/ ControlReturns \/ ControlFails
  \/ StopSends \/ StopServed

InitAll == Init /\ ClientInit

SpecAll == InitAll /\ [][ClientNext]_allVars

\* The poll loop has no delay of its own and the companion answers every request.
FairSpecAll == SpecAll /\ WF_allVars(Polling)

-----------------------------------------------------------------------------
(* Properties *)

Feed == INSTANCE EventFeed WITH got <- got

\* The poll and acknowledgement protocol of LocalZoomRtmsClient and getEvents, with
\* the overflow of push between them, is a numbered feed: nothing is heard twice
\* or out of order, and nothing is missed unless a degraded notice says so.
AnnouncedLoss == Feed!Spec

\* A session that ended, whoever ended it, is noticed by an open client.
EndIsNoticed == session.stopped ~> client.closed

\* When the client closes because the session stopped, the panel has been told
\* why: the last event heard is the end of the stream or the loss of the ring.
EndIsTold ==
  [][client'.closed /\ ~client.closed /\ client.poll.at = "answered" /\ client'.poll = NoPoll
       /\ client.poll.stopped
       => Shown(client.poll.events, client.shown) \in {"stopped", "degraded"}]_allVars

\* capture-panel.tsx tells the user, on active, that the transcript is being
\* received: no utterance is dropped because of a pause that was lifted.
NoSilentPause ==
  client.mode = "listening" /\ client.control = "none" /\ client.shown = "active"
    /\ client.poll = NoPoll /\ client.cursor = session.cursor /\ session.state = "active"
    => ~session.paused

=============================================================================
