----------------------------- MODULE TeamsAudio -----------------------------
(***************************************************************************)
(* The Teams audio fallback of the browser, composed with its session in   *)
(* the companion: the probe that must precede it and the consent it was    *)
(* made under, the start request, the client that polls                    *)
(* (local-teams-audio-client.ts), and what the capture panel shows of the  *)
(* state of the capture (capture-panel.tsx).                               *)
(*                                                                         *)
(* The other half of the fallback, the microphone with its client, is      *)
(* running when the start request is sent; here it may fail, and the       *)
(* user's stop ends it first.                                              *)
(***************************************************************************)
EXTENDS TeamsBridge

CONSTANTS
  MaxConsents,      \* bound of the model: how often the consent is given
  MaxGenerations,   \* bound of the model: generations of probes
  MaxLost           \* bound of the model: lost requests and tabs, which count as faults too

ASSUME FallbackConstants ==
  MaxConsents \in Nat /\ MaxGenerations \in Nat /\ MaxLost \in Nat

VARIABLES
  consent,   \* consentAllowedRef; epoch (history): how often it was given
  probe,     \* teamsAudioProbeGenerationRef, the probes under way and the report on the
             \* screen, each with the epoch it was asked in
  start,     \* the start request
  client,    \* LocalTeamsAudioClient
  poll,      \* its events request
  stop,      \* the one stop request it sends
  panel      \* the fallback in the panel and teamsAudioState

clientVars == <<consent, probe, start, client, poll, stop, panel>>
workers == <<helper, pipe, bridge, input, transcriber, output, changes>>
allVars == <<session, helper, pipe, bridge, input, transcriber, output, changes, faults,
             consent, probe, start, client, poll, stop, panel>>

NoPoll == [at |-> "idle", events |-> <<>>, stopped |-> FALSE]

InitAll ==
  /\ Init
  /\ consent = [given |-> FALSE, epoch |-> 0]
  /\ probe = [generation |-> 0, flights |-> {}, report |-> 0]
  /\ start = "none" /\ client = "none" /\ poll = NoPoll /\ stop = "none"
  /\ panel = [at |-> "off", shown |-> "stopped"]

-----------------------------------------------------------------------------
(* The panel ends the fallback *)

\* stop() of the client; a closed one does nothing.
ClientStops ==
  /\ client' = IF client = "open" THEN "closed" ELSE client
  /\ stop' = IF client = "open" THEN "sent" ELSE stop
  /\ poll' = NoPoll

\* stop of the panel: events are ignored from now on, the client is stopped when the
\* microphone has been; a start under way is given up when its response comes.
Stopping == panel' = CASE panel.at = "starting" -> [at |-> "ended", shown |-> "stopped"]
                       [] panel.at = "running" -> [panel EXCEPT !.at = "stopping"]
                       [] OTHER -> panel

StopClicked ==
  /\ panel.at \in {"starting", "running"} /\ Stopping
  /\ UNCHANGED <<vars, consent, probe, start, client, poll, stop>>

MicrophoneStopped ==
  /\ panel.at = "stopping" /\ panel' = [at |-> "ended", shown |-> "stopped"]
  /\ ClientStops
  /\ UNCHANGED <<vars, consent, probe, start>>

\* The failure of the own side ends the whole fallback.
OwnSideFails ==
  /\ panel.at = "running" /\ panel' = [at |-> "ended", shown |-> "stopped"]
  /\ ClientStops
  /\ UNCHANGED <<vars, consent, probe, start>>

-----------------------------------------------------------------------------
(* Consent and probe *)

ConsentGiven ==
  /\ ~consent.given /\ consent.epoch < MaxConsents
  /\ consent' = [given |-> TRUE, epoch |-> consent.epoch + 1]
  /\ UNCHANGED <<vars, probe, start, client, poll, stop, panel>>

ConsentRevoked ==
  /\ consent.given /\ consent' = [consent EXCEPT !.given = FALSE]
  /\ probe' = [probe EXCEPT !.generation = @ + 1, !.report = 0]
  /\ Stopping
  /\ UNCHANGED <<vars, start, client, poll, stop>>

ProbeClicked ==
  /\ consent.given /\ panel.at = "off" /\ probe.generation < MaxGenerations
  /\ \A flight \in probe.flights : flight.generation # probe.generation
  /\ probe' = [generation |-> probe.generation + 1, report |-> 0, flights |-> probe.flights \cup
                 {[generation |-> probe.generation + 1, epoch |-> consent.epoch]}]
  /\ UNCHANGED <<vars, consent, start, client, poll, stop, panel>>

\* Mutant of ProbeReturns: only the consent is looked at.
ProbeReturnsLate ==
  /\ \E flight \in probe.flights :
       probe' \in {[probe EXCEPT !.flights = @ \ {flight}, !.report = report] :
                     report \in {probe.report} \cup (IF consent.given THEN {flight.epoch} ELSE {})}
  /\ UNCHANGED <<vars, consent, start, client, poll, stop, panel>>

\* The answer of a probe counts only for the generation that asked for it; it may say that
\* the fallback cannot be used, or fail.
ProbeReturns ==
  /\ \E flight \in probe.flights :
       LET counts == flight.generation = probe.generation /\ consent.given
       IN probe' \in {[probe EXCEPT !.flights = @ \ {flight}, !.report = report] :
                        report \in {probe.report} \cup (IF counts THEN {flight.epoch} ELSE {})}
  /\ UNCHANGED <<vars, consent, start, client, poll, stop, panel>>

-----------------------------------------------------------------------------
(* The start *)

StartClicked ==
  /\ consent.given /\ probe.report # 0 /\ panel.at = "off"
  /\ panel' = [at |-> "starting", shown |-> "stopped"]
  /\ client' = "asking" /\ start' = "sent"
  /\ UNCHANGED <<vars, consent, probe, poll, stop>>

\* The request may come when nobody waits for its response any more.
StartServed ==
  /\ start \in {"sent", "late"}
  /\ \/ Create /\ start' = IF start = "sent" THEN "served" ELSE "lost"
     \/ CreateFails /\ start' = IF start = "sent" THEN "refused" ELSE "lost"
  /\ UNCHANGED <<consent, probe, client, poll, stop, panel>>

Stopped == [panel EXCEPT !.at = IF @ = "starting" THEN "ended" ELSE @]

\* The client is adopted, and the panel shows active, unless the start was given up.
StartReturns ==
  /\ client = "asking" /\ start \in {"served", "refused"} /\ start' = "returned"
  /\ IF start = "served" /\ panel.at = "starting"
     THEN client' = "open" /\ panel' = [at |-> "running", shown |-> "active"] /\ UNCHANGED stop
     ELSE /\ client' = "closed" /\ panel' = Stopped
          /\ stop' = IF start = "served" THEN "sent" ELSE stop
  /\ UNCHANGED <<vars, consent, probe, poll>>

\* Without a response the client knows no session that it could stop.
StartLost ==
  /\ client = "asking" /\ client' = "closed" /\ panel' = Stopped
  /\ start' \in {"lost"} \cup (IF start = "sent" THEN {"late"} ELSE {})
  /\ UNCHANGED <<consent, probe, poll, stop>>

-----------------------------------------------------------------------------
(* The poll loop *)

\* #fail: the session is asked to stop, and a panel that still listens goes on with the
\* microphone only.
Fails ==
  /\ client' = "closed" /\ stop' = "sent"
  /\ panel' = IF panel.at = "running" THEN [panel EXCEPT !.shown = "degraded"] ELSE panel

PollSends ==
  /\ client = "open" /\ poll.at = "idle" /\ poll' = [poll EXCEPT !.at = "asked"]
  /\ UNCHANGED <<vars, consent, probe, start, client, stop, panel>>

Answer == [at |-> "answered", events |-> session.ring, stopped |-> session.over]

\* The events route: the lease is renewed, and without news it looks again 200 ms later.
PollServed ==
  /\ Quiet /\ poll.at = "asked"
  /\ IF ~session.present
     THEN poll' = [poll EXCEPT !.at = "missing"] /\ UNCHANGED session
     ELSE IF session.ring = <<>> /\ ~session.over
     THEN poll' = [poll EXCEPT !.at = "looking"] /\ session' = [session EXCEPT !.leased = TRUE]
     ELSE poll' = Answer
          /\ session' = [session EXCEPT !.leased = ~session.over, !.told = Len(session.ring)]
  /\ UNCHANGED <<workers, faults, consent, probe, start, client, stop, panel>>

PollAnswered ==
  /\ Quiet /\ poll.at = "looking" /\ poll' = Answer
  /\ session' = [session EXCEPT !.told = Len(session.ring)]
  /\ UNCHANGED <<workers, faults, consent, probe, start, client, stop, panel>>

\* Mutant of Shown: the first state among the events.
ShownFirst(events, before) ==
  LET told == {i \in 1..Len(events) : events[i] # "utterance"}
  IN IF told = {} THEN before ELSE events[CHOOSE i \in told : \A j \in told : j >= i]

\* The last state among the events.
Shown(events, before) ==
  LET told == {i \in 1..Len(events) : events[i] # "utterance"}
  IN IF told = {} THEN before ELSE events[CHOOSE i \in told : \A j \in told : j <= i]

\* The events of an answer reach a panel that still listens; the cursor moves; and a session
\* that is over ends the client.
PollReturns ==
  /\ poll.at = "answered" /\ poll' = NoPoll
  /\ session' = [session EXCEPT !.ring = SubSeq(@, session.told + 1, Len(@)), !.told = 0]
  /\ IF poll.stopped THEN Fails
     ELSE /\ panel' = IF panel.at # "running" THEN panel
                      ELSE [panel EXCEPT !.shown = Shown(poll.events, @)]
          /\ UNCHANGED <<client, stop>>
  /\ UNCHANGED <<workers, faults, consent, probe, start>>

\* Mutant of PollRefused: a session that is not found is asked for again.
PollRetries ==
  /\ poll.at = "missing" /\ poll' = NoPoll
  /\ UNCHANGED <<vars, consent, probe, start, client, stop, panel>>

\* The session is gone, or the request or its answer is lost.
PollRefused ==
  /\ poll.at = "missing" /\ poll' = NoPoll /\ Fails
  /\ UNCHANGED <<vars, consent, probe, start>>

PollFails ==
  /\ poll # NoPoll /\ poll' = NoPoll /\ Fails
  /\ UNCHANGED <<consent, probe, start>>

StopServed ==
  /\ stop = "sent" /\ stop' = "served"
  /\ IF session.present THEN StopRoute ELSE UNCHANGED vars
  /\ UNCHANGED <<consent, probe, start, client, poll, panel>>

StopLost ==
  /\ stop = "sent" /\ stop' = "lost"
  /\ UNCHANGED <<consent, probe, start, client, poll, panel>>

\* The tab closes or crashes, and with it all that the page would still do.
TabCloses ==
  /\ client \in {"asking", "open", "closed"} /\ client' = "gone"
  /\ start' = IF start = "sent" THEN "late" ELSE start
  /\ poll' = NoPoll /\ panel' = [at |-> "ended", shown |-> "stopped"]
  /\ UNCHANGED <<consent, probe, stop>>

-----------------------------------------------------------------------------

Companion == (Helper \/ Transcriber \/ Bridge \/ Fault) /\ UNCHANGED clientVars

\* The timer does not end while a request looks for news: that renewed it 200 ms ago.
Lease == poll.at # "looking" /\ LeaseRunsOut /\ UNCHANGED clientVars

Polling == PollSends \/ PollServed \/ PollAnswered \/ PollReturns \/ PollRefused

User == StopClicked \/ ConsentGiven \/ ConsentRevoked \/ ProbeClicked \/ StartClicked

Lost ==
  /\ faults < MaxLost /\ faults' = faults + 1
  /\ StartLost \/ PollFails \/ StopLost \/ TabCloses
  /\ UNCHANGED <<session, workers>>

FallbackNext ==
  \/ Companion \/ Lease \/ Polling \/ User
  \/ MicrophoneStopped \/ OwnSideFails \/ ProbeReturns
  \/ StartServed \/ StartReturns \/ StopServed
  \/ Lost

SpecAll == InitAll /\ [][FallbackNext]_allVars

\* An open client polls, and its requests are answered; the microphone's stop ends; the
\* idle timer ends, and the companion handles what it has read.
FairSpecAll ==
  /\ SpecAll
  /\ WF_allVars(Polling) /\ WF_allVars(MicrophoneStopped) /\ WF_allVars(Lease)
  /\ WF_allVars(FrameHandled /\ UNCHANGED clientVars)

-----------------------------------------------------------------------------
(* Properties *)

\* The report that the user starts from was asked for under the consent that holds now: an
\* answer that comes after the consent was withdrawn, and given again, is discarded.
ProbeIsCurrent == probe.report # 0 => consent.given /\ probe.report = consent.epoch

\* When nothing is under way, the panel shows the state the helper is in.
ShownAgrees ==
  client = "open" /\ panel.at = "running" /\ helper.phase = "streaming" /\ ~session.over
    /\ ~session.lost /\ poll = NoPoll /\ session.ring = <<>>
    /\ Quiet /\ pipe = <<>> /\ helper.todo = <<>>
    => panel.shown = helper.state

\* docs/specs/windows-audio-adapter.md, lease: a client that closed without its stop being
\* served, a tab that went away, and a start whose response was lost leave no capture.
LeaseEnds == session.present /\ client \in {"closed", "gone"} ~> session.over

\* A panel does not go on showing a capture that has ended, whoever ended it.
EndIsShown == session.over ~> [](panel.shown \notin {"active", "undetected"})

=============================================================================
