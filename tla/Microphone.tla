----------------------------- MODULE Microphone -----------------------------
(***************************************************************************)
(* A session of the microphone, end to end: the audio worklet and its port *)
(* (pcm-capture-worklet.js, browser-microphone.ts), the client that sends  *)
(* one chunk at a time and polls (local-companion-client.ts), the session  *)
(* of the companion (local-transcription-host.mjs), the whisper worker     *)
(* (native/transcription/src/main.cpp) behind its two pipes, and what the  *)
(* panel does with them.                                                   *)
(*                                                                         *)
(* A chunk is the number of a batch of the worklet: samples are not        *)
(* modelled, what the worker makes of them is any outcome.  The text of an *)
(* utterance is the number of the last chunk it was recognised from.       *)
(***************************************************************************)
EXTENDS Naturals, Sequences, Transcript

CONSTANTS
  MaxQueued,     \* 512 KiB in the code: chunks in sendPcm's queue
  MaxPipe,       \* capacity of the pipes of the worker, in chunks and in events
  MaxEvents,     \* 256 in the code: events of a session kept for the client
  MaxChunks,     \* bound of the model: batches of the worklet
  MaxRevisions,  \* bound of the model: partials of an utterance
  MaxFaults      \* bound of the model: lost requests, crashes and garbage of the worker

ASSUME MicrophoneConstants ==
  /\ MaxQueued \in Nat \ {0} /\ MaxPipe \in Nat \ {0, 1} /\ MaxEvents \in Nat \ {0}
  /\ MaxChunks \in Nat /\ MaxRevisions \in Nat /\ MaxFaults \in Nat

VARIABLES
  mic,       \* the worklet, the last message to it, and the batches its port holds
  chain,     \* sendPcm's chain: its head is being posted
  post,      \* the request of that head
  closed,    \* #closed
  control,   \* the pause or resume request
  stop,      \* the one stop request a client ever sends
  poll,      \* the events request
  panel,     \* the state of the panel's session; failed: the client had failed before its stop
  session,   \* the companion's; ring: the events after the client's cursor, told: how many
             \* of them the answer under way holds, timer: the kill is 3 s away
  worker,    \* the loop of main: the utterance it builds, heard: the chunks it read, and a
             \* history, blanked: the numbers kept by an utterance that ended blank after partials
  input,     \* what was written to its stdin and it has not read
  output,    \* what it wrote and the companion has not read
  transcript, finals,
  faults     \* how many there were

page == <<mic, chain, closed, control, panel, transcript, finals>>
vars == <<mic, chain, post, closed, control, stop, poll, panel, session, worker, input, output,
          transcript, finals, faults>>

Flush == 0

Event == [phase : {"partial", "final", "garbled", "invalid"}, id : Nat, revision : Nat, text : Nat]

\* The chunk that is written and the flush wait before a full pipe, and so does each chunk
\* whose post was given up meanwhile.
TypeOK ==
  /\ mic \in [on : BOOLEAN, muted : BOOLEAN, asked : BOOLEAN, next : Nat, port : Seq(Nat)]
  /\ Len(chain) <= MaxQueued /\ post \in {"sent", "writing", "accepted", "refused"}
  /\ closed \in BOOLEAN /\ control \in [kind : {"none", "pause", "resume"}, phase : {"sent", "served"}]
  /\ stop \in {"none", "sent", "served", "lost"}
  /\ poll \in [phase : {"idle", "asked", "answered", "lost"}, events : Seq(Event), stopped : BOOLEAN]
  /\ panel \in {"listening", "paused", "stopping", "draining", "ended", "failed"}
  /\ session \in [paused : BOOLEAN, stopped : BOOLEAN, ring : Seq(Event), told : Nat, timer : BOOLEAN]
  /\ session.told <= Len(session.ring) /\ Len(session.ring) <= MaxEvents
  /\ worker \in [phase : {"running", "gone", "reaped"}, number : Nat, revision : Nat, heard : Seq(Nat),
                 speech : BOOLEAN, blanked : SUBSET Nat]
  /\ input \in Seq(Nat) /\ Len(input) <= MaxPipe + 2 + faults /\ Len(output) <= MaxPipe
  /\ faults \in 0..MaxFaults /\ DOMAIN transcript \subseteq 1..worker.number /\ DOMAIN finals \subseteq DOMAIN transcript

NoPoll == [phase |-> "idle", events |-> <<>>, stopped |-> FALSE]
NoControl == [kind |-> "none", phase |-> "sent"]
Empty == [id \in {} |-> 0]

\* The start has succeeded: nothing was recorded yet that counts.
Init ==
  /\ mic = [on |-> TRUE, muted |-> FALSE, asked |-> FALSE, next |-> 1, port |-> <<>>]
  /\ chain = <<>> /\ post = "sent" /\ closed = FALSE /\ control = NoControl /\ stop = "none"
  /\ poll = NoPoll /\ panel = "listening"
  /\ session = [paused |-> FALSE, stopped |-> FALSE, ring |-> <<>>, told |-> 0, timer |-> FALSE]
  /\ worker = [phase |-> "running", number |-> 1, revision |-> 0, heard |-> <<>>, speech |-> FALSE,
               blanked |-> {}]
  /\ input = <<>> /\ output = <<>> /\ transcript = Empty /\ finals = Empty
  /\ faults = 0

-----------------------------------------------------------------------------
(* The worklet and its messages *)

Records ==
  /\ mic.on /\ ~mic.muted /\ mic.next <= MaxChunks /\ mic.port = <<>>
  /\ mic' = [mic EXCEPT !.port = <<mic.next>>, !.next = @ + 1]

Mutes ==
  /\ mic.on /\ mic.muted # mic.asked
  /\ mic' = [mic EXCEPT !.muted = mic.asked]

Worklet ==
  /\ Records \/ Mutes
  /\ UNCHANGED <<chain, post, closed, control, stop, poll, panel, session, worker, input, output, transcript, finals>>

-----------------------------------------------------------------------------
(* The client *)

\* inputAttemptOwnsSession: what arrives after the user's stop, or a failure, is ignored.
Wanted == panel \in {"listening", "paused"}

\* #fail: the stop request is sent at once; onFailure ends the capture unless the user did.
\* Once closed it changes nothing.
Fail ==
  /\ closed' = TRUE
  /\ stop' = IF closed THEN stop ELSE "sent"
  /\ IF closed \/ ~Wanted THEN UNCHANGED <<mic, panel>>
     ELSE mic' = [mic EXCEPT !.on = FALSE, !.port = <<>>] /\ panel' = "failed"

\* The answer of a poll under way will be ignored by a closed client.
PollDropped == poll' = IF closed THEN poll ELSE [NoPoll EXCEPT !.phase = "lost"]

\* sendPcm, for a chunk the panel still wants.
PcmArrives ==
  /\ mic.port # <<>> /\ Wanted /\ ~closed
  /\ IF Len(chain) = MaxQueued THEN Fail /\ PollDropped /\ UNCHANGED chain
     ELSE /\ chain' = Append(chain, Head(mic.port)) /\ mic' = [mic EXCEPT !.port = <<>>]
          /\ UNCHANGED <<closed, stop, panel, poll>>
  /\ UNCHANGED <<post, control, session, worker, input, output, transcript, finals>>

\* Mutant of PostReturns: a chunk that was refused is skipped.
PostSkips ==
  /\ chain # <<>> /\ post \in {"accepted", "refused"}
  /\ chain' = Tail(chain) /\ post' = "sent"
  /\ UNCHANGED <<mic, closed, control, stop, poll, panel, session, worker, input, output, transcript, finals>>

\* The chain goes on with the next chunk, after a failure too.
PostReturns ==
  /\ chain # <<>> /\ post \in {"accepted", "refused"}
  /\ chain' = Tail(chain) /\ post' = "sent"
  /\ IF post = "refused" THEN Fail /\ PollDropped ELSE UNCHANGED <<mic, closed, stop, panel, poll>>
  /\ UNCHANGED <<control, session, worker, input, output, transcript, finals>>

\* The request or its response is lost.
PostLost ==
  /\ chain # <<>> /\ post # "refused"
  /\ post' = "refused"
  /\ UNCHANGED <<page, stop, poll, session, worker, input, output>>

PollSends ==
  /\ poll.phase = "idle" /\ ~closed
  /\ poll' = [NoPoll EXCEPT !.phase = "asked"]
  /\ UNCHANGED <<page, post, stop, session, worker, input, output>>

\* The events before the first one that parseTranscriptUtterance refuses.
Valid(events) ==
  LET bad == {i \in DOMAIN events : events[i].phase = "invalid"}
  IN IF bad = {} THEN events
     ELSE SubSeq(events, 1, (CHOOSE i \in bad : \A j \in bad : i <= j) - 1)

Heard(s, event) ==
  Receive(s, event.id, [revision |-> event.revision, phase |-> event.phase, text |-> event.text])

\* The events of an answer, one after the other.
HeardOf(s, events) ==
  LET heard[n \in 0..Len(events)] == IF n = 0 THEN s ELSE Heard(heard[n - 1], events[n])
  IN heard[Len(events)]

\* The answer of the events route; the panel ignores it after the user's stop.
PollReturns ==
  /\ poll.phase = "answered" /\ poll' = NoPoll
  /\ session' = [session EXCEPT !.ring = SubSeq(@, session.told + 1, Len(@)), !.told = 0]
  /\ LET s == HeardOf([transcript |-> transcript, finals |-> finals], Valid(poll.events))
     IN IF Wanted THEN transcript' = s.transcript /\ finals' = s.finals
        ELSE UNCHANGED <<transcript, finals>>
  /\ IF poll.stopped \/ Valid(poll.events) # poll.events THEN Fail
     ELSE UNCHANGED <<mic, closed, stop, panel>>
  /\ UNCHANGED <<chain, post, control, worker, input, output>>

PollFails ==
  /\ poll.phase \in {"asked", "answered"}
  /\ Fail /\ PollDropped
  /\ UNCHANGED <<chain, post, control, session, worker, input, output, transcript, finals>>

-----------------------------------------------------------------------------
(* The panel *)

\* The message to the worklet is sent first, then the request; one control at a time is
\* a bound of the model.
Asks(kind) ==
  /\ control.kind = "none"
  /\ panel = IF kind = "pause" THEN "listening" ELSE "paused"
  /\ control' = [kind |-> kind, phase |-> "sent"]
  /\ mic' = [mic EXCEPT !.asked = (kind = "pause")]
  /\ UNCHANGED <<chain, post, closed, stop, poll, panel, session, worker, input, output, transcript, finals>>

\* The panel moves on, whether the control succeeded, was refused or was lost.
PanelMoves ==
  /\ control' = NoControl
  /\ panel' = CASE panel = "listening" /\ control.kind = "pause" -> "paused"
                [] panel = "paused" /\ control.kind = "resume" -> "listening"
                [] OTHER -> panel
  /\ UNCHANGED <<mic, chain, post, closed, stop, poll, session, worker, input, output, transcript, finals>>

ControlReturns == control.kind # "none" /\ control.phase = "served" /\ PanelMoves

ControlLost == control.kind # "none" /\ PanelMoves

\* stop(): first the capture ends, then the client closes, sends what it holds, and asks
\* the companion to stop.
StopClicked ==
  /\ Wanted
  /\ panel' = "stopping" /\ mic' = [mic EXCEPT !.on = FALSE, !.port = <<>>]
  /\ UNCHANGED <<chain, post, closed, control, stop, poll, session, worker, input, output, transcript, finals>>

ClientStops ==
  /\ panel = "stopping"
  /\ panel' = IF closed THEN "failed" ELSE "draining"
  /\ closed' = TRUE /\ PollDropped
  /\ UNCHANGED <<mic, chain, post, control, stop, session, worker, input, output, transcript, finals>>

StopSends ==
  /\ panel = "draining" /\ chain = <<>>
  /\ panel' = "ended" /\ stop' = "sent"
  /\ UNCHANGED <<mic, chain, post, closed, control, poll, session, worker, input, output, transcript, finals>>

-----------------------------------------------------------------------------
(* The session of the companion *)

Killed == worker' = IF worker.phase = "running" THEN [worker EXCEPT !.phase = "gone"] ELSE worker

\* The audio route writes the chunk and answers when the pipe has taken it.
AudioServed ==
  /\ chain # <<>> /\ post = "sent"
  /\ IF session.paused \/ session.stopped THEN post' = "refused" /\ UNCHANGED input
     ELSE post' = "writing" /\ input' = Append(input, Head(chain))
  /\ UNCHANGED <<page, stop, poll, session, worker, output>>

AudioWritten ==
  /\ chain # <<>> /\ post = "writing" /\ Len(input) <= MaxPipe /\ worker.phase = "running"
  /\ post' = "accepted"
  /\ UNCHANGED <<page, stop, poll, session, worker, input, output>>

\* The pipe is broken: the route and the error handler of stdin end the session.
AudioBroken ==
  /\ chain # <<>> /\ post = "writing" /\ worker.phase # "running"
  /\ post' = "refused" /\ session' = [session EXCEPT !.stopped = TRUE]
  /\ UNCHANGED <<page, stop, poll, worker, input, output>>

ControlServed ==
  /\ control.kind # "none" /\ control.phase = "sent"
  /\ control' = [control EXCEPT !.phase = "served"]
  /\ session' = CASE control.kind = "pause" -> [session EXCEPT !.paused = TRUE]
                  [] control.kind = "resume" /\ ~session.stopped -> [session EXCEPT !.paused = FALSE]
                  [] OTHER -> session
  /\ UNCHANGED <<mic, chain, post, closed, stop, poll, panel, worker, input, output, transcript, finals>>

\* A session that has ended otherwise is not flushed, nor its worker killed.
StopServed ==
  /\ stop = "sent" /\ stop' = "served"
  /\ IF session.stopped THEN UNCHANGED <<session, input>>
     ELSE /\ session' = [session EXCEPT !.stopped = TRUE, !.timer = TRUE]
          /\ input' = Append(input, Flush)
  /\ UNCHANGED <<page, post, poll, worker, output>>

StopLost ==
  /\ stop = "sent" /\ stop' = "lost"
  /\ UNCHANGED <<page, post, poll, session, worker, input, output>>

KillTimer ==
  /\ session.timer /\ session' = [session EXCEPT !.timer = FALSE]
  /\ Killed
  /\ UNCHANGED <<page, post, stop, poll, input, output>>

\* The oldest event is dropped without a word when the ring is full.
Push(event) ==
  IF Len(session.ring) < MaxEvents THEN [session EXCEPT !.ring = Append(@, event)]
  ELSE [session EXCEPT !.ring = Append(Tail(@), event), !.told = IF @ = 0 THEN 0 ELSE @ - 1]

\* The frames of the worker's output that arrive with a garbled one are dropped with it.
Garbled(n) ==
  /\ \E i \in 1..n : output[i].phase = "garbled"
  /\ output' = SubSeq(output, n + 1, Len(output))
  /\ session' = [session EXCEPT !.stopped = TRUE]

\* A frame that arrives with no garbled one.
Parsed ==
  /\ output # <<>> /\ Head(output).phase # "garbled" /\ output' = Tail(output)
  /\ session' = Push(Head(output)) /\ UNCHANGED worker

\* Mutant of Data: the session ends, its worker does not.
DataSpares ==
  /\ Parsed \/ \E n \in DOMAIN output : Garbled(n) /\ UNCHANGED worker
  /\ UNCHANGED <<page, post, stop, poll, input>>

Data ==
  /\ Parsed \/ \E n \in DOMAIN output : Garbled(n) /\ Killed
  /\ UNCHANGED <<page, post, stop, poll, input>>

ExitSeen ==
  /\ worker.phase = "gone"
  /\ worker' = [worker EXCEPT !.phase = "reaped"]
  /\ session' = [session EXCEPT !.stopped = TRUE]
  /\ UNCHANGED <<page, post, stop, poll, input, output>>

\* The events route answers at once or 200 ms later: any time will do.
PollServed ==
  /\ poll.phase = "asked"
  /\ poll' = [phase |-> "answered", events |-> session.ring, stopped |-> session.stopped]
  /\ session' = [session EXCEPT !.told = Len(session.ring)]
  /\ UNCHANGED <<page, post, stop, worker, input, output>>

-----------------------------------------------------------------------------
(* The worker *)

Said(w, phase) == [phase |-> phase, id |-> w.number, revision |-> w.revision + 1,
                   text |-> IF w.heard = <<>> THEN 0 ELSE w.heard[Len(w.heard)]]

\* Mutant of Finished: the next utterance has the number of this one.
FinishedSame(w) == [w EXCEPT !.revision = 0, !.speech = FALSE]

\* finishUtterance, when it has said its text.
Finished(w) == [w EXCEPT !.number = @ + 1, !.revision = 0, !.speech = FALSE]

\* finishUtterance, when it has no text to say: the next utterance has the number of this
\* one, and begins at revision 1 again.
Dropped(w) ==
  [w EXCEPT !.revision = 0, !.speech = FALSE, !.blanked = IF w.revision = 0 THEN @ ELSE @ \cup {w.number}]

\* What a worker does at the end of an utterance: the final, or nothing for what is no
\* speech, too short, or blank, whatever text its partials had.
Finishing(w) ==
  {[after |-> Dropped(w), says |-> <<>>]}
    \cup (IF w.speech THEN {[after |-> Finished(w), says |-> <<Said(w, "final")>>]} ELSE {})

\* One frame of audio: with speech in it or not, perhaps a partial, perhaps the end.
Hearing(w) ==
  LET quiet == {[after |-> w, says |-> <<>>]}
      partial == IF w.speech /\ w.revision < MaxRevisions
                 THEN {[after |-> [w EXCEPT !.revision = @ + 1], says |-> <<Said(w, "partial")>>]} ELSE {}
  IN UNION {{[after |-> end.after, says |-> first.says \o end.says] :
                end \in {[after |-> first.after, says |-> <<>>]} \cup Finishing(first.after)} :
            first \in quiet \cup partial}

Writes(outcome) ==
  /\ Len(output) + Len(outcome.says) <= MaxPipe
  /\ worker' = outcome.after /\ output' = output \o outcome.says

Reads ==
  /\ worker.phase = "running" /\ input # <<>> /\ Head(input) # Flush
  /\ input' = Tail(input)
  /\ \E speech \in {worker.speech, TRUE} :
       \E outcome \in Hearing([worker EXCEPT !.heard = Append(@, Head(input)), !.speech = speech]) : Writes(outcome)

Flushes ==
  /\ worker.phase = "running" /\ input # <<>> /\ Head(input) = Flush
  /\ input' = Tail(input)
  /\ \E outcome \in Finishing(worker) :
       Writes([outcome EXCEPT !.after.phase = "gone"])

Crashes ==
  /\ worker.phase = "running" /\ Killed
  /\ UNCHANGED <<input, output>>

Babbles ==
  /\ worker.phase = "running" /\ Len(output) < MaxPipe
  /\ \E phase \in {"garbled", "invalid"} :
       output' = Append(output, [phase |-> phase, id |-> 0, revision |-> 0, text |-> 0])
  /\ UNCHANGED <<worker, input>>

WorkerStep ==
  /\ Reads \/ Flushes
  /\ UNCHANGED <<page, post, stop, poll, session>>

-----------------------------------------------------------------------------

Sending == AudioServed \/ AudioWritten \/ AudioBroken \/ PostReturns

Work ==
  \/ Worklet \/ PcmArrives \/ Sending
  \/ PollSends \/ PollServed \/ PollReturns
  \/ Asks("pause") \/ Asks("resume") \/ ControlServed \/ ControlReturns
  \/ StopClicked \/ ClientStops \/ StopSends \/ StopServed \/ KillTimer
  \/ Data \/ ExitSeen \/ WorkerStep

Fault ==
  \/ PostLost \/ PollFails \/ ControlLost \/ StopLost
  \/ (Crashes \/ Babbles) /\ UNCHANGED <<page, post, stop, poll, session>>

Next ==
  \/ Work /\ UNCHANGED faults
  \/ faults < MaxFaults /\ Fault /\ faults' = faults + 1

Spec == Init /\ [][Next]_vars

\* Requests are answered and promises settle, the worker works and the 3 s end: nothing
\* is asked of the worklet, of the polls or of the user.
FairSpec ==
  /\ Spec
  /\ WF_vars(Sending /\ UNCHANGED faults)
  /\ WF_vars(ClientStops /\ UNCHANGED faults) /\ WF_vars(StopSends /\ UNCHANGED faults)
  /\ WF_vars(StopServed /\ UNCHANGED faults) /\ WF_vars(KillTimer /\ UNCHANGED faults)
  /\ WF_vars(Data /\ UNCHANGED faults) /\ WF_vars(WorkerStep /\ UNCHANGED faults)

-----------------------------------------------------------------------------
(* Properties *)

Feed == INSTANCE AudioFeed WITH Piece <- 1, heard <- worker.heard, over <- closed

\* The worker takes its time from the samples it was given: while the client is open it
\* is given every chunk of the worklet, in order, whatever is lost, refused or overtaken.
InOrder == Feed!Spec

\* A final of the worker that reaches a listening panel becomes the text of its utterance,
\* whatever came before it under this number and after it in the same answer: unless an
\* utterance of this number ended blank, and left its revisions behind in the transcript.
FinalsStay ==
  [][poll.phase = "answered" /\ poll' = NoPoll /\ Wanted =>
       \A i \in DOMAIN Valid(poll.events) : poll.events[i].phase = "final" /\ poll.events[i].id \notin worker.blanked =>
         LET id == poll.events[i].id
         IN id \in DOMAIN finals' /\ finals'[id] = poll.events[i].text]_vars

\* What local-transcription.md says of the worker: the revisions of an id are monotonic.  An
\* utterance that ends blank leaves its number to the next one, which begins at 1 again.
MonotonicRevision ==
  \A i, j \in DOMAIN output :
    i < j /\ output[i].id = output[j].id /\ output[i].id # 0 => output[i].revision < output[j].revision

\* Whoever ends the session, the microphone and the worker end with it, unless the stop
\* request was lost on its way.
StopEnds == closed ~> stop = "lost" \/ (~mic.on /\ worker.phase # "running")

=============================================================================
