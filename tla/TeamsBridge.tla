---------------------------- MODULE TeamsBridge ----------------------------
(***************************************************************************)
(* A Teams audio session of the companion (local-transcription-host.mjs)   *)
(* with its bridge (teams-audio-bridge.mjs) between two native processes:  *)
(* the helper that captures the audio of Teams (windows-audio/src) and the *)
(* transcriber.  What the helper writes is taken from its pipe in chunks,  *)
(* parsed into frames and handed on, three stereo frames for one sample of *)
(* the transcriber; when the transcriber does not keep up, the pipe is     *)
(* paused.                                                                 *)
(*                                                                         *)
(* A sample is the number of a recorded stereo frame.  A frame of the      *)
(* protocol is read whole: the parser keeps the beginning of one until the *)
(* rest comes.  The frames of a chunk are handled one after the other      *)
(* while no other callback of the companion runs (Quiet); the two          *)
(* processes run meanwhile.                                                *)
(***************************************************************************)
EXTENDS Naturals, Sequences

CONSTANTS
  Group,        \* 3 in the code: the stereo frames that make one sample
  MaxPipe,      \* capacity of the helper's pipe, in frames of the protocol
  MaxInput,     \* messages the transcriber's pipe takes before write says no
  MaxEvents,    \* 256 in the code: events of a session kept for the client
  MaxPacket,    \* bound of the model: samples of one packet of the helper
  MaxSamples,   \* bound of the model: samples of a session
  MaxChanges,   \* bound of the model: states the helper tells after its first
  MaxFaults     \* bound of the model: crashes, hangs and garbage

ASSUME BridgeConstants ==
  /\ Group \in Nat \ {0} /\ MaxPipe \in Nat \ {0} /\ MaxInput \in Nat /\ MaxEvents \in Nat \ {0}
  /\ MaxPacket \in Nat /\ MaxSamples \in Nat /\ MaxChanges \in Nat /\ MaxFaults \in Nat

VARIABLES
  session,      \* ring: the events after the client's cursor, told: how many of them the
                \* answer under way holds; leased: the idle timer runs, timer: the kill is
                \* 3 s away; lost (history): the ring dropped an event
  helper,       \* todo: the frames its blocking writes still have to write
  pipe,         \* what it wrote and the bridge has not read
  bridge,       \* frames: of the chunk being handled; carry: samples that make no group yet
  input,        \* what the transcriber was sent and has not read
  transcriber,  \* heard (history): the samples it was given
  output,       \* what it wrote and the bridge has not read
  changes, faults

vars == <<session, helper, pipe, bridge, input, transcriber, output, changes, faults>>

CaptureStates == {"stopped", "active", "undetected", "degraded"}
Events == CaptureStates \cup {"utterance"}

Format == [type |-> "format", state |-> "none", samples |-> <<>>]
State(state) == [type |-> "state", state |-> state, samples |-> <<>>]
Pcm(samples) == [type |-> "pcm", state |-> "none", samples |-> samples]
Garbage == [type |-> "garbage", state |-> "none", samples |-> <<>>]

Frame == {frame \in [type : {"format", "state", "pcm", "garbage"},
                     state : CaptureStates \cup {"none"}, samples : Seq(Nat)] :
            /\ frame.type = "state" => frame.state # "none"
            /\ frame.type # "pcm" => frame.samples = <<>>}

Flush == <<>>

TypeOK ==
  /\ session \in [present : BOOLEAN, over : BOOLEAN, leased : BOOLEAN, timer : BOOLEAN,
                  lost : BOOLEAN, ring : Seq(Events), told : Nat]
  /\ session.told <= Len(session.ring) /\ Len(session.ring) <= MaxEvents
  /\ helper \in [phase : {"none", "opening", "streaming", "gone", "reaped"}, state : CaptureStates,
                 ends : BOOLEAN, next : Nat, todo : Seq(Frame)]
  /\ pipe \in Seq(Frame)
  /\ bridge \in [format : BOOLEAN, paused : BOOLEAN, frames : Seq(Frame), carry : Seq(Nat)]
  /\ input \in Seq(Seq(Nat))
  /\ transcriber \in [phase : {"none", "running", "gone", "reaped"}, hung : BOOLEAN, heard : Seq(Nat)]
  /\ output \in {"none", "utterance", "garbage"}
  /\ changes \in Nat /\ faults \in Nat

Init ==
  /\ session = [present |-> FALSE, over |-> FALSE, leased |-> FALSE, timer |-> FALSE,
                lost |-> FALSE, ring |-> <<>>, told |-> 0]
  /\ helper = [phase |-> "none", state |-> "stopped", ends |-> FALSE, next |-> 1, todo |-> <<>>]
  /\ pipe = <<>> /\ bridge = [format |-> FALSE, paused |-> FALSE, frames |-> <<>>, carry |-> <<>>]
  /\ input = <<>> /\ transcriber = [phase |-> "none", hung |-> FALSE, heard |-> <<>>]
  /\ output = "none" /\ changes = 0 /\ faults = 0

-----------------------------------------------------------------------------
(* The helper *)

Captures == helper.phase = "streaming" /\ ~helper.ends /\ helper.todo = <<>>

\* RunCapture refuses, with a state and an exit, or says what it records and that it does.
HelperOpens ==
  /\ helper.phase = "opening" /\ ~helper.ends
  /\ helper' \in {[helper EXCEPT !.ends = TRUE, !.todo = <<State("stopped")>>],
                  [helper EXCEPT !.phase = "streaming", !.state = "active",
                                 !.todo = <<Format, State("active")>>]}
  /\ UNCHANGED <<pipe, changes>>

\* ObserveSignal: no signal tells of a silence, but only after 15 s.
Observed(signal) ==
  CASE helper.state = "undetected" /\ signal -> {"active"}
    [] helper.state = "active" /\ ~signal -> {"active", "undetected"}
    [] OTHER -> {helper.state}

\* A packet: after a discontinuity the state goes before it, a change of state follows it.
HelperRecords ==
  /\ Captures
  /\ \E n \in 1..MaxPacket, signal, broken \in BOOLEAN :
       \E state \in Observed(signal) :
         LET samples == [i \in 1..n |-> helper.next + i - 1]
             told == (IF broken THEN 1 ELSE 0) + (IF state # helper.state THEN 1 ELSE 0)
         IN /\ helper.next + n <= MaxSamples + 1 /\ changes + told <= MaxChanges
            /\ changes' = changes + told
            /\ helper' = [helper EXCEPT !.next = @ + n, !.state = state, !.todo =
                 (IF broken THEN <<State(state)>> ELSE <<>>) \o <<Pcm(samples)>>
                   \o (IF state # helper.state THEN <<State(state)>> ELSE <<>>)]
  /\ UNCHANGED pipe

\* 250 ms without a packet.
HelperWaits ==
  /\ Captures /\ changes < MaxChanges
  /\ \E state \in Observed(FALSE) \ {helper.state} :
       helper' = [helper EXCEPT !.state = state, !.todo = <<State(state)>>]
  /\ changes' = changes + 1
  /\ UNCHANGED pipe

\* The Teams process exited, or the device or the stream failed.
HelperDegrades ==
  /\ Captures
  /\ helper' = [helper EXCEPT !.state = "degraded", !.ends = TRUE, !.todo = <<State("degraded")>>]
  /\ UNCHANGED <<pipe, changes>>

HelperWrites ==
  /\ helper.todo # <<>> /\ Len(pipe) < MaxPipe
  /\ pipe' = Append(pipe, Head(helper.todo))
  /\ helper' = [helper EXCEPT !.todo = Tail(@)]
  /\ UNCHANGED changes

\* Nothing but its pipe is left of a helper that is gone.
Left(h) == [h EXCEPT !.state = "stopped", !.ends = FALSE, !.todo = <<>>]

HelperExits ==
  /\ helper.ends /\ helper.todo = <<>> /\ helper.phase \in {"opening", "streaming"}
  /\ helper' = Left([helper EXCEPT !.phase = "gone"])
  /\ UNCHANGED <<pipe, changes>>

Helper ==
  /\ HelperOpens \/ HelperRecords \/ HelperWaits \/ HelperDegrades \/ HelperWrites \/ HelperExits
  /\ UNCHANGED <<session, bridge, input, transcriber, output, faults>>

-----------------------------------------------------------------------------
(* The transcriber *)

Listens == transcriber.phase = "running" /\ ~transcriber.hung /\ input # <<>>

\* A message is read, and perhaps an utterance is said.
Reads ==
  /\ Listens /\ Head(input) # Flush
  /\ input' = Tail(input) /\ transcriber' = [transcriber EXCEPT !.heard = @ \o Head(input)]
  /\ output' \in {output, IF output = "none" THEN "utterance" ELSE output}

Flushes ==
  /\ Listens /\ Head(input) = Flush
  /\ input' = Tail(input) /\ transcriber' = [transcriber EXCEPT !.phase = "gone"]
  /\ UNCHANGED output

Transcriber ==
  /\ Reads \/ Flushes
  /\ UNCHANGED <<session, helper, pipe, bridge, changes, faults>>

-----------------------------------------------------------------------------
(* The session and its bridge *)

Alive == {"opening", "streaming", "running"}

Killed(process) == IF process.phase \in Alive THEN [process EXCEPT !.phase = "gone"] ELSE process

HelperKilled(h) == Left(Killed(h))

\* No frame of a chunk waits to be handled.
Quiet == bridge.frames = <<>>

\* pushEvent: the oldest event is dropped without a word when the ring is full.
Push(s, event) ==
  IF s.over THEN s
  ELSE IF Len(s.ring) < MaxEvents THEN [s EXCEPT !.ring = Append(@, event)]
  ELSE [s EXCEPT !.ring = Append(Tail(@), event), !.told = IF @ = 0 THEN 0 ELSE @ - 1,
                 !.lost = TRUE]

Cleared == bridge' = [bridge EXCEPT !.frames = <<>>, !.carry = <<>>]

\* fail and onFailure: neither process outlives it.
Fail(h, t) ==
  /\ session' = [Push(session, "degraded") EXCEPT !.over = TRUE, !.leased = FALSE]
  /\ helper' = HelperKilled(h) /\ transcriber' = Killed(t)
  /\ Cleared

\* Mutant of End: the transcriber is trusted to end.
EndTrusting(s) ==
  /\ session' = [s EXCEPT !.over = TRUE, !.leased = FALSE, !.ring = <<>>, !.told = 0]
  /\ IF s.over THEN UNCHANGED <<helper, bridge, input>>
     ELSE helper' = HelperKilled(helper) /\ Cleared /\ input' = Append(input, Flush)

\* What the stop route and the idle timer do: the transcriber may finish, for 3 s.
End(s) ==
  /\ session' = [s EXCEPT !.over = TRUE, !.leased = FALSE, !.ring = <<>>, !.told = 0,
                          !.timer = @ \/ ~s.over]
  /\ IF s.over THEN UNCHANGED <<helper, bridge, input>>
     ELSE helper' = HelperKilled(helper) /\ Cleared /\ input' = Append(input, Flush)

\* Mutant of Create: the lease begins with the first poll.
CreateUnleased ==
  /\ Quiet /\ helper.phase = "none"
  /\ session' = [session EXCEPT !.present = TRUE]
  /\ helper' = [helper EXCEPT !.phase = "opening"]
  /\ transcriber' = [transcriber EXCEPT !.phase = "running"]
  /\ UNCHANGED <<pipe, bridge, input, output, changes, faults>>

\* The create route, for the one session of a run.
Create ==
  /\ Quiet /\ helper.phase = "none"
  /\ session' = [session EXCEPT !.present = TRUE, !.leased = TRUE]
  /\ helper' = [helper EXCEPT !.phase = "opening"]
  /\ transcriber' = [transcriber EXCEPT !.phase = "running"]
  /\ UNCHANGED <<pipe, bridge, input, output, changes, faults>>

\* The second process cannot be started: the first is killed.
CreateFails ==
  /\ helper.phase = "none" /\ helper' = [helper EXCEPT !.phase = "reaped"]
  /\ UNCHANGED <<session, pipe, bridge, input, transcriber, output, changes, faults>>

StopRoute ==
  /\ Quiet /\ session.present /\ End(session)
  /\ UNCHANGED <<pipe, transcriber, output, changes, faults>>

\* The idle timer: 30 s without a poll.
LeaseRunsOut ==
  /\ Quiet /\ session.leased /\ End([session EXCEPT !.present = FALSE])
  /\ UNCHANGED <<pipe, transcriber, output, changes, faults>>

\* 60 s after the end.
Removal ==
  /\ Quiet /\ session.present /\ session.over /\ session' = [session EXCEPT !.present = FALSE]
  /\ UNCHANGED <<helper, pipe, bridge, input, transcriber, output, changes, faults>>

KillTimer ==
  /\ Quiet /\ session.timer /\ session' = [session EXCEPT !.timer = FALSE]
  /\ transcriber' = Killed(transcriber)
  /\ UNCHANGED <<helper, pipe, bridge, input, output, changes, faults>>

\* A chunk of the helper: no frame of it is handled when one of them is no frame.
AudioData ==
  /\ Quiet /\ pipe # <<>> /\ ~bridge.paused
  /\ pipe' = <<>>
  /\ IF session.over THEN UNCHANGED <<session, helper, bridge, transcriber>>
     ELSE IF \E i \in 1..Len(pipe) : pipe[i].type = "garbage" THEN Fail(helper, transcriber)
     ELSE bridge' = [bridge EXCEPT !.frames = pipe] /\ UNCHANGED <<session, helper, transcriber>>
  /\ UNCHANGED <<input, output, changes, faults>>

\* Mutant of WriteRemotePcm: what makes no group is left out.
WriteOnlyGroups(b, samples) ==
  \E n \in 0..Len(samples) :
    /\ n % Group = 0 /\ Len(samples) - n < Group
    /\ input' = IF n = 0 THEN input ELSE Append(input, SubSeq(samples, 1, n))
    /\ bridge' = [b EXCEPT !.paused = @ \/ (n > 0 /\ Len(input') > MaxInput)]

\* writeRemotePcm: whole groups go to the transcriber, the rest waits for the next frame.
WriteRemotePcm(b, samples) ==
  LET combined == b.carry \o samples
  IN \E n \in 0..Len(combined) :
       /\ n % Group = 0 /\ Len(combined) - n < Group
       /\ input' = IF n = 0 THEN input ELSE Append(input, SubSeq(combined, 1, n))
       /\ bridge' = [b EXCEPT !.carry = SubSeq(combined, n + 1, Len(combined)),
                              !.paused = @ \/ (n > 0 /\ Len(input') > MaxInput)]

\* The next frame of the chunk.
FrameHandled ==
  /\ ~Quiet
  /\ LET frame == Head(bridge.frames)
         rest == [bridge EXCEPT !.frames = Tail(@)]
     IN \/ /\ frame.type = "format"
           /\ bridge' = [rest EXCEPT !.format = TRUE]
           /\ UNCHANGED <<session, helper, input, transcriber>>
        \/ /\ frame.type = "state"
           /\ bridge' = rest /\ session' = Push(session, frame.state)
           /\ UNCHANGED <<helper, input, transcriber>>
        \/ /\ frame.type = "pcm" /\ ~bridge.format
           /\ Fail(helper, transcriber) /\ UNCHANGED input
        \/ /\ frame.type = "pcm" /\ bridge.format
           /\ WriteRemotePcm(rest, frame.samples)
           /\ UNCHANGED <<session, helper, transcriber>>
  /\ UNCHANGED <<pipe, output, changes, faults>>

\* Mutant of Drains: the pipe is resumed when more of the helper waits in it.
DrainsWhenFed ==
  /\ Quiet /\ bridge.paused /\ ~session.over /\ Len(input) <= MaxInput /\ pipe # <<>>
  /\ bridge' = [bridge EXCEPT !.paused = FALSE]
  /\ UNCHANGED <<session, helper, pipe, input, transcriber, output, changes, faults>>

\* What write did not take at once has gone into the transcriber's pipe.
Drains ==
  /\ Quiet /\ bridge.paused /\ ~session.over /\ Len(input) <= MaxInput
  /\ bridge' = [bridge EXCEPT !.paused = FALSE]
  /\ UNCHANGED <<session, helper, pipe, input, transcriber, output, changes, faults>>

TranscriptData ==
  /\ Quiet /\ output # "none" /\ output' = "none"
  /\ IF output = "garbage" /\ ~session.over THEN Fail(helper, transcriber)
     ELSE session' = Push(session, output) /\ UNCHANGED <<helper, bridge, transcriber>>
  /\ UNCHANGED <<pipe, input, changes, faults>>

\* The exit or an error of a process or of its input.
WorkerLost ==
  /\ Quiet
  /\ \/ /\ helper.phase = "gone"
        /\ LET h == [helper EXCEPT !.phase = "reaped"]
           IN IF session.over THEN helper' = h /\ UNCHANGED <<session, bridge, transcriber>>
              ELSE Fail(h, transcriber)
     \/ /\ transcriber.phase = "gone"
        /\ LET t == [transcriber EXCEPT !.phase = "reaped"]
           IN IF session.over THEN transcriber' = t /\ UNCHANGED <<session, bridge, helper>>
              ELSE Fail(helper, t)
  /\ UNCHANGED <<pipe, input, output, changes, faults>>

Bridge ==
  \/ Removal \/ KillTimer
  \/ AudioData \/ FrameHandled \/ Drains \/ TranscriptData \/ WorkerLost

-----------------------------------------------------------------------------
(* Faults *)

Crashes ==
  /\ \/ helper.phase \in Alive /\ helper' = HelperKilled(helper) /\ UNCHANGED transcriber
     \/ transcriber.phase \in Alive /\ transcriber' = Killed(transcriber) /\ UNCHANGED helper
  /\ UNCHANGED <<pipe, output>>

Hangs ==
  /\ transcriber.phase = "running" /\ transcriber' = [transcriber EXCEPT !.hung = TRUE]
  /\ UNCHANGED <<helper, pipe, output>>

Babbles ==
  /\ \/ /\ helper.phase \in Alive /\ Len(pipe) < MaxPipe
        /\ pipe' = Append(pipe, Garbage) /\ UNCHANGED output
     \/ /\ transcriber.phase = "running" /\ output = "none" /\ output' = "garbage"
        /\ UNCHANGED pipe
  /\ UNCHANGED <<helper, transcriber>>

Fault ==
  /\ faults < MaxFaults /\ faults' = faults + 1
  /\ Crashes \/ Hangs \/ Babbles
  /\ UNCHANGED <<session, bridge, input, changes>>

-----------------------------------------------------------------------------

Next ==
  \/ Helper \/ Transcriber \/ Bridge \/ Fault
  \/ Create \/ CreateFails \/ StopRoute \/ LeaseRunsOut

Spec == Init /\ [][Next]_vars

\* The companion and the transcriber go on, the 3 s end.  Nothing is asked of the helper,
\* of the client, or of the timers of 30 s and 60 s.
FairSpec ==
  /\ Spec
  /\ WF_vars(KillTimer) /\ WF_vars(FrameHandled) /\ WF_vars(Drains) /\ WF_vars(WorkerLost)
  /\ WF_vars(Transcriber)

-----------------------------------------------------------------------------
(* Properties *)

Feed == INSTANCE AudioFeed WITH Piece <- Group, heard <- transcriber.heard, over <- FALSE

\* Chunks, the frames in them, the carry of incomplete groups, back pressure and the end
\* of the session leave the transcriber with what the helper recorded, from the first
\* sample on, in whole groups.
InOrder == Feed!Spec

\* A pipe that was paused is resumed, unless the session ends or the transcriber hangs.
PipeMoves == bridge.paused ~> ~bridge.paused \/ session.over \/ transcriber.hung

Ending == session.present /\ (session.over \/ {helper.phase, transcriber.phase} \cap {"gone", "reaped"} # {})

\* The two processes end together, whichever went first and whoever ended the session, a
\* transcriber that hangs included.
TogetherEnd == Ending ~> session.over /\ {helper.phase, transcriber.phase} \subseteq {"gone", "reaped"}

=============================================================================
