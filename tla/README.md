# Verification of the discussion map

The repository is a local-first web application that listens to a meeting, keeps
a transcript, lets a model propose a map of the discussion and lets a human decide
what stays. It has three processes:

* the **browser page** (`app/`): the capture panel, the transcript, the analysed map
  with undo and redo, the clients of the companion;
* the **companion** (`companion/`), a Node process on the loopback interface: HTTP
  routes, sessions of the microphone, captions, Teams audio and Zoom RTMS, and the
  encrypted session store;
* **native workers** (`native/`), one process per job: screen OCR, audio capture,
  speech recognition, DPAPI and one-shot HTTPS.

Everything in the browser and in the companion runs as callbacks of one event loop.
The hard parts are therefore awaits: what was read before one and used after it,
promises that settle late, timers that were not cleared, sockets whose events outlive
the attempt that opened them, responses that are lost, and a user who clicks in
between. The modules below are about these.

## 1. Inventory

| Part | State it keeps | Operations | Hard behaviour | What makes it correct |
|---|---|---|---|---|
| Zoom RTMS session, `companion/zoom-rtms-bridge.mjs` | session state, generation, sockets, timers, event ring, speaker aliases, packet digests | webhooks started / interrupted / stopped; confirm, pause, resume, stop, getEvents; timers; signature; two WebSockets | late signatures and socket events, overflow of the ring inside a handler, repeated webhooks, overwritten timer handles | one connection, of the confirmed stream; identities forgotten; stopped is final |
| Zoom client, `app/adapters/transcription/local-zoom-rtms-client.ts` | cursor, paused flag, closed flag | poll, confirm, pause, resume, stop | lost requests and responses, stale copy of the paused flag | a feed without repetition or silent loss; the end is noticed |
| Input-start gate, `app/domain/transcription/input-start-gate.ts` | next, pending and active attempt | begin, adopt, cancel, complete, ... | used across awaits by every procedure of the panel | a cancelled attempt never goes live |
| Capture panel, `app/components/capture-panel.tsx` | refs of devices and clients, React state, chain of saves, flags of persistence | start, client failure, stop, delete, revoke, pause, resume, save, load | every procedure is asynchronous and may overlap every other | no device is lost, revocation stops all, a delete is honest |
| Session states, `app/domain/transcription/session.ts` | - | transition function | - | the stop control is there while something runs |
| Analysis contract, `app/domain/analysis/contract.ts` | - (pure) | apply a delta of add, update, merge, retract, link | a delta that fails half-way, tombstones, evidence | human decisions are untouched, all or nothing |
| History, `app/domain/mind-map/workspace.ts`, `app/app/page.tsx` | past, present, future | commit, edit, confirm, undo, redo, reset | undo builds a state that never existed; trimming | everything restorable, nothing erased |
| Analysis scheduling, `capture-panel.tsx` | request in flight, generation, revision | ask, answer, discard | answers that arrive after edits, undo or a new session | an answer changes only what it saw |
| Privacy store, `companion/privacy-store.mjs` | files, initialized flag | save, load, list, sweep, remove, initialize | concurrent calls, recursion of initialize, helper failures, crashes | limit, durability, sweep before use |
| Caption worker, `native/teams-captions/src/` | speaker aliases, tracked rows, clock | per frame: anonymise, match, emit, erase; start and end of the process | OCR that jitters, lines that swap places, a full alias table | row events keep their contract; told only what two frames showed; one person per alias |
| Caption session, `companion/local-transcription-host.mjs` | worker, event ring, paused and stopped flags | attach, data, exit, pause, resume, stop, events | a worker replaced under its own bytes and exit, a ring that drops | only the current worker is heard; none runs for a paused session |
| Caption client and assembler, `local-caption-client.ts`, `caption-source.ts`, `utterance.ts`, `capture-panel.tsx` | cursor, paused flag; rows, source state; transcript | poll, pause, resume, stop; observe, disappear, tick, prune; upsert | polls, controls and losses that overtake each other; corrections of finals | paused is true and quiet; the finals agree |
| Microphone session: `pcm-capture-worklet.js`, `local-companion-client.ts`, `local-transcription-host.mjs`, `native/transcription/src/main.cpp` | batches in the port, send chain, cursor; worker, event ring, kill timer; utterance under way | record, mute, send, poll, pause, resume, stop; audio, events and control routes; read, partial, final, flush | a chunk refused in the middle of the chain, controls that overtake chunks, a worker that blocks, dies or babbles, a stop after the end | the worker hears what was recorded, in order; finals stay; whoever ends it, all of it ends |
| Teams audio session: `local-teams-audio-client.ts`, `capture-panel.tsx`, `local-transcription-host.mjs`, `teams-audio-bridge.mjs`, `teams-process-audio-protocol.ts`, `native/windows-audio/src/` | consent and generation of the probe; client, cursor, what the panel shows; two processes, the helper's pipe, frames of the chunk at hand, carried samples, the transcriber's pipe, event ring, idle timer, kill timer | probe, start, poll, stop; audio data, drain, exits, utterances, failure, idle timer, removal; record, state, end | drain of a paused pipe, samples that make no group at the border of a chunk, two processes that must end together, a probe of a consent since withdrawn, a start or stop that is lost | the transcriber hears what was recorded; a paused pipe moves again; both processes end together; the panel shows the state of the capture and its end; nothing outlives its lease |
| Bootstrap tokens and analysis budget | token map, windows | bootstrap, authorise, reserve | sliding expiry | not modelled, see 8 |
| Native helpers, views, exports, redaction, request policy, scripts | - | pure computation or I/O | - | not modelled, see 8 |

How they interact: the panel calls the clients; a client makes HTTP requests to a
route of the companion; the route calls the Zoom controller or a session; events come
back in the response of a poll; the panel's callbacks put utterances into the
transcript, which triggers the analysis, whose answer goes through the contract into
the history and, if the user asked for it, into the chain of encrypted saves, which
calls the privacy store.

`PROJECT.json` lists every component with what is left out of it, and the hazards at
their lines.

## 2. Modules

| Module | Models | Extends |
|---|---|---|
| `ZoomRtms` | one Zoom RTMS session of the companion | |
| `EventFeed` | abstract: what a listener of numbered events is promised | |
| `ZoomClient` | client, route and panel composed with the session; implements `EventFeed` | `ZoomRtms` |
| `ZoomClientProofs` | theorems of `ZoomRtms` and of `ZoomClient` | `ZoomClient` |
| `CapturePanel` | the panel's procedures over the gate, with saves, deletes and loads | |
| `CapturePanelProofs` | its theorems | `CapturePanel` |
| `DiscussionMap` | contract, history and asynchronous analysis | |
| `DiscussionMapProofs` | its theorems | `DiscussionMap` |
| `PrivacyStore` | the encrypted files under concurrent calls | |
| `PrivacyStoreProofs` | its theorems | `PrivacyStore` |
| `RowFeed` | abstract: what the browser may rely on in row events | |
| `CaptionRows` | the frame loop of the caption worker; implements `RowFeed` | |
| `CaptionRowsProofs` | its theorems | `CaptionRows` |
| `Transcript` | how an utterance becomes part of the transcript | |
| `Captions` | worker, companion session, client, assembler and transcript of a caption session | `Transcript` |
| `CaptionsProofs` | its theorems | `Captions` |
| `AudioFeed` | abstract: what a speech recogniser may rely on | |
| `Microphone` | worklet, client, companion session, worker and transcript of a microphone session; implements `AudioFeed` | `Transcript` |
| `MicrophoneProofs` | its theorems | `Microphone` |
| `TeamsBridge` | helper, bridge, transcriber and companion session of a Teams audio session; implements `AudioFeed` | |
| `TeamsAudio` | probe, start, client and panel composed with that session | `TeamsBridge` |
| `TeamsAudioProofs` | theorems of `TeamsBridge` and of `TeamsAudio` | `TeamsAudio` |
| `MC*` | constants and symmetry for TLC | the module of that name |

One action is always what runs between two awaits (or one whole callback): JavaScript
cannot be interrupted there. Where a callback calls helpers, the helpers are functions
from state to state composed in the order of the code. Each operator named
"Mutant of X" is a plausible bug in X; it is not part of any specification, and each
property is known to fail when its mutant takes X's place.

### ZoomRtms

`session` is the object of the code with the sockets, timers and signature promises
made for it; `armed` is `armedUntil >= now()`.

* `Release`, `Overflow`, `Push`, `ClearTimers`, `StopSession`, `Degrade`, `Connect`,
  `TranscriptUtterance` are the functions of the same purpose in the bridge. `Push`
  may overflow, which releases the connection in the middle of its caller; the
  caller goes on, as in the code.
* `Connect` stops at its await of `signClient`; `SignSucceeds` and `SignFails` are the
  continuation and the `.catch` at the call sites.
* A socket remembers the generation and stream its handlers captured. Handlers test
  `Current` first, as in the code. `close()` only makes a socket "closing"; its close
  event is a later action.
* A confirmation timer has an identity, because the code can overwrite its handle
  (pause and resume between two announcements). The timer that nobody can clear any
  more still fires.
* Which webhook names which meeting is a value of `Streams`; its signature is taken as
  verified. A packet is a value of `Packets` with a speaker.

### ZoomClient and EventFeed

A request has three moments: sent, served, response handled. It or its response may
be lost at any of them (`PollFails`, `ControlFails`). The events route looks twice,
200 ms apart (`PollServed`). `Offered` is what the panel shows, `Skipped` the early
returns of the client, `Panel` what the panel does after a control, whose failure it
swallows. `got` is a history variable; `AnnouncedLoss == Feed!Spec` says that the
composition implements `EventFeed` under the mapping `got <- got`.

### CapturePanel

An input opens its resources in order: the attempts of `Microphones` a `Device` and then a
`Client`, captions and Zoom a `Client` alone. `slots` are the refs. `open` are the device
streams that run and the companion sessions whose client is open; a client that closes
lets go of its session whether its one stop request succeeds, fails or is lost (`Closes`), and
the code swallows the failure. A session that may run on after that, or one whose start was
answered to nobody, is `adrift`: no ref and no action of the page reaches it any more.

A start procedure is a record in `starts`, a stop, delete or revocation a record in `ops`
whose `at` says which await it is in:

| `at` | code |
|---|---|
| `slot` | `await <ref>.current?.stop()` of the device or the client; the ref is nulled afterwards |
| `drain` | `await persistenceChain` in `stop`; then `dispatch(stop)` |
| `settle` | `await persistenceChain` in `deleteCurrent` |
| `erase` | `await client.deleteSession(id)` |

`wait` counts the saves that were in the chain when the await began. `Quiet` is the
rule of the event loop that microtasks run before the next event: a continuation whose
promise is settled precedes any click, device or response. `late` says that a stop finds its
resource closed, or another stop at it: a client returns at once, and its ref is nulled a
microtask later; a microphone rejects, because an audio context cannot be closed twice, and
that ends the whole call (`StopRejected`). `Resumes`, `Resumed` and `ResumeFails` are the
resume of captions around its await; the catch takes whatever captions are held by then,
cancels the gate and does not wait for the stop.

The user waits for nothing: an input may be started and a session loaded while other calls
are under way. The code does go wrong there (section 7), so three history variables say
where: `hasty` are the attempts that were started while a stop, delete, resume or load
waited, or had a load begin during their start; a call is `calm` as long as no start and no load
fell into it; and `deleted` are the sessions (`target`: the one on the screen when the user
asked) that a calm call reported as deleted. The id that is really deleted is read late, as in
the code.

### DiscussionMap

`items` maps canonical ids to items. A delta is unrolled into one action per operation
on `draft`; nothing else is enabled while it is open (`Idle`), because the code's loop
is synchronous, and the result is published in one step (`Applied`) or not at all
(`Rejected`). `request` is the analysis in flight with the generation and revision it
was asked at; `seen` is history. Statuses and kinds are grouped to what the contract
distinguishes.

### PrivacyStore

A call is a record with a stack of directory scans: `initialize` sets its flag before
it sweeps, `sweep` lists, `list` loads, and load and remove open the store again.
`Throw` is an exception that unwinds this stack: the `catch` in `list` keeps a file as
unreadable, an opening sweep it passes resets the flag. `Written` and `Renamed` are
the two halves of a save; `Crash` may fall between them. Any number of pages may save at once,
and a session may be saved again when its snapshot has expired. Two histories say what comes
of it: `overlap` is the most saves that were between the check of the limit and their rename at a
time, and a save whose session some sweep is about to remove (`Condemned`) promises nothing:
`saved` stays empty for it.

### RowFeed and CaptionRows

A frame is opened, its lines are read one by one, and it is closed; a line is a place,
a displayed name and a text. `Named` and `SpeakerIn` are the alias table, `Same` and
`Likely` the two searches of `Apply`, and `NewRow`, `Rewritten` and `Reread` its three
outcomes. `Rewrites` is the relation `IsLikelyRewrite`, a constant: what it accepts is
a matter of strings. `feed` is history, the last state of every row that was told;
`KeepsContract` says that it behaves as `RowFeed` does, which is the contract of
`docs/specs/teams-caption-source.md` in its abstract form. `KeptOf` is the loop at the end of
`Apply`, which erases the rows that two frames did not show. `frame.read` and
`frame.before` are history for `ReadTwice`: what is sent was read in this frame and in the
one before, each time under a name that shows as the speaker of the row. For an alias that is
one name; two who are anonymous, or for whom the alias table had no room, show as the
same speaker and are not told apart.

### Captions

Follows a session from a start that succeeded (`Init`): `worker` is the process started
last, `pipe` what each wrote and nobody read, `exits` the exits the companion was not
told of, so that bytes and exit of a replaced worker arrive at any later time. The worker
is abstract here: it sends row events as `RowFeed` allows, at most one of a row per frame,
and its clock counts frames and begins at 0, as in `RunOcrCapture`.

`session.ring` holds the events after the client's cursor, `session.told` how many of them
the answer under way holds: cursors are only compared in the code. The second look of the
events route is an answer at any later time. `poll.overtaken` stands for
`controlRevision`. `HeardOf` is the client's loop over the events of an answer, one step
because it is synchronous; `s.closed` is a contract violation in the middle of it. It
and the loops of the assembler (`ToldFinal`, `Others`) are functions of the number of
elements done, so that they can be proved about.
`PollFails` and `ControlFails` are lost requests, lost responses and refusals;
`stopAsked` is a stop request that may never arrive.

### Microphone

Also from a start that succeeded. A chunk is the number of a batch: `mic.port` is what the
worklet posted and the page has not handled, `chain` the send chain of the client, `post`
where the request of its head is, `input` what was written to the worker and not read (by
Node or in the pipe: the write is answered when all but `MaxPipe` were read). The chain is not
stopped by a failure, only no longer fed, as in `sendPcm`. `Reads` is one turn of the loop of
`main.cpp`: what the energy threshold and whisper make of a chunk is any outcome, the
bookkeeping of number and revision is the code's; the text of an utterance is the number of
the chunk it was last recognised from, so that a stale text can be told from a new one. Only
one stop request is ever sent, because both senders look at `#closed` first: `stop` is where
it is. An utterance may end blank whatever its partials had (`Dropped`): its number stays and
`worker.blanked` remembers it. The frames that arrive in one chunk with a garbled one are dropped
with it (`Garbled`). `HeardOf` is the client's loop over the events of an answer. `InOrder == Feed!Spec` says that the session implements `AudioFeed` under
`heard <- worker.heard`, `over <- closed`. `Fault` are the steps of the environment: lost
requests or responses, and a worker that crashes, writes what the host cannot parse
(`garbled`) or what the page cannot (`invalid`).

### AudioFeed

The recorded units are numbered. `Hear` extends what was heard to a longer prefix of the
numbers, by whole pieces; after `End` nothing is promised. It is stated once and
implemented twice: by `Microphone`, with a chunk as the unit and the closing of the client as
the end, and by `TeamsBridge`, with a stereo frame as the unit, `Group` of them as the piece
and no end at all. A recogniser takes its time from the samples it was given, so that a gap
would shift every utterance after it.

### TeamsBridge

A session of the companion with its two processes. `helper.todo` holds the frames that its
blocking writes still have to write, in the order of `RunCapture`; `pipe` what it wrote and
the bridge did not read. `AudioData` takes a chunk: the parser refuses it whole
(`Fail`) or hands over its frames, which `FrameHandled` takes one at a time, while no other
callback runs (`Quiet`) and the processes go on. `WriteRemotePcm` sends whole groups and keeps
the rest in `bridge.carry`; a write that says no pauses the pipe, and `Drains`, once
what Node still held went into the transcriber's pipe, resumes it. A message of `input` is a
sequence of samples, `Flush` the empty one. `Fail` is `fail` and `onFailure`: both processes are killed. `End` is what the
stop route and the idle timer do: the helper is killed, the transcriber is asked to flush and
killed 3 s later. `Fault` are crashes of either process, a transcriber that hangs, and
garbage in either pipe.

### TeamsAudio

Adds the browser. `consent.epoch` is history: how often the consent was given. A probe and
its report carry the epoch they were asked in; the code only compares generations
(`teamsAudioProbeGenerationRef`). `start` is the start request: "late" is one that the
companion serves when nobody waits for its response. `poll.at` is "looking" between the two
looks of the events route, 200 ms after the lease was renewed, so that the lease cannot end
there. `panel.at` is "stopping" while the user's stop waits for the microphone to drain,
"ended" once the fallback is over. The microphone's half of the fallback is abstract here:
it may fail (`OwnSideFails`), and its stop ends first (`MicrophoneStopped`). The processes
and the bridge are those of `TeamsBridge`, whose actions take a step of their own.

## 3. Runs

Each run answers one question. Runs marked *violation* show that a sentence of the
documents does not hold of the code (section 6).

| Run | Question | Result |
|---|---|---|
| `ZoomRtms` | one confirmed connection, identities forgotten, stopped stays stopped, a pending announcement is forgotten | holds, 356 332 states |
| `ZoomClient` | a feed without repetition or silent loss; the end is told and noticed | holds, 968 181 states |
| `ZoomClientPause` | no pause stays behind an active panel | *violation* |
| `CapturePanel` | no device or open client lost, attempts not mixed, a revocation closes them, deletes honest, capture shown with its stop, its session and its consent | holds, 2 125 847 states |
| `DiscussionMap` | every history entry restorable, nothing erased, human decisions left alone, no stale answer applied | holds, 605 835 states |
| `PrivacyStore` | the limit up to the overlap of saves, durability, sweep before use | holds, 2 137 473 states |
| `CaptionRows` | the row events keep their contract, were read twice, agree with the screen, one person per alias | holds, 888 658 states |
| `Captions` | only the current worker is heard, no idle capture, the transcript's finals agree with `finalForAnalysis`, paused is true and quiet | holds, 3 596 880 states |
| `Microphone` | the worker hears what was recorded in order and without a gap, finals stay, microphone and worker end with the client | holds, 2 267 676 states |
| `MicrophoneBlank` | the revisions of an utterance id are monotonic | *violation* |
| `TeamsBridge` | the transcriber hears what the helper recorded, a paused pipe moves again, the two processes end together | holds, 331 280 states |
| `TeamsAudio` | only a probe of the present consent counts, the panel shows the state of the capture and its end, an abandoned session ends by its lease | holds, 507 329 states |

### Bounds, and why they are enough

* **ZoomRtms.** Two streams (the confirmed one and another), two packets of two
  speakers, room for one alias and one digest, so that the second packet exceeds the
  aliases and evicts a digest; a ring of three events. `Horizon` = 6 stops outside
  events once six events were numbered: enough for announcement, confirmation, active,
  pause, resume and an overflow. Timers, signatures and sockets go on beyond it, so
  that everything under way is played to its end.
* **ZoomClient.** One stream and one packet; a ring of two, so that two unread events
  overflow it. `ZoomClientPause` has a ring of eight and seven events, the length of
  pause, interruption and reconnection, and is restricted to sessions that have not
  ended (`Undisturbed`).
* **CapturePanel.** Two attempts, an old and a new one: the first starts the microphone, the
  second captions or Zoom. Two procedures at a time, two in a run, loads included: two are
  what an overlap needs. Two queued saves, one session adrift. The theorems are for any
  numbers and any mix of inputs.
* **DiscussionMap.** Two items and two utterances, interchangeable (symmetry), a history
  of two entries that must be trimmed, four revisions and three sessions (running,
  deleted while an answer is due, new). A delta has one
  operation here; that several together leave human decisions alone is proved
  (`HumanDecides`).
* **PrivacyStore.** Three sessions, interchangeable (symmetry), a limit of two, three calls at a
  time, four in a run, one change of day: two saves can pass the check together and a third
  session exceed the limit.
* **CaptionRows.** Two lines, a generic name and three others, interchangeable (symmetry: the
  tracker only asks whether two names are the same), room for one alias, so
  that two people are unknown and one is not; three texts of which two look alike; three rows of two
  revisions.
* **Captions.** Two workers, that is one pause and resume. A ring of two events and an
  assembler of one row, so that events are dropped and rows pruned; pipes of one event.
  The first worker captures two rows of two revisions in two frames, the second only
  selects, ticks, gives up or crashes: what it captures would repeat the first.
  A row is final at the tick of its frame (`Settle = 0`) or later; corrections of a final
  follow in the next frame. What a worker
  captures is not followed once the client is closed, since nobody will ask for it.
* **Microphone.** Two chunks, each with at most one partial and a final: the second may
  continue the utterance of the first, begin the next one or follow a gap. A queue of
  one, so that it can overflow while a chunk is sent; pipes and ring of two, so that writes
  block and events are dropped. One fault, at any moment.
* **TeamsBridge.** The group of the code (three), packets of one to four samples, seven in all:
  packets shorter and longer than a group, chunks of one or two frames of a pipe of two, and a
  carry of one and of two samples over the border of a chunk. One message fits in the
  transcriber's pipe, so that the second write says no; a ring of one event, so that it
  overflows; one change of state besides the first; one fault, at any moment.
* **TeamsAudio.** Two consents and two generations, what a late probe needs. The way of the
  samples is `TeamsBridge`'s question, so that here one sample is recorded, with a pipe of one; two
  changes of state reach the panel through a ring of two. Two losses, tabs included: a stop and a
  response, for example. Crashes and garbage are off (`MaxFaults = 0`): what
  ends the session from below is the helper, which may refuse or degrade at any time.

### Assumptions of the runs

* `Tick` (PrivacyStore) needs an idle store: helper calls have deadlines of seconds, a
  day does not pass within one.
* No constant assumes anything of the user, of the pages or of what whisper makes of a sound.
* `MCZoomRtms` has no deadlock check off: the session can always be polled. The other
  configurations allow deadlock because their counters are bounded.

## 4. Fairness

* `ZoomRtms!FairSpec`: only that a confirmation timer that is due fires, as Node does.
  Zoom, the network, the user and the browser owe nothing.
* `ZoomClient!FairSpecAll`: weak fairness of the poll loop as a whole. The client sends
  the next request as soon as the previous one was handled, the route answers each
  within 200 ms. Losses (`PollFails`) are not fair: they may occur or not.
* `Microphone!FairSpec`: requests that are not lost are answered, the steps of `stop()` follow
  each other, output is read, the kill timer fires, and the worker reads on (its work is
  bounded by 30 s of audio). The worklet, the polls and the user owe nothing. Without the
  fairness of the worker `StopEnds` fails: see 7.
* `TeamsBridge!FairSpec`: the kill timer fires, the frames of a chunk are handled one after the
  other (a synchronous loop), a drained pipe is reported, Node reports a process that is gone,
  and a transcriber that is neither hung nor dead reads. The helper, the client and the
  timers of 30 s and 60 s owe nothing.
* `TeamsAudio!FairSpecAll`: an open client polls and its requests are answered or refused, the
  microphone's stop ends, the lease runs out when nobody renews it, frames are handled. The
  user, the probes, the start request and the helper owe nothing.

## 5. Proofs

### ZoomClientProofs

For every capacity of ring, alias map and digest set, any set of streams and packets
and any horizon (assumption `ZoomConstants`):

* `SessionTypeCorrect`: `Spec => []TypeOK`.
* `Discipline`: `Spec => []IInv`, the inductive invariant.
* `SingleConnection`: `Spec => []OneConnection`.
* `NothingRemembered`: `Spec => []IdentityForgotten`.
* `StoppedStays`: `Spec => StoppedIsFinal`.
* `OnlyTheConfirmed`: `Spec => ConfirmedStreamOnly`.
* `ClientHears`: `SpecAll => []Hears`, the inductive invariant of the composition.
* `FeedImplemented`: `SpecAll => AnnouncedLoss`, which is the refinement of `EventFeed`.
* `EndTold`: `SpecAll => EndIsTold`.
* `SessionImplemented`: `SpecAll => Spec`, so that the theorems above hold in the composition.

`OneConnection` alone is not inductive: it says nothing of a signature under way, whose
socket is yet to be made. `IInv` adds that generations of sockets and attempts never
exceed the session's, that two attempts differ in their generation, that the references
are 0 or the current generation, that an attempt of the current generation has no
socket yet, that an unconfirmed session has neither sockets nor attempts, and that a
pending payload or an awaiting state belongs to an unconfirmed session. It is a predicate
of the session record; lemmas show that every helper (`Release`, `Push`, `Degrade`,
`Connect`, ...) preserves it, the steps follow from them by composition, one per action.

The two action properties use it. A socket that is not closing is of the current generation
and a stopped session has none, so that every handler returns early, and `Degrade` and `Push`
leave a stopped session alone (`StoppedStays`). Every helper keeps the stream the session is
bound to but the last step of `Connect`; only `Confirm` binds a session, and it
needs a pending announcement, hence by `IInv` an unconfirmed session (`OnlyTheConfirmed`).

`Hears` speaks of an open client; a closed one hears nothing more. Its centre is
`Follows(session, c)`: the ring ends at the cursor of the session without a gap, it begins at `c`,
before it, or with the notice of a loss, and if the session was stopped, its last event says so
and is later than `c`. Every helper and every callback but `Stop` keeps it for every `c`
(`PushFollows`, `DegradeFollows`, ...), and `Stop` is requested only after the client closed. It holds
of the client's cursor, and, while a response is under way that does not say "stopped", of the
cursor in it; the events of the response continue what was heard (`Continues`). From
there a batch that is handled is a step of `EventFeed` or empty (`FeedGrows`). That the
acknowledged events are a prefix of the ring, which `GetEvents` has in its guard, comes from the
same numbering (`CutNumbers`).

`SessionImplemented` needs less and holds after the client closed too: its cursor and those on the
wire never exceed the session's (`Reach`), which only grows (`CursorGrows`).

### CapturePanelProofs

For any number of starts, of calls under way, of queued saves and of sessions adrift, and
whichever attempts start the microphone (`PanelConstants`, which says only that the constants are
numbers):

* `Discipline`: the inductive invariant `IInv == Shapes /\ Owned /\ Followed /\ Honest`.
* `NothingLeftRunning`: `Spec => []NoOrphan`.
* `RevocationStops`: `Spec => []RevokedStops`.
* `CaptureOnScreen`: `Spec => []CaptureIsShown`.
* `DeletionHolds`: `Spec => []DeleteIsHonest`.

Nothing is assumed of the user. The properties themselves leave out the attempts in `hasty` and
the calls that are not `calm` (section 2), because there the code fails (section 7).

`Owned` adds to `NoOrphan` why a resource cannot slip through between two of its holders.
Attempts are numbered as they start (`Numbered`), each has one start procedure
(`Distinct`), and the refs that hold its attempt are those it has passed (`Filled`, `Passed`), so that
clearing "the attempt's own refs" clears all it has adopted. A device that a ref holds is
open (`Devices`): only the failure handler of its own client, a stop and the cleanup close it. A
failed client's attempt is in no ref and no start any more (`Dropped`), so that its cleanup
takes nothing from another. A stop, delete or revocation has emptied the gate (`Gated`), so
that only a hasty attempt is adopted under it, and a ref that a stop is at holds what the stop has
read, or nothing (`Halting`), so that nulling it forgets nothing.

`RevokedStops` needs two more parts. After a revocation the gate stays empty (`Revoked`). And
what a ref holds while the gate does not own it is going to be reached by a stop
(`Carried`, `Reaches`): a second stop that rejects at the microphone drops its own call,
but the first one, which made it reject, is still under way and goes on to the client. When no
call is left, nothing is held, so by `NoOrphan` nothing runs.

`Followed` says where the screen is: in each phase of the start of the pending attempt
(`Following`), and while the session owns what a ref holds (`Showing`). `Honest` is the reason a
deletion lasts: a call that has waited for the chain finds it empty, because the
panel blocks saves from before the wait until the end (`Faithful`); as long as it is calm, the
id that is read late is still the one the user asked about, or is gone together with it; a
session that has a file or a queued save is known to have one (`Forgotten`), so that the
panel never skips the request; and an attempt whose start still waits has no file, save
or deletion of its own (`Unused`).

The proof has a lemma per action and part. Actions whose effect on a part is the same are first
reduced to a common description (`Clicked`, `GoesOn`, `Stops`, `Saves`, ...).

### DiscussionMapProofs

For any sets of items and utterances, limits of evidence, of history and of operations
(`MapConstants`):

* `MapTypeCorrect`: `Spec => []TypeOK`, in particular the history is bounded through
  commits, undo and redo.
* `Contract`: the inductive invariant.
* `HumanDecides`: `Spec => HumanProtected`: no delta, of any length and any mix of
  operations, changes an item that a human confirmed or edited.
* `NeverStale`: `Spec => []AppliedToWhatItSaw`.
* `HistoryGrows`: `Spec => []HistoryInv`, the inductive invariant of the history.
* `Restorable`: `Spec => []AlwaysRestorable`.
* `NothingLost`: `Spec => NothingErased`.

`DraftInv` is what makes `HumanDecides` inductive: while a copy is open, it agrees with
`items` on every item that is not the model's. `RequestInv` and `FreshInv` are about the
answer in flight: a request of the current session carries a revision not above the
current one, and when it equals it, what it saw is what is there. Deletions make
this hard: they set the revision back to zero, possibly under a request of the new
generation. Then the map is empty and has no history (`EmptyMap`), so that nothing but
an answer can raise the revision again; and by `ZeroInv` a request asked at
revision zero saw no items.

That the next undo is accepted says nothing of the one after it, so `HistoryInv` is about the
whole `Timeline`: the undo stack and the present. Each state in it is valid for the transcript,
which only grows, and knows the items of the state before; what it knows besides came from the
model (`Grows`), because an edit adds nothing and a delta adds only items of the model, so that an
undo keeps these as tombstones. What can be redone knows exactly the items of the
present, because a commit clears the redo stack and an undo leaves a tombstone for
whatever it takes back. An open copy grows out of what it was copied from. A restored
state is then valid: its links lead to items that nobody lost. Trimming drops the
oldest entries, and what is left is still a timeline.

### CaptionRowsProofs

For any number of lines, names, texts and rows, any relation of likely rewrites and any
room for aliases:

* `Tracked`: the inductive invariant `IInv == TypeOK /\ Aliases /\ RowIds /\ Fed /\ Readings`.
* `TypeCorrect`: `Spec => []TypeOK`.
* `ScreenAlwaysAgrees`: `Spec => []ScreenAgrees`.
* `FeedKept`: `Spec => KeepsContract`, that is, `CaptionRows` implements `RowFeed`.
* `NothingSentUnread`: `Spec => ReadTwice`.
* `AliasesTellApart`: `Spec => OneVoice`.

`Fed` ties the tracker to what the browser knows: of a row that was told, the feed holds the
revision, the speaker and the text that the tracker remembers, and a row of the feed that no
tracked row stands for is gone. With `RowIds`, which gives no id twice, each event is then a
step of `RowFeed`. `Readings` is the reason for `ReadTwice`: a claimed row was read in this
frame and any other in the one before, so that a row whose text is as it was has been read in both
when it is told. `Aliases` says why a row that shows as unknown is no sign of an alias that
means two people: an alias stands for one name, and who has none came when the table
was full. The loop that erases rows is a recursive function; that it keeps the order
and the fields of the rows it keeps is shown by induction over its steps.

An earlier form of `ReadTwice` asked for one name in both frames. The proof needed more than
the code gives, and a fourth name showed the counterexample: two people without an
alias who say the same in turn.

### CaptionsProofs

For any number of workers, rows and texts, any revision but zero and any capacity of pipe, ring
and assembler (`CaptionConstants`):

* `Discipline`: the inductive invariant, `Heart`, `Shows`, `Bounds`, `Spare`, `Shapes`, `Flags`,
  `Closing`, `Believed`, `Assembled` and `Quiet`.
* `TypeCorrect`: `Spec => []TypeOK`.
* `OnlyThePresentWorker`: `Spec => []OnlyItsWorker`.
* `NothingIdle`: `Spec => []NoIdleCapture`.
* `PausedIsBelieved`: `Spec => []PausedIsTrue`.
* `FinalsAlwaysAgree`: `Spec => []FinalsAgree`.
* `PauseIsQuiet`: `Spec => PausedIsQuiet`.

`Heart` is about the companion: each pipe holds only what its worker wrote, the ring only events
of the worker of the session, and exits are only to come of workers that were started and do
not run. That makes the late bytes and the late exit of a replaced worker harmless: the
callback compares its process with the one of the session, and a new worker has an
identity no pipe has seen. `Believed` names all who may tell an open client that its session is
paused: itself, an answer under way that no control overtook, a pause that was served;
each is right unless a resume is under way. `Closing` lets the steps after a stop go, since
only a closed client stops its session and a closed client waits for nothing.

`Assembled` says that the transcript, its finals and the assembler's rows are what a batch of
events may start from (`Sound`): the finals have the ids of finals in the transcript and their
texts, and there are no more rows than `MaxKept`. It assumes nothing of the events but
their types. One lemma shows that an event leads from `Sound` to `Sound`, through
observation, disappearance, tick, pruning and `Receive` of `Transcript`, and induction over the
loop carries it to an answer of any length; so what the ring dropped or the
worker repeated does not matter. `Quiet` says that a paused panel has a stopped source and no rows
until a resume is under way; the same induction over the loop then shows that each event
of a late answer is ignored.

### MicrophoneProofs

For any number of chunks and any capacity of queue, pipe and ring:

* `NothingMissing`: the inductive invariant `IInv == Shape /\ Closing /\ InPath`.
* `HeardInOrder`: `Spec => InOrder`, that is, `Microphone` implements `AudioFeed`.
* `SpokenInTurn`: `Spec => []InTurn`.
* `FinalsAreKept`: `Spec => FinalsStay`.
* `MicrophoneTypes`: `Spec => []TypeOK`, with the invariant `TInv == Requests /\ Piped /\ Voices`
  on top of `IInv`.

That the worker heard a prefix is not inductive: it says nothing of what is on the way.
`InPath` says that, while the client is open, what was heard, the worker's pipe, the send
chain and the port of the worklet are one run of consecutive numbers; the head of the chain
belongs to the pipe or to the chain depending on where its request is. After a refusal the
chain no longer continues the pipe; `post = "refused"` is exempt, and nothing enters the pipe
from there, because the answer closes the client. `Closing` makes the steps after a stop
vacuous: who asked for one has closed.

`InTurn` is about the way back. Events of one utterance come in rising revisions and nothing of
it comes after its final (`Before`): within the worker's output, the ring and the answer under way
(`Rising`), from each of them to the next, and from the transcript to all of them (`Ahead`; of
the ring only what is not in the answer, `Rest`). Whatever is on this way was said by the
worker before where it is now (`Past`), so that what it says next comes after. Dropping,
losing and repeating an answer keep all this. An event that the transcript meets is therefore
never stale, and the last of an utterance in an answer is its final, if it has one there. An
utterance that ends blank after partials leaves its number to the next one, whose events begin
below those that are on the way. `Before` therefore speaks of all numbers but those in
`worker.blanked`; the set only grows, so that dropping a number from all these parts at once
keeps the rest. `FinalsStay` leaves out the same numbers, and TLC finds it violated if it does not
(section 7).

`Piped` bounds what waits before the worker's pipe. The pipe itself may be full; then come the
chunk whose request is being served, the flush of a stop, and one more chunk for each post that
was given up: its chunk stays where it was written, and the host goes on with the next. Hence
the `+ faults` of `TypeOK`: the host puts no bound on it. The client takes nothing new after the
first post that fails, but what it has queued is still posted.

### TeamsAudioProofs

Of `TeamsBridge`, for any group, packet, pipe and ring (`BridgeConstants`):

* `NothingMissing`: the inductive invariant, `TypeOK`, `Writing`, `Handled`, `Grouped` and
  `Whole`.
* `TypeCorrect`: `Spec => []TypeOK`.
* `HeardInOrder`: `Spec => InOrder`, that is, `TeamsBridge` implements `AudioFeed`.

Of `TeamsAudio`, besides for any number of consents, generations and losses:

* `FallbackKept`: the inductive invariant
  `Fallback == IInv /\ ClientTypes /\ Probes /\ Polls /\ OnTheWay`.
* `FallbackTypes`: `SpecAll => [](TypeOK /\ ClientTypes)`.
* `ReportIsCurrent`: `SpecAll => []ProbeIsCurrent`.
* `PanelShowsTheState`: `SpecAll => []ShownAgrees`.
* `FallbackHeardInOrder`: `SpecAll => InOrder`.

`Whole` is the run again: heard, the transcriber's messages (`Chain`), the carry, the samples in
the frames of the chunk, in the pipe, and in what the helper still has to write (`Flow`, which
skips the frames that are not audio). `Grouped` makes each message whole groups; `Writing` and
`Handled` say which of these parts may be there in which phase. Further lemmas are about
runs: appending one, splitting one in the middle of a group, moving its head.

`Probes` says that a probe under way that the panel will still listen to, one of the current
generation, was asked for under the consent that holds. A withdrawal raises the generation, and
thereby makes the late answer harmless whether or not the consent is given again. `OnTheWay`
is about the states of the capture: of those in the ring, in the frames of the chunk, in the pipe
and in what the helper has to write, the last one, or what the panel shows when there is none, is
the state the helper is in (`Settled`), as long as the ring dropped nothing. Every action of the
bridge moves a state one place on or adds one at the end. While the client asks for its
session the panel will show "active" whatever the state (`Befores`), so that one has to be on its
way. When all these places are empty, `ShownAgrees` is left.

### PrivacyStoreProofs

For any sets of sessions, numbers of calls and days, and any limit (`StoreConstants`):

* `LimitKept`: `Spec => []WithinLimit`.
* `SavedIsDurable`: `Spec => []Durable`.
* `OpeningSweeps`: `Spec => OpensSwept`.

Any number of pages may save, whatever and whenever they like. The first two follow from one
invariant. Everything that any scan on any call's stack may still remove is over: nothing is
promised of it, or its file has expired (`ScanSound`, `Over`); a save that is renamed while its
session is on such a list makes no promise (`Condemned`), so that the list stays over. The
limit is about `Taken`, the names on disk together with those that the saves past their check
are about to write: a check that passes finds fewer than `Limit` names on disk, each of the other late
saves adds at most one, and with it there are at most `overlap` late saves (`Room`), so
that `Taken` never exceeds `Limit + overlap - 1`. The stack of scans makes this long: each step
changes the top of a stack, and `LowerSound` is what the rest of it keeps.

`OpeningSweeps` has an invariant of its own, `OInv`: while a store whose flag is set is still
being opened by some call, each session that has expired and is not known to be unreadable is
one that some scan of some opening still gets to (`Swept`, over `Pending`: the scan has yet to
read the names, has the file in hand, or has it among the names or the expired ones left).
The step that ends the last opening therefore leaves no such session. `OnwardCarries` says that
a scan that goes on, hands over to the removals or returns loses sight of nothing but the file it
is done with; an exception closes the store again as soon as it passes an opening that
awaits anything (`ThrowSweeps`), which is the part of the argument that needs `initialize` to reset
its flag.

### Only model-checked

* Liveness, which is out of the prover's reach: `PendingForgotten`, `EndIsNoticed`, `StopEnds`,
  `PipeMoves`, `TogetherEnd`, `LeaseEnds`, `EndIsShown`. No liveness is claimed for captions or
  for the panel, whose microphone stop may hang with its send chain.

Loops over the elements of a sequence are proved about where they matter, by induction over their
steps (`LeastOf` and `Induction`: a set of numbers that holds 0 and with each number the next
holds all). That works for a loop written here as a recursive function; what the
operators of the community modules compute (`FoldLeft`, `SelectSeq`), and theorems with an
operator as a parameter, stay out of reach, which is why `Captions`, `CaptionRows` and
`Microphone` have their loops written out.

`TypeOK` is an invariant of the runs `ZoomRtms` and `DiscussionMap` and proved of `ZoomRtms`,
`DiscussionMap`, `TeamsBridge`, `TeamsAudio`, `CaptionRows`, `Captions` and `Microphone`, and of
`PrivacyStore` as a part of its invariant. Elsewhere it documents the shape of the state. The proof
of `Captions` showed it wrong for `MaxRevisions = 0`, which `CaptionConstants` now excludes: a
row that appears has its first revision.

## 6. Where documents and code disagree

**A pause nobody lifts** (run `ZoomClientPause`, `NoSilentPause`,
`local-zoom-rtms-client.ts:146`). The client overwrites its paused flag with the state it polls;
after an interruption and a reconnection it believes itself not paused and does not send the
resume.

**A revision that begins again** (run `MicrophoneBlank`, `MonotonicRevision`, `main.cpp:178`).
`local-transcription.md:15` gives each utterance an id and a "monotonic revision". When whisper
finds no text at the end of an utterance that had partials, the number is kept (171) and
the revision starts again: the next utterance has the same id and lower revisions, and all of it,
the final included, may be ignored as stale (`local-transcription.md:17`).

## 7. Known limits of the code, met while modelling

They have no run of their own; each was met as a counterexample of a stronger property or was
read off the code. Where a property of the runs leaves such a case out, it is said here.

* Zoom: when the stream is lost during a pause the session degrades; `resume` restores "active"
  from before the pause (`zoom-rtms-bridge.mjs:339`), although both sockets are closed.
  `meeting-workspace.md:24` forbids an active session without a stream.
* Panel: `stop`, the catch blocks and the failure handlers swallow the failure of a client's
  stop (`capture-panel.tsx:784-787`, 469, 557; `local-companion-client.ts:149`) and drop the client.
  When the request was lost, or when the answer to a start was, the session of the
  companion goes on; only the microphone's device is certain to be closed. Such
  sessions are `adrift`: `NoOrphan` and `RevokedStops` speak of devices and of sessions whose
  client is open.
* Panel: the start of an input does not wait for a stop, delete, revocation or resume that is
  under way. The stop may null the new ref once its own await is over (783-787: a second stop
  finds the client closed, frees the ref at once, and the panel can start again before the
  first is done), its late `dispatch(stop)` (793) marks the new input as stopped, so that it
  loses its stop control and a later revocation takes it for stopped, and the failure of an old
  resume of captions (764-773) takes the new input's client and cancels its gate.
  `loadSession` replaces the session under an input that was started while it waited
  (861-878). `NoOrphan`, `RevokedStops` and `CaptureIsShown` leave these attempts out
  (`hasty`), and nothing else.
* Panel: `deleteCurrent` reads the id and the flags after its awaits (807), and so may report the
  deletion of another session than the one the user asked to delete
  (`privacy-boundary.md:19`), when one was started or loaded meanwhile. `DeleteIsHonest` is
  about the other deletes (`calm`).
* Store: two pages pass the check of the limit together (`privacy-store.mjs:131`), the store has one
  session more than `privacy-boundary.md:17` allows, and one more with each further save that
  overlaps; `WithinLimit` bounds the excess. Over the limit every list throws (162), hence
  every sweep, and after a restart the store does not open.
* Store: a sweep removes a file that was saved again after its list had found it expired (181-186).
  `Durable` leaves this save out, and no other.
* Store: of two pages that save the same session the last to rename wins, whichever snapshot is newer.
* A signature of a superseded attempt that fails late degrades the newer connection.
* A stop request that is lost leaves the companion's session alive; `createSession`
  refuses another until a webhook ends it.
* After an overflow the confirmation timer and the pending payload survive until the
  timer fires, and a stop whose own event overflows ends as "degraded".
* Aliases and digests restart after a degrade: speaker-1 may be someone else then.
* There is no timeout for the handshakes; a second accepted signaling handshake would
  replace the media socket without closing it (the model lets a socket answer once).
* `persistSnapshot` of an older id sets the persisted flag after a switch of session; the
  second stop of a microphone rejects and is not caught (783).
* A temporary file left by a crash is never removed.
* Zoom: pause and resume while an announcement waits make the session "waiting" again with
  the payload still held, so that a second announcement is offered instead of dropping
  both (`zoom-rtms-bridge.mjs:377` against `zoom-rtms-source.md:20`).
* Contract: only `add` is checked against tombstones; an `update` may reopen an item
  that an undo withdrew (`contract.ts:181` against `analysis-contract.md:9`).
* Captions: the answer of a poll that a pause overtook may hold an observation; the source
  is "stopped" by then, so it counts as a contract violation and the client stops itself,
  without telling the panel. A later resume does nothing and the panel listens to a
  dead client.
* Captions: a pause whose response was lost leaves the client believing that it runs until
  its next poll; a resume before that returns early while the session stays paused.
* Captions: the aliases begin again at speaker-1 with each worker, within one transcript.
* Captions: the ring drops its oldest event without a word, the "active-ocr" event
  included; the following observations are then violations.
* Captions: a stop request that is lost leaves the OCR worker running, there is no idle
  timer for these sessions.
* Captions: Node may report the exit of a worker before the rest of its output; the client
  then stops without learning the reason.
* Captions: each worker takes its own start as time zero (`ocr_runtime.cpp:851`), a resume
  starts a new worker for the same session, and the transcript is sorted by start time
  (`utterance.ts:71`): what is said after a pause is listed before what was said earlier.
  `teams-caption-source.md:24` calls the time monotone since the start of the session.
* Microphone: a chunk that is in flight or queued when a pause is served, or that is posted
  before a resume is served, is answered 409 (`local-transcription-host.mjs:578`); the client
  takes it for a failure (`local-companion-client.ts:71-73`) and ends the session. The
  slower the worker, the more likely. `local-transcription.md:8` only wants new PCM dropped.
* Microphone: a number that an utterance left blank makes the next utterance stale (section 6);
  `FinalsStay` leaves the finals of such numbers out.
* Microphone: the final that the flush of a stop produces is never polled: the client is
  closed by then. A `stop()` waits for the send chain, and so hangs while the worker does.
* Microphone: a lost stop request leaves the worker running, there is no idle timer.
* Teams: the panel shows "active" as soon as the start returns (`capture-panel.tsx:692`), before
  the helper has said so; by `windows-audio-adapter.md:44` active means that the stream has been
  established. The first events correct it.
* Teams: the user's stop and a revocation stop the Teams client only after the microphone's
  `stop()` (`capture-panel.tsx:783-785`), which waits for the send chain: a local worker that
  blocks keeps the capture of the meeting running.
* Teams: a transcriber that hangs leaves the pipe paused, and nobody notices while the client
  polls (`PipeMoves` is about a transcriber that reads).
* Teams: a start whose response is lost occupies the single slot until its lease runs out;
  another start is refused with 429.
* Teams: the ring drops its oldest event without a word; a state that is lost this way is not
  shown, `ShownAgrees` excludes it (`session.lost`).
* A caption may be matched to a row by place and prefix although another line of the frame
  has that row's exact text (`caption_rows.h:46`); the contract holds, the row continues with
  another utterance.
* `local-transcription.md:21` says that the analysis takes only entries of `finalForAnalysis`.
  Nothing reads that list: the panel passes `transcript.utterances` (`capture-panel.tsx:217`, 238),
  of which the redaction and the mock analyzer take the finals (`redaction.ts:64`).
  `FinalsAgree` shows that these are the same utterances with the same texts; a
  corrected final whose text did not change has its new revision and end only in
  `transcript.utterances`.

## 8. Not modelled, and why

* Pure functions of texts or geometry: redaction, request policy, projection, schema,
  layout, mermaid, PCM conversion. No state, no interleaving; the ones with a boundary
  worth checking are in the plan.
* I/O: WASAPI, screen capture, OCR and speech engines, DPAPI, file pickers.
* Bootstrap tokens, their renewal on 401, and the budget of analysis calls: a map with
  expiries, without an interleaving that the panel's or the session's state depends on. Every
  request of the models may be refused, which covers a token that expired.
* In the modelled parts: the synthetic demo, the deadline and size limit of the probe's process,
  a second Teams session that is refused (429), frames that arrive in parts, the UIA caption
  source, region selection on the screen, the limit of two caption sessions,
  trimming of the history by bytes, titles, details,
  confidences and relations, loading a stored session into the map, the controller's map
  of sessions and its removal after 60 s, `close()` on shutdown, HTTP parsing and
  authorisation.

## 9. Plan

Done: `ZoomRtms`, `EventFeed` and `ZoomClient` (with proofs), `CapturePanel` (with proofs),
`DiscussionMap` (with proofs), `PrivacyStore` (with proofs), `RowFeed`, `CaptionRows` (with
proofs), `Transcript`, `Captions` (with proofs), `AudioFeed`, `Microphone` (with proofs),
`TeamsBridge` and `TeamsAudio` (with proofs).

Left, in this order:

1. Tokens and the analysis budget of the host, with the clients' renewal on 401.
2. Pure algorithms against reference definitions: history trimming by two limits, the
   assembly of frames from parts, rewriting by common prefix.
