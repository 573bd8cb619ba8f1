------------------------------ MODULE Captions ------------------------------
(***************************************************************************)
(* A session of Teams captions, end to end: the worker process and its     *)
(* pipe, the session of the companion (local-transcription-host.mjs), the  *)
(* polling client (local-caption-client.ts), and in the panel the          *)
(* assembler (caption-source.ts) and the transcript (utterance.ts).        *)
(*                                                                         *)
(* The worker keeps the contract of RowFeed; its clock counts frames.  A   *)
(* handler of the companion and a callback of the page run in one go, so   *)
(* each is one action; everything between two of them may be overtaken.    *)
(***************************************************************************)
EXTENDS Naturals, Sequences, SequencesExt, Transcript

CONSTANTS
  Texts,
  First,         \* the text a row appears with: only texts of one row are ever compared
  NoText,        \* the text of an event that has none
  MaxEvents,     \* 256 in the code: events of a session kept for the client
  MaxKept,       \* 256 in the code: rows the assembler keeps
  Settle,        \* 1200 ms in the code: age at which a row is final
  MaxWorkers,    \* bound of the model: workers of a session, one per resume
  MaxRows,       \* bound of the model: rows of each worker
  MaxRevisions,  \* bound of the model: revisions of a row
  MaxClock,      \* bound of the model: last frame of each worker
  MaxPipe        \* capacity of a worker's pipe, at which it blocks

ASSUME CaptionConstants ==
  /\ First \in Texts /\ NoText \notin Texts
  /\ MaxRows \in [1..MaxWorkers -> Nat] /\ MaxClock \in [1..MaxWorkers -> Nat]
  /\ MaxEvents \in Nat \ {0} /\ MaxKept \in Nat \ {0} /\ Settle \in Nat /\ MaxWorkers \in Nat \ {0}
  /\ MaxRevisions \in Nat \ {0} /\ MaxPipe \in Nat \ {0}

VARIABLES
  worker,    \* the worker started last
  pipe,      \* what each worker wrote and the companion has not read
  exits,     \* workers whose exit the companion was not told of
  session,   \* the session of the companion; ring: the events after the client's cursor,
             \* told: how many of them the answer under way holds
  client,    \* LocalCaptionClient
  poll,      \* its events request
  control,   \* its pause or resume request
  stopAsked, \* its stop request is under way
  panel,     \* the state of the panel's session and its assembler
  transcript,\* TranscriptState.utterances: by row, they are sorted by start
  finals     \* finalForAnalysis: the last text of each row in it

vars == <<worker, pipe, exits, session, client, poll, control, stopAsked, panel, transcript, finals>>

Workers == 1..MaxWorkers
RowIds == UNION {{w} \X (1..MaxRows[w]) : w \in Workers}
Clock == UNION {0..MaxClock[w] : w \in Workers}
Empty == [row \in {} |-> 0]

\* What the worker sends: row events and ticks, and states.  A field without a meaning is filled.
Timed == {"observation", "row-disappeared", "tick"}

Types == Timed \cup {"active-ocr", "caption-missing", "low-confidence", "cancelled"}

Event == [type : Types, worker : Workers, row : Nat, revision : Nat, text : Texts \cup {NoText}, at : Clock]

Sources == {"selecting-target", "active-ocr", "degraded-caption-missing", "degraded-low-confidence", "stopped"}

TypeOK ==
  /\ worker \in [id : Workers, phase : {"selecting", "active", "gone"}, now : Nat, shown : Seq(
                   [revision : 1..MaxRevisions, text : Texts, at : Clock, gone : BOOLEAN])]
  /\ \A w \in Workers : pipe[w] \in Seq(Event) /\ Len(pipe[w]) <= MaxPipe
  /\ exits \subseteq Workers /\ stopAsked \in BOOLEAN
  /\ session \in [worker : {0} \cup Workers, paused : BOOLEAN, stopped : BOOLEAN, ring : Seq(Event), told : Nat]
  /\ session.told <= Len(session.ring) /\ Len(session.ring) <= MaxEvents
  /\ client \in [closed : BOOLEAN, paused : BOOLEAN]
  /\ poll \in [phase : {"idle", "asked", "answered"}, overtaken : BOOLEAN,
               events : Seq(Event), stopped : BOOLEAN, paused : BOOLEAN]
  /\ control \in [kind : {"none", "pause", "resume"}, phase : {"sent", "served", "refused"}]
  /\ panel.mode \in {"listening", "paused", "ended"} /\ panel.source \in Sources
  /\ Len(panel.rows) <= MaxKept
  /\ DOMAIN transcript \subseteq RowIds /\ DOMAIN finals \subseteq DOMAIN transcript
  /\ \A row \in DOMAIN transcript :
       transcript[row] \in [revision : Nat, phase : {"partial", "final"}, start : Clock, text : Texts]

Started(w) == [id |-> w, phase |-> "selecting", now |-> 0, shown |-> <<>>]

NoPoll == [phase |-> "idle", overtaken |-> FALSE, events |-> <<>>, stopped |-> FALSE, paused |-> FALSE]

NoControl == [kind |-> "none", phase |-> "sent"]

\* The start has succeeded: the session and its first worker exist, the panel listens.
Init ==
  /\ worker = Started(1) /\ pipe = [w \in Workers |-> <<>>] /\ exits = {}
  /\ session = [worker |-> 1, paused |-> FALSE, stopped |-> FALSE, ring |-> <<>>, told |-> 0]
  /\ client = [closed |-> FALSE, paused |-> FALSE]
  /\ poll = NoPoll /\ control = NoControl /\ stopAsked = FALSE
  /\ panel = [mode |-> "listening", source |-> "selecting-target", rows |-> <<>>]
  /\ transcript = Empty /\ finals = Empty

-----------------------------------------------------------------------------
(* The worker *)

Write(type, row, revision, text) ==
  /\ Len(pipe[worker.id]) < MaxPipe
  /\ pipe' = [pipe EXCEPT ![worker.id] = Append(@,
       [type |-> type, worker |-> worker.id, row |-> row, revision |-> revision, text |-> text,
        at |-> IF type \in Timed THEN worker.now ELSE 0])]

Gone(w) == [w EXCEPT !.phase = "gone", !.now = 0, !.shown = <<>>]

Selected ==
  /\ worker.phase = "selecting" /\ Write("active-ocr", 0, 0, NoText)
  /\ worker' = [worker EXCEPT !.phase = "active"]
  /\ UNCHANGED exits

\* No selection, no Teams window, an engine that fails, low confidence: the worker says
\* so and returns.
GivesUp(type) ==
  /\ type \in IF worker.phase = "selecting" THEN {"cancelled", "caption-missing"}
              ELSE {"caption-missing", "low-confidence"}
  /\ worker.phase # "gone" /\ Write(type, 0, 0, NoText)
  /\ worker' = Gone(worker) /\ exits' = exits \cup {worker.id}

Crashes ==
  /\ worker.phase # "gone"
  /\ worker' = Gone(worker) /\ exits' = exits \cup {worker.id}
  /\ UNCHANGED pipe

\* At most one event of a row per frame.  Bound of the model: what a worker captures is
\* not followed once the client is closed and nobody will ask for it.
Capturing == worker.phase = "active" /\ worker.now <= MaxClock[worker.id] /\ ~client.closed

Appears ==
  /\ Capturing /\ Len(worker.shown) < MaxRows[worker.id]
  /\ Write("observation", Len(worker.shown) + 1, 1, First)
  /\ LET row == [revision |-> 1, text |-> First, at |-> worker.now, gone |-> FALSE]
     IN worker' = [worker EXCEPT !.shown = Append(@, row)]
  /\ UNCHANGED exits

Rewritten(n, text) ==
  /\ Capturing /\ ~worker.shown[n].gone /\ worker.shown[n].at < worker.now
  /\ text # worker.shown[n].text /\ worker.shown[n].revision < MaxRevisions
  /\ Write("observation", n, worker.shown[n].revision + 1, text)
  /\ LET row == [worker.shown[n] EXCEPT !.revision = @ + 1, !.text = text, !.at = worker.now]
     IN worker' = [worker EXCEPT !.shown[n] = row]
  /\ UNCHANGED exits

Vanishes(n) ==
  /\ Capturing /\ ~worker.shown[n].gone /\ worker.shown[n].at < worker.now
  /\ Write("row-disappeared", n, worker.shown[n].revision, NoText)
  /\ worker' = [worker EXCEPT !.shown[n].gone = TRUE]
  /\ UNCHANGED exits

FrameEnds ==
  /\ Capturing /\ Write("tick", 0, 0, NoText)
  /\ worker' = [worker EXCEPT !.now = @ + 1]
  /\ UNCHANGED exits

WorkerStep ==
  /\ \/ Selected \/ Crashes \/ Appears \/ FrameEnds
     \/ \E type \in Types : GivesUp(type)
     \/ \E n \in 1..Len(worker.shown) : Vanishes(n) \/ \E text \in Texts : Rewritten(n, text)
  /\ UNCHANGED <<session, client, poll, control, stopAsked, panel, transcript, finals>>

-----------------------------------------------------------------------------
(* The session of the companion *)

\* Listens(w): the guard of the callbacks of worker w.
Listens(w) == session.worker = w /\ ~session.paused /\ ~session.stopped

\* What kill does to the worker of the session; its exit is told later.
Killed ==
  IF worker.id = session.worker /\ worker.phase # "gone"
  THEN worker' = Gone(worker) /\ exits' = exits \cup {worker.id}
  ELSE UNCHANGED <<worker, exits>>

\* The oldest event is dropped without a word when the ring is full.
Push(event) ==
  IF Len(session.ring) < MaxEvents THEN [session EXCEPT !.ring = Append(@, event)]
  ELSE [session EXCEPT !.ring = Append(Tail(@), event), !.told = IF @ = 0 THEN 0 ELSE @ - 1]

\* clearCaptionSessionBuffers
Cleared == [session EXCEPT !.ring = <<>>, !.told = 0]

\* Mutant of Data: a replaced worker is still listened to.
DataOfAny(w) ==
  /\ pipe[w] # <<>>
  /\ pipe' = [pipe EXCEPT ![w] = Tail(@)]
  /\ session' = IF ~session.paused /\ ~session.stopped THEN Push(Head(pipe[w])) ELSE session
  /\ UNCHANGED <<worker, exits>>

Data(w) ==
  /\ pipe[w] # <<>>
  /\ pipe' = [pipe EXCEPT ![w] = Tail(@)]
  /\ session' = IF Listens(w) THEN Push(Head(pipe[w])) ELSE session
  /\ UNCHANGED <<worker, exits>>

\* The proof cannot be written: the session ends, fail closed.
ProofFails ==
  /\ Listens(worker.id)
  /\ session' = [Cleared EXCEPT !.stopped = TRUE]
  /\ Killed /\ UNCHANGED pipe

\* Mutant of ExitSeen: whichever worker ended, the session did.
ExitOfAny(w) ==
  /\ w \in exits
  /\ exits' = exits \ {w}
  /\ session' = IF ~session.paused THEN [session EXCEPT !.stopped = TRUE] ELSE session
  /\ UNCHANGED <<worker, pipe>>

ExitSeen(w) ==
  /\ w \in exits
  /\ exits' = exits \ {w}
  /\ session' = IF session.worker = w /\ ~session.paused THEN [session EXCEPT !.stopped = TRUE] ELSE session
  /\ UNCHANGED <<worker, pipe>>

Callback ==
  /\ ProofFails \/ \E w \in Workers : Data(w) \/ ExitSeen(w)
  /\ UNCHANGED <<client, poll, control, stopAsked, panel, transcript, finals>>

\* The pause and resume routes.
PauseServed ==
  /\ control' = [control EXCEPT !.phase = IF session.stopped THEN "refused" ELSE "served"]
  /\ IF session.stopped \/ session.paused THEN UNCHANGED <<worker, exits, session>>
     ELSE /\ session' = [Cleared EXCEPT !.worker = 0, !.paused = TRUE]
          /\ Killed

ResumeServed ==
  IF session.stopped \/ ~session.paused
  THEN control' = [control EXCEPT !.phase = "refused"] /\ UNCHANGED <<worker, exits, session>>
  ELSE /\ control' = [control EXCEPT !.phase = "served"]
       /\ worker' = Started(worker.id + 1)
       /\ session' = [Cleared EXCEPT !.worker = worker.id + 1, !.paused = FALSE]
       /\ UNCHANGED exits

ControlServed ==
  /\ control.phase = "sent"
  /\ \/ control.kind = "pause" /\ PauseServed
     \/ control.kind = "resume" /\ ResumeServed
  /\ UNCHANGED <<pipe, client, poll, stopAsked, panel, transcript, finals>>

\* A stop request that is lost is one that is never served.
StopServed ==
  /\ stopAsked /\ stopAsked' = FALSE
  /\ session' = [Cleared EXCEPT !.worker = 0, !.paused = FALSE, !.stopped = TRUE]
  /\ Killed
  /\ UNCHANGED <<pipe, client, poll, control, panel, transcript, finals>>

\* The events route answers at once or 200 ms later, when there was nothing to tell: any
\* time will do.
PollServed ==
  /\ poll.phase = "asked"
  /\ poll' = [poll EXCEPT !.phase = "answered", !.events = session.ring,
                          !.stopped = session.stopped, !.paused = session.paused]
  /\ session' = [session EXCEPT !.told = Len(session.ring)]
  /\ UNCHANGED <<worker, pipe, exits, client, control, stopAsked, panel, transcript, finals>>

-----------------------------------------------------------------------------
(* The transcript and the assembler.  s is what a batch of events works on: the source  *)
(* state and the rows of the panel, the transcript, and whether the client is closed.   *)

SourceAfter(source, type) ==
  CASE type = "active-ocr" /\ source \in {"selecting-target", "degraded-caption-missing"} -> "active-ocr"
    [] type = "caption-missing" /\ source \in {"selecting-target", "active-ocr"} -> "degraded-caption-missing"
    [] type = "low-confidence" /\ source = "active-ocr" -> "degraded-low-confidence"
    [] type = "cancelled" -> "stopped"
    [] OTHER -> source

Utterance(row, final) ==
  [revision |-> 2 * row.revision + (IF final THEN 1 ELSE 0), phase |-> IF final THEN "final" ELSE "partial",
   start |-> row.first, text |-> row.text]

Known(s, id) == {i \in DOMAIN s.rows : s.rows[i].id = id}

\* The final row that was observed first, the earliest of these in the list.
Oldest(rows) ==
  CHOOSE i \in DOMAIN rows :
    /\ rows[i].final
    /\ \A j \in DOMAIN rows : rows[j].final => rows[i].at < rows[j].at \/ (rows[i].at = rows[j].at /\ i <= j)

\* pruneRows: one row is added at a time.
Pruned(rows) == IF Len(rows) <= MaxKept THEN rows ELSE RemoveAt(rows, Oldest(rows))

\* An event that breaks the contract: the client is closed and its stop request sent.
Violated(s) == [s EXCEPT !.source = SourceAfter(@, "caption-missing"), !.closed = TRUE]

\* The rows with another id, in their order.
Others(rows, id) ==
  LET others[n \in 0..Len(rows)] ==
        IF n = 0 THEN <<>>
        ELSE IF rows[n].id # id THEN Append(others[n - 1], rows[n]) ELSE others[n - 1]
  IN others[Len(rows)]

Observed(s, event) ==
  LET id == <<event.worker, event.row>>
      known == Known(s, id)
      old == s.rows[CHOOSE i \in known : TRUE]
      row == [id |-> id, revision |-> event.revision, text |-> event.text, at |-> event.at,
              first |-> IF known = {} THEN event.at ELSE old.first,
              final |-> known # {} /\ old.final]
      rows == Append(Others(s.rows, id), row)
  IN CASE s.source # "active-ocr" -> Violated(s)
       [] s.source = "active-ocr" /\ known # {} /\ event.revision <= old.revision -> s
       [] OTHER -> IF \/ known # {} /\ event.at < old.at
                      \/ Len(rows) > MaxKept /\ \A i \in DOMAIN rows : ~rows[i].final
                   THEN Violated(s)
                   ELSE Receive([s EXCEPT !.rows = Pruned(rows)], id, Utterance(row, row.final))

\* row-disappeared and tick make rows final, in the order of the list.
Due(row, event) ==
  /\ ~row.final
  /\ \/ event.type = "row-disappeared" /\ row.id = <<event.worker, event.row>>
     \/ event.type = "tick" /\ event.at >= row.at /\ event.at - row.at >= Settle

\* The utterances of the rows that an event makes final, as they were before it.
ToldFinal(s, rows, event) ==
  LET told[n \in 0..Len(rows)] ==
        IF n = 0 THEN s
        ELSE IF Due(rows[n], event) THEN Receive(told[n - 1], rows[n].id, Utterance(rows[n], TRUE))
        ELSE told[n - 1]
  IN told[Len(rows)]

Finalized(s, event) ==
  LET done == [s EXCEPT !.rows = [i \in DOMAIN s.rows |->
                 IF Due(s.rows[i], event) THEN [s.rows[i] EXCEPT !.final = TRUE] ELSE s.rows[i]]]
  IN IF event.type = "row-disappeared" /\ \E i \in Known(s, <<event.worker, event.row>>) : s.rows[i].at > event.at
     THEN Violated(s)
     ELSE ToldFinal(done, s.rows, event)

\* handleCaptionRuntimeEvent
Heard(s, event) ==
  CASE s.closed -> s
    [] ~s.closed /\ event.type = "observation" -> Observed(s, event)
    [] ~s.closed /\ event.type \in {"row-disappeared", "tick"} -> Finalized(s, event)
    [] OTHER -> [s EXCEPT !.source = SourceAfter(@, event.type)]

\* The events of an answer, one after the other.
HeardOf(s, events) ==
  LET heard[n \in 0..Len(events)] == IF n = 0 THEN s ELSE Heard(heard[n - 1], events[n])
  IN heard[Len(events)]

HeardAll ==
  HeardOf([source |-> panel.source, rows |-> panel.rows, transcript |-> transcript,
           finals |-> finals, closed |-> FALSE], poll.events)

-----------------------------------------------------------------------------
(* The client and the panel *)

PollSends ==
  /\ poll.phase = "idle" /\ ~client.closed /\ ~client.paused
  /\ poll' = [NoPoll EXCEPT !.phase = "asked"]
  /\ UNCHANGED <<worker, pipe, exits, session, client, control, stopAsked, panel, transcript, finals>>

\* Mutant of PausedAfter: the answer of a poll is believed whatever happened since.
PausedAlways == poll.paused

\* A control that ended since the poll was sent knows better: controlRevision differs.
PausedAfter == IF poll.overtaken THEN client.paused ELSE poll.paused

PollReturns ==
  /\ poll.phase = "answered" /\ poll' = NoPoll
  /\ session' = [session EXCEPT !.ring = SubSeq(@, session.told + 1, Len(@)), !.told = 0]
  /\ LET s == HeardAll
         heard == [panel EXCEPT !.source = s.source, !.rows = s.rows]
     IN /\ transcript' = s.transcript /\ finals' = s.finals
        /\ client' = [closed |-> s.closed \/ poll.stopped, paused |-> PausedAfter]
        /\ panel' = IF poll.stopped /\ ~s.closed THEN [heard EXCEPT !.mode = "ended"] ELSE heard
        /\ stopAsked' = (s.closed \/ poll.stopped)
  /\ UNCHANGED <<worker, pipe, exits, control>>

\* #fail: the client closes, its stop request is sent, the panel drops it.  Whether the
\* request or its response was lost: the route changes nothing, so it is the same.
PollFails ==
  /\ poll.phase = "answered" /\ poll' = NoPoll
  /\ client' = [client EXCEPT !.closed = TRUE] /\ stopAsked' = TRUE
  /\ panel' = [panel EXCEPT !.mode = "ended"]
  /\ UNCHANGED <<worker, pipe, exits, session, control, transcript, finals>>

\* Mutant of Paused: the rows and the state of the source are kept.
PausedKeeps == [panel EXCEPT !.mode = IF @ = "listening" THEN "paused" ELSE @]

\* The end of pause(), whether or not the request reached the companion.
Paused == [mode |-> IF panel.mode = "listening" THEN "paused" ELSE panel.mode, source |-> "stopped", rows |-> <<>>]

Resumed == [panel EXCEPT !.mode = IF @ = "paused" THEN "listening" ELSE @]

Busy == client.closed \/ control.kind # "none"

PauseClicked ==
  /\ panel.mode = "listening"
  /\ IF Busy \/ client.paused THEN panel' = Paused /\ UNCHANGED control
     ELSE control' = [kind |-> "pause", phase |-> "sent"] /\ UNCHANGED panel
  /\ UNCHANGED <<worker, pipe, exits, session, client, poll, stopAsked, transcript, finals>>

ResumeClicked ==
  /\ panel.mode = "paused" /\ worker.id < MaxWorkers
  /\ LET selecting == [panel EXCEPT !.source = "selecting-target", !.rows = <<>>]
     IN IF Busy \/ ~client.paused
        THEN panel' = [selecting EXCEPT !.mode = "listening"] /\ UNCHANGED control
        ELSE control' = [kind |-> "resume", phase |-> "sent"] /\ panel' = selecting
  /\ UNCHANGED <<worker, pipe, exits, session, client, poll, stopAsked, transcript, finals>>

ControlReturns ==
  /\ control.phase = "served" /\ control.kind # "none" /\ control' = NoControl
  /\ client' = [client EXCEPT !.paused = (control.kind = "pause")]
  /\ poll' = [poll EXCEPT !.overtaken = (poll.phase # "idle")]
  /\ panel' = IF control.kind = "pause" THEN Paused ELSE Resumed
  /\ UNCHANGED <<worker, pipe, exits, session, stopAsked, transcript, finals>>

\* stop() of the client; the answer to a poll under way will be ignored.
Ended ==
  /\ panel' = [panel EXCEPT !.mode = "ended", !.source = "stopped"]
  /\ client' = [client EXCEPT !.closed = TRUE]
  /\ stopAsked' = (stopAsked \/ ~client.closed)
  /\ poll' = NoPoll

\* The request or its response is lost, or it was refused.
ControlFails ==
  /\ control.kind # "none" /\ control' = NoControl
  /\ IF control.kind = "pause" THEN panel' = Paused /\ UNCHANGED <<client, poll, stopAsked>>
     ELSE Ended
  /\ UNCHANGED <<worker, pipe, exits, session, transcript, finals>>

StopClicked ==
  /\ panel.mode # "ended" /\ Ended
  /\ UNCHANGED <<worker, pipe, exits, session, control, transcript, finals>>

Next ==
  \/ WorkerStep \/ Callback \/ ControlServed \/ StopServed \/ PollServed
  \/ PollSends \/ PollReturns \/ PollFails \/ PauseClicked \/ ResumeClicked
  \/ ControlReturns \/ ControlFails \/ StopClicked

Spec == Init /\ [][Next]_vars

-----------------------------------------------------------------------------
(* Properties *)

\* Of a replaced worker, whose bytes and exit may arrive late, nothing reaches the
\* session: what is kept for the client was written by the worker that captures now.
OnlyItsWorker == \A i \in DOMAIN session.ring : session.ring[i].worker = session.worker

\* teams-caption-source.md: pause and stop end the capture process.  No worker runs for
\* a session that is paused or stopped, nor beside the worker of the session.
NoIdleCapture ==
  worker.phase # "gone" => worker.id = session.worker /\ ~session.paused /\ ~session.stopped

\* While the panel says paused, and no resume is under way, no caption changes the
\* transcript, not even one of an answer that the pause overtook.
PausedIsQuiet ==
  [][panel.mode = "paused" /\ control.kind # "resume" => UNCHANGED <<transcript, finals>>]_vars

\* local-transcription.md: the analyzer consumes only entries of finalForAnalysis.  The code
\* gives it the final utterances of the transcript instead; they are the utterances of
\* finalForAnalysis, each with the text entered last, and none becomes a partial again,
\* whatever the order of rewrites, ticks, disappearances, forgotten rows and lost events.
FinalsAgree ==
  /\ Given(transcript) = DOMAIN finals
  /\ \A row \in Given(transcript) : finals[row] = transcript[row].text

\* A client that takes its session to be paused does not poll and would never learn
\* better, so it must be right, however polls, controls and losses overtake each other.
PausedIsTrue == ~client.closed /\ client.paused /\ control.kind # "resume" => session.paused

=============================================================================
