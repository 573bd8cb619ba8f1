--------------------------- MODULE CaptionsProofs ---------------------------
(***************************************************************************)
(* Theorems about Captions, for any number of workers, rows, texts and     *)
(* events: only the present worker is heard, none runs for a session that  *)
(* is paused or stopped, a client that believes its session paused is      *)
(* right, and what the assembler makes of any events leaves transcript and *)
(* finals in agreement, and alone while the panel is paused.               *)
(***************************************************************************)
EXTENDS Captions, SequenceTheorems, WellFoundedInduction, TLAPS

Shown == [revision : 1..MaxRevisions, text : Texts, at : Clock, gone : BOOLEAN]

\* What is written of a row names it and has a text.
Sent == {event \in Event : event.type = "observation" =>
           <<event.worker, event.row>> \in RowIds /\ event.text \in Texts}

Process == [id : Workers, phase : {"selecting", "active", "gone"}, now : Nat, shown : Seq(Shown)]

Session == [worker : {0} \cup Workers, paused : BOOLEAN, stopped : BOOLEAN, ring : Seq(Sent), told : Nat]

Poll == [phase : {"idle", "asked", "answered"}, overtaken : BOOLEAN,
         events : Seq(Sent), stopped : BOOLEAN, paused : BOOLEAN]

Control == [kind : {"none", "pause", "resume"}, phase : {"sent", "served", "refused"}]

\* What a worker wrote.
Of(w) == {event \in Sent : event.worker = w}

Pipes == DOMAIN pipe = Workers /\ \A w \in Workers : pipe[w] \in Seq(Of(w))

\* The exits to come are of workers that were started, and of none that runs.
Exits == (\A w \in exits : w \in Workers /\ w <= worker.id) /\ (worker.id \in exits => worker.phase = "gone")

Heart ==
  /\ worker \in Process /\ Pipes /\ Exits
  /\ session \in Session /\ session.ring \in Seq(Of(session.worker))
  /\ NoIdleCapture

\* Bound of the model: the rows of a worker.
Shows == Len(worker.shown) <= MaxRows[worker.id]

\* A resume is asked for when there may be another worker.
Spare == control.kind = "resume" /\ control.phase = "sent" => worker.id < MaxWorkers

Shapes == poll \in Poll /\ control \in Control /\ DOMAIN client = {"closed", "paused"}

\* A client that has closed waits for no answer, and only a client that has closed stops
\* its session.
Closing == (client.closed => poll.phase = "idle") /\ (stopAsked => client.closed)

\* Who may tell an open client that it is paused, when no resume is under way.
Tells ==
  \/ client.paused
  \/ poll.phase = "answered" /\ ~poll.overtaken /\ poll.paused
  \/ control.kind = "pause" /\ control.phase = "served"

Believed == ~client.closed /\ control.kind # "resume" /\ Tells => session.paused

\* Pipes and ring stay within their capacity, and what an answer holds is in the ring.
Bounds ==
  /\ \A w \in Workers : Len(pipe[w]) <= MaxPipe
  /\ session.told <= Len(session.ring) /\ Len(session.ring) <= MaxEvents

Flags == client \in [closed : BOOLEAN, paused : BOOLEAN] /\ stopAsked \in BOOLEAN

Maps(S, T) == UNION {[D -> T] : D \in SUBSET S}

Spoken == [revision : Nat, phase : {"partial", "final"}, start : Clock, text : Texts]

\* FinalsAgree, of any transcript, and no final of an utterance that is not in it.
Agreed(said, told) ==
  /\ DOMAIN told \subseteq DOMAIN said
  /\ \A id \in DOMAIN said :
       IF said[id].phase = "final" THEN id \in DOMAIN told /\ told[id] = said[id].text ELSE id \notin DOMAIN told

Row == [id : RowIds, revision : Nat, text : Texts, at : Clock, first : Clock, final : BOOLEAN]

Batch == [source : Sources, rows : Seq(Row), transcript : Maps(RowIds, Spoken), finals : Maps(RowIds, Texts),
          closed : BOOLEAN]

\* What a batch of events may work on.
Sound(s) == s \in Batch /\ Len(s.rows) <= MaxKept /\ Agreed(s.transcript, s.finals)

\* What the page has assembled.
Present == [source |-> panel.source, rows |-> panel.rows, transcript |-> transcript,
            finals |-> finals, closed |-> FALSE]

Assembled ==
  /\ panel \in [mode : {"listening", "paused", "ended"}, source : Sources, rows : Seq(Row)]
  /\ Sound(Present)

\* A paused panel has a stopped source and no rows, so that it accepts no caption.
Quiet == panel.mode = "paused" /\ control.kind # "resume" => panel.source = "stopped" /\ panel.rows = <<>>

IInv ==
  /\ Heart /\ Shows /\ Bounds /\ Spare /\ Shapes /\ Flags /\ Closing /\ Believed
  /\ Assembled /\ Quiet

-----------------------------------------------------------------------------
(* The worker and its pipe *)

LEMMA OfEvents == ASSUME NEW w PROVE Of(w) \subseteq Sent
  BY DEF Of

LEMMA Written == \A w : Seq(Of(w)) \subseteq Seq(Sent)
<1> SUFFICES ASSUME NEW w PROVE Seq(Of(w)) \subseteq Seq(Sent)
  OBVIOUS
<1>1. Of(w) \subseteq Sent
  BY OfEvents
<1>2. \A s \in Seq(Of(w)) : s \in Seq(Sent)
  BY <1>1, SeqMonotonic
<1>3. QED BY <1>2

LEMMA ClockTime ==
  /\ 0 \in Clock
  /\ \A w \in Workers, n \in Nat : n <= MaxClock[w] => n \in Clock
<1>1. 1 \in Workers /\ MaxClock \in [Workers -> Nat]
  BY CaptionConstants DEF Workers
<1>2. \A w \in Workers, n \in Nat : n <= MaxClock[w] => n \in 0..MaxClock[w]
  BY <1>1
<1>3. 0 <= MaxClock[1]
  BY <1>1
<1>4. QED BY <1>1, <1>2, <1>3 DEF Clock

LEMMA WriteTyped ==
  ASSUME worker \in Process, Pipes, NEW type \in Types, NEW row \in Nat, NEW revision \in Nat,
         NEW text \in Texts \cup {NoText}, type \in Timed => worker.now <= MaxClock[worker.id],
         type = "observation" => <<worker.id, row>> \in RowIds /\ text \in Texts,
         Write(type, row, revision, text)
  PROVE  Pipes'
<1> DEFINE event == [type |-> type, worker |-> worker.id, row |-> row, revision |-> revision, text |-> text,
                     at |-> IF type \in Timed THEN worker.now ELSE 0]
           w == worker.id
<1>1. w \in Workers /\ worker.now \in Nat
  BY DEF Process
<1>2. event.at \in Clock
  BY <1>1, ClockTime
<1>3. event \in Of(w)
  BY <1>1, <1>2 DEF Event, Sent, Of
<1>4. pipe' = [pipe EXCEPT ![w] = Append(pipe[w], event)]
  BY DEF Write
<1> HIDE DEF event
<1>5. Append(pipe[w], event) \in Seq(Of(w))
  BY <1>1, <1>3, AppendProperties DEF Pipes
<1>6. QED BY <1>1, <1>4, <1>5 DEF Pipes

LEMMA GoneTyped ==
  ASSUME NEW p \in Process PROVE Gone(p) \in Process /\ Gone(p).id = p.id /\ Gone(p).phase = "gone"
<1>1. <<>> \in Seq(Shown)
  BY EmptySeq
<1>2. QED BY <1>1 DEF Gone, Process

\* What a process writes and how it ends is all that a step of it changes.
LEMMA ProcessStep ==
  ASSUME Heart, worker' \in Process, worker'.id = worker.id, Pipes', UNCHANGED session,
         \/ exits' = exits /\ (worker'.phase = "gone" <=> worker.phase = "gone")
         \/ exits' = exits \cup {worker.id} /\ worker'.phase = "gone"
  PROVE  Heart'
<1>1. Exits'
  <2>1. worker.id \in Workers /\ worker.id \in Nat
    BY DEF Heart, Process, Workers
  <2>2. QED BY <2>1 DEF Heart, Exits
<1>2. NoIdleCapture'
  BY DEF Heart, NoIdleCapture
<1>3. QED BY <1>1, <1>2 DEF Heart

LEMMA RowNamed ==
  ASSUME NEW w \in Workers, NEW n \in Nat, 1 <= n, n <= MaxRows[w] PROVE <<w, n>> \in RowIds
<1>1. n \in 1..MaxRows[w]
  BY CaptionConstants
<1>2. QED BY <1>1 DEF RowIds

LEMMA WorkerHeart == ASSUME Heart, Shows, WorkerStep PROVE Heart'
<1>1. UNCHANGED session /\ worker \in Process /\ Pipes
  BY DEF WorkerStep, Heart
<1>2. 0 \in Nat /\ 1 \in Nat /\ NoText \in Texts \cup {NoText}
  OBVIOUS
<1>3. CASE Selected
  <2>1. Write("active-ocr", 0, 0, NoText) /\ UNCHANGED exits /\ worker' = [worker EXCEPT !.phase = "active"]
        /\ worker.phase = "selecting"
    BY <1>3 DEF Selected
  <2>2. "active-ocr" \in Types /\ "active-ocr" \notin Timed
    BY DEF Types, Timed
  <2>3. Pipes'
    BY <1>1, <1>2, <2>1, <2>2, WriteTyped
  <2>4. worker' \in Process /\ worker'.id = worker.id /\ worker'.phase = "active"
    BY <1>1, <2>1 DEF Process
  <2>5. QED BY <1>1, <2>1, <2>3, <2>4, ProcessStep
<1>4. CASE \E type \in Types : GivesUp(type)
  <2>1. PICK type \in Types : GivesUp(type)
    BY <1>4
  <2>2. Write(type, 0, 0, NoText) /\ worker' = Gone(worker) /\ exits' = exits \cup {worker.id}
        /\ type \in {"cancelled", "caption-missing", "low-confidence"}
    BY <2>1 DEF GivesUp
  <2>3. type \notin Timed
    BY <2>2 DEF Timed
  <2>4. Pipes'
    BY <1>1, <1>2, <2>2, <2>3, WriteTyped
  <2>5. QED BY <1>1, <2>2, <2>4, GoneTyped, ProcessStep
<1>5. CASE Crashes
  <2>1. worker' = Gone(worker) /\ exits' = exits \cup {worker.id} /\ UNCHANGED pipe
    BY <1>5 DEF Crashes
  <2>2. QED BY <1>1, <2>1, GoneTyped, ProcessStep DEF Pipes
<1>6. CASE Appears
  <2>1. /\ Write("observation", Len(worker.shown) + 1, 1, First) /\ Capturing /\ UNCHANGED exits
        /\ worker' = [worker EXCEPT !.shown =
                         Append(@, [revision |-> 1, text |-> First, at |-> worker.now, gone |-> FALSE])]
        /\ Len(worker.shown) < MaxRows[worker.id]
    BY <1>6 DEF Appears
  <2>2. "observation" \in Types /\ First \in Texts /\ Len(worker.shown) + 1 \in Nat
        /\ worker.now \in Clock /\ worker.shown \in Seq(Shown)
    BY <1>1, <2>1, CaptionConstants, LenProperties, ClockTime DEF Types, Timed, Process, Capturing
  <2>8. <<worker.id, Len(worker.shown) + 1>> \in RowIds
    <3>1. Len(worker.shown) + 1 <= MaxRows[worker.id] /\ 1 <= Len(worker.shown) + 1 /\ worker.id \in Workers
      <4>1. Len(worker.shown) \in Nat /\ worker.id \in Workers /\ MaxRows[worker.id] \in Nat
        BY <1>1, <2>2, CaptionConstants, LenProperties DEF Process, Workers
      <4>2. QED BY <2>1, <4>1
    <3>2. QED BY <2>2, <3>1, RowNamed
  <2>3. Pipes'
    BY <1>1, <1>2, <2>1, <2>2, <2>8, WriteTyped DEF Capturing
  <2> DEFINE row == [revision |-> 1, text |-> First, at |-> worker.now, gone |-> FALSE]
  <2>4. row \in Shown
    BY <2>2, CaptionConstants DEF Shown
  <2>5. Append(worker.shown, row) \in Seq(Shown) /\ worker' = [worker EXCEPT !.shown = Append(worker.shown, row)]
    BY <2>1, <2>2, <2>4, AppendProperties
  <2> HIDE DEF row
  <2>6. worker' \in Process /\ worker'.id = worker.id /\ worker'.phase = worker.phase
    BY <1>1, <2>5 DEF Process
  <2>7. QED BY <1>1, <2>1, <2>3, <2>6, ProcessStep
<1>7. CASE FrameEnds
  <2>1. /\ Write("tick", 0, 0, NoText) /\ Capturing /\ UNCHANGED exits
        /\ worker' = [worker EXCEPT !.now = @ + 1]
    BY <1>7 DEF FrameEnds
  <2>2. "tick" \in Types
    BY DEF Types, Timed
  <2>3. Pipes'
    BY <1>1, <1>2, <2>1, <2>2, WriteTyped DEF Capturing
  <2>4. worker' \in Process /\ worker'.id = worker.id /\ worker'.phase = worker.phase
    BY <1>1, <2>1 DEF Process
  <2>5. QED BY <1>1, <2>1, <2>3, <2>4, ProcessStep
<1>8. CASE \E n \in 1..Len(worker.shown) : Vanishes(n) \/ \E text \in Texts : Rewritten(n, text)
  <2>1. PICK n \in 1..Len(worker.shown) : Vanishes(n) \/ \E text \in Texts : Rewritten(n, text)
    BY <1>8
  <2>2. worker.shown \in Seq(Shown) /\ worker.shown[n] \in Shown /\ n \in Nat /\ worker.now \in Clock
        /\ <<worker.id, n>> \in RowIds
    <3>1. worker.id \in Workers /\ worker.now \in Nat /\ worker.shown \in Seq(Shown) /\ Len(worker.shown) \in Nat
          /\ MaxRows[worker.id] \in Nat
      BY <1>1, LenProperties, CaptionConstants DEF Process, Workers
    <3>2. worker.now \in Clock
      BY <2>1, <3>1, ClockTime DEF Vanishes, Rewritten, Capturing
    <3>3. n \in Nat /\ 1 <= n /\ n <= MaxRows[worker.id]
      BY <2>1, <3>1 DEF Shows
    <3>4. QED BY <2>1, <3>1, <3>2, <3>3, ElementOfSeq, RowNamed
  <2>3. \A row \in Shown : [worker.shown EXCEPT ![n] = row] \in Seq(Shown)
    BY <2>1, <2>2, ExceptSeq
  <2>4. CASE Vanishes(n)
    <3> DEFINE row == [worker.shown[n] EXCEPT !.gone = TRUE]
    <3>1. /\ Write("row-disappeared", n, worker.shown[n].revision, NoText) /\ Capturing /\ UNCHANGED exits
          /\ worker' = [worker EXCEPT !.shown = [worker.shown EXCEPT ![n] = row]]
      BY <2>4 DEF Vanishes
    <3>2. row \in Shown /\ worker.shown[n].revision \in Nat /\ "row-disappeared" \in Types
      <4>1. row \in Shown /\ worker.shown[n].revision \in 1..MaxRevisions
        BY <2>2 DEF Shown
      <4>2. QED BY <4>1, CaptionConstants DEF Types, Timed
    <3>3. Pipes'
      BY <1>1, <1>2, <2>2, <3>1, <3>2, WriteTyped DEF Capturing
    <3> HIDE DEF row
    <3>4. worker' \in Process /\ worker'.id = worker.id /\ worker'.phase = worker.phase
      BY <1>1, <2>3, <3>1, <3>2 DEF Process
    <3>5. QED BY <1>1, <3>1, <3>3, <3>4, ProcessStep
  <2>5. CASE \E text \in Texts : Rewritten(n, text)
    <3>1. PICK text \in Texts : Rewritten(n, text)
      BY <2>5
    <3> DEFINE old == worker.shown[n]
               row == [old EXCEPT !.revision = @ + 1, !.text = text, !.at = worker.now]
    <3>2. /\ Write("observation", n, worker.shown[n].revision + 1, text) /\ Capturing /\ UNCHANGED exits
          /\ worker' = [worker EXCEPT !.shown = [worker.shown EXCEPT ![n] = row]]
      BY <3>1 DEF Rewritten
    <3>3. row \in Shown /\ worker.shown[n].revision + 1 \in Nat /\ "observation" \in Types
      <4>1. old \in Shown /\ old.revision + 1 \in 1..MaxRevisions
        BY <2>2, <3>1, CaptionConstants DEF Shown, Rewritten
      <4> HIDE DEF old
      <4>2. [old EXCEPT !.revision = old.revision + 1, !.text = text, !.at = worker.now] \in Shown
        BY <2>2, <3>1, <4>1 DEF Shown
      <4>3. QED BY <4>1, <4>2, CaptionConstants DEF Types, Timed, old
    <3>4. Pipes'
      BY <1>1, <2>2, <3>2, <3>3, WriteTyped DEF Capturing
    <3> HIDE DEF row
    <3>5. worker' \in Process /\ worker'.id = worker.id /\ worker'.phase = worker.phase
      BY <1>1, <2>3, <3>2, <3>3 DEF Process
    <3>6. QED BY <1>1, <3>2, <3>4, <3>5, ProcessStep
  <2>6. QED BY <2>1, <2>4, <2>5
<1>9. QED BY <1>3, <1>4, <1>5, <1>6, <1>7, <1>8 DEF WorkerStep

-----------------------------------------------------------------------------
(* The session of the companion *)

LEMMA SessionTyped ==
  ASSUME Heart
  PROVE  /\ session.worker \in {0} \cup Workers /\ session.paused \in BOOLEAN /\ session.stopped \in BOOLEAN
         /\ session.ring \in Seq(Of(session.worker)) /\ session.ring \in Seq(Sent)
         /\ session.told \in Nat /\ Len(session.ring) \in Nat
         /\ worker.id \in Workers /\ worker.id \in Nat
<1>1. session \in Session /\ worker \in Process /\ session.ring \in Seq(Of(session.worker))
  BY DEF Heart
<1>2. QED BY <1>1, LenProperties DEF Session, Process, Workers

\* A session without events of its worker.
LEMMA ClearedTyped ==
  ASSUME session \in Session
  PROVE  /\ Cleared \in Session /\ Cleared.ring = <<>> /\ Cleared.worker = session.worker
         /\ Cleared.paused = session.paused /\ Cleared.stopped = session.stopped
         /\ \A w : <<>> \in Seq(Of(w))
<1>1. <<>> \in Seq(Sent) /\ \A w : <<>> \in Seq(Of(w))
  BY EmptySeq
<1>2. QED BY <1>1 DEF Cleared, Session

LEMMA KilledTyped ==
  ASSUME Heart, Killed
  PROVE  /\ worker' \in Process /\ worker'.id = worker.id /\ Exits' /\ worker'.phase = "gone"
<1>1. worker \in Process /\ Exits /\ worker.id \in Workers /\ worker.id \in Nat
  BY SessionTyped DEF Heart
<1>2. CASE worker.id = session.worker /\ worker.phase # "gone"
  <2>1. worker' = Gone(worker) /\ exits' = exits \cup {worker.id}
    BY <1>2 DEF Killed
  <2>2. QED BY <1>1, <2>1, GoneTyped DEF Exits
<1>3. CASE ~(worker.id = session.worker /\ worker.phase # "gone")
  <2>1. UNCHANGED <<worker, exits>> /\ worker.phase = "gone"
    BY <1>3 DEF Killed, Heart, NoIdleCapture
  <2>2. QED BY <1>1, <2>1 DEF Exits
<1>4. QED BY <1>2, <1>3

\* The ring takes one more event of its worker.
LEMMA PushTyped ==
  ASSUME Heart, NEW event \in Of(session.worker)
  PROVE  /\ Push(event) \in Session /\ Push(event).worker = session.worker
         /\ Push(event).paused = session.paused /\ Push(event).stopped = session.stopped
         /\ Push(event).ring \in Seq(Of(session.worker))
<1> DEFINE ring == session.ring
           told == IF session.told = 0 THEN 0 ELSE session.told - 1
<1>1. session \in Session /\ ring \in Seq(Of(session.worker)) /\ told \in Nat
  BY SessionTyped DEF Heart
<1>2. Append(ring, event) \in Seq(Of(session.worker))
  BY <1>1, AppendProperties
<1>3. CASE Len(ring) < MaxEvents
  <2>1. Push(event) = [session EXCEPT !.ring = Append(ring, event)]
    BY <1>3 DEF Push
  <2>2. Append(ring, event) \in Seq(Sent)
    BY <1>2, Written
  <2> HIDE DEF ring
  <2>3. QED BY <1>1, <1>2, <2>1, <2>2 DEF Session
<1>4. CASE ~(Len(ring) < MaxEvents)
  <2>1. Push(event) = [session EXCEPT !.ring = Append(Tail(ring), event), !.told = told]
    BY <1>4 DEF Push
  <2>2. ring # <<>>
    BY <1>4, CaptionConstants
  <2>3. Append(Tail(ring), event) \in Seq(Of(session.worker))
    BY <1>1, <2>2, HeadTailProperties, AppendProperties
  <2>4. Append(Tail(ring), event) \in Seq(Sent)
    BY <2>3, Written
  <2> HIDE DEF ring, told
  <2>5. QED BY <1>1, <2>1, <2>3, <2>4 DEF Session
<1>5. QED BY <1>3, <1>4

LEMMA DataHeart == ASSUME Heart, NEW w \in Workers, Data(w) PROVE Heart'
<1>1. /\ pipe[w] # <<>> /\ pipe' = [pipe EXCEPT ![w] = Tail(pipe[w])] /\ UNCHANGED <<worker, exits>>
      /\ session' = IF Listens(w) THEN Push(Head(pipe[w])) ELSE session
  BY DEF Data
<1>2. Pipes /\ pipe[w] \in Seq(Of(w))
  BY DEF Heart, Pipes
<1>3. Tail(pipe[w]) \in Seq(Of(w)) /\ Head(pipe[w]) \in Of(w)
  BY <1>1, <1>2, HeadTailProperties
<1>4. Pipes'
  BY <1>1, <1>2, <1>3 DEF Pipes
<1>5. /\ session' \in Session /\ session'.worker = session.worker /\ session'.paused = session.paused
      /\ session'.stopped = session.stopped /\ session'.ring \in Seq(Of(session.worker))
  <2>1. CASE Listens(w)
    <3>1. session.worker = w
      BY <2>1 DEF Listens
    <3>2. QED BY <1>1, <1>3, <2>1, <3>1, PushTyped
  <2>2. CASE ~Listens(w)
    BY <1>1, <2>2 DEF Heart
  <2>3. QED BY <2>1, <2>2
<1>6. QED BY <1>1, <1>4, <1>5 DEF Heart, Exits, NoIdleCapture

LEMMA CallbackHeart == ASSUME Heart, Callback PROVE Heart'
<1>1. CASE ProofFails
  <2>1. session' = [Cleared EXCEPT !.stopped = TRUE] /\ Killed /\ UNCHANGED pipe
    BY <1>1 DEF ProofFails
  <2>2. Cleared \in Session /\ Cleared.ring = <<>> /\ Pipes /\ \A w : <<>> \in Seq(Of(w))
    BY ClearedTyped DEF Heart
  <2>3. session' \in Session /\ session'.ring = <<>>
    BY <2>1, <2>2 DEF Session
  <2>4. QED BY <2>1, <2>2, <2>3, KilledTyped DEF Heart, Pipes, NoIdleCapture
<1>2. CASE \E w \in Workers : ExitSeen(w)
  <2>1. PICK w \in Workers : ExitSeen(w)
    BY <1>2
  <2>2. /\ w \in exits /\ exits' = exits \ {w} /\ UNCHANGED <<worker, pipe>>
        /\ session' = IF session.worker = w /\ ~session.paused THEN [session EXCEPT !.stopped = TRUE] ELSE session
    BY <2>1 DEF ExitSeen
  <2>3. /\ session' \in Session /\ session'.worker = session.worker /\ session'.paused = session.paused
        /\ session'.ring = session.ring /\ (session'.stopped => session.stopped \/ session.worker = w)
    BY <2>2 DEF Heart, Session
  <2>4. Exits' /\ (worker.id = w => worker.phase = "gone")
    BY <2>2 DEF Heart, Exits
  <2>5. NoIdleCapture'
    BY <2>2, <2>3, <2>4 DEF Heart, NoIdleCapture
  <2>6. QED BY <2>2, <2>3, <2>4, <2>5 DEF Heart, Pipes
<1>3. QED BY <1>1, <1>2, DataHeart DEF Callback

\* The routes, and the stop: the worker is killed or there is none.
LEMMA EndedHeart ==
  ASSUME Heart, Killed, UNCHANGED pipe, session' \in Session, session'.ring = <<>>
  PROVE  Heart'
<1>1. \A w : <<>> \in Seq(Of(w))
  BY EmptySeq
<1>2. QED BY <1>1, KilledTyped DEF Heart, Pipes, NoIdleCapture

LEMMA SameHeart == ASSUME Heart, UNCHANGED <<worker, pipe, exits, session>> PROVE Heart'
  BY DEF Heart, Pipes, Exits, NoIdleCapture

LEMMA ControlHeart == ASSUME Heart, Spare, Shapes, ControlServed PROVE Heart' /\ Spare' /\ control' \in Control
<1>1. control \in Control /\ control.phase = "sent" /\ UNCHANGED pipe
  BY DEF Shapes, ControlServed
<1>2. CASE control.kind = "pause" /\ PauseServed
  <2>1. control' \in Control /\ control'.kind = "pause"
    BY <1>1, <1>2 DEF PauseServed, Control
  <2>2. CASE session.stopped \/ session.paused
    BY <1>1, <1>2, <2>1, <2>2, SameHeart DEF PauseServed, Spare
  <2>3. CASE ~(session.stopped \/ session.paused)
    <3>1. session' = [Cleared EXCEPT !.worker = 0, !.paused = TRUE] /\ Killed
      BY <1>2, <2>3 DEF PauseServed
    <3>2. Cleared \in Session /\ Cleared.ring = <<>>
      BY ClearedTyped DEF Heart
    <3>3. session' \in Session /\ session'.ring = <<>>
      BY <3>1, <3>2 DEF Session
    <3>4. QED BY <1>1, <2>1, <3>1, <3>3, EndedHeart DEF Spare
  <2>4. QED BY <2>2, <2>3
<1>3. CASE control.kind = "resume" /\ ResumeServed
  <2>1. control' \in Control /\ control'.phase # "sent"
    BY <1>1, <1>3 DEF ResumeServed, Control
  <2>2. CASE session.stopped \/ ~session.paused
    BY <1>1, <1>3, <2>1, <2>2, SameHeart DEF ResumeServed, Spare
  <2>3. CASE ~(session.stopped \/ ~session.paused)
    <3> DEFINE next == worker.id + 1
    <3>1. /\ worker' = Started(next) /\ UNCHANGED exits
          /\ session' = [Cleared EXCEPT !.worker = next, !.paused = FALSE]
      BY <1>3, <2>3 DEF ResumeServed
    <3>2. next \in Workers /\ worker.id \in Nat /\ next \in Nat /\ next > worker.id
      <4>1. worker.id \in Nat
        BY SessionTyped
      <4>2. worker.id < MaxWorkers
        BY <1>1, <1>3 DEF Spare
      <4>3. MaxWorkers \in Nat
        BY CaptionConstants
      <4>4. QED BY <4>1, <4>2, <4>3 DEF Workers
    <3>3. Cleared \in Session /\ Cleared.ring = <<>> /\ Cleared.stopped = session.stopped
      BY ClearedTyped DEF Heart
    <3> HIDE DEF next
    <3>4. /\ session' \in Session /\ session'.ring = <<>> /\ session'.worker = next
          /\ session'.paused = FALSE /\ session'.stopped = session.stopped
      BY <3>1, <3>2, <3>3 DEF Session
    <3>5. worker' \in Process /\ worker'.id = next
      <4>1. <<>> \in Seq(Shown)
        BY EmptySeq
      <4>2. QED BY <3>1, <3>2, <4>1 DEF Started, Process
    <3>6. Exits'
      <4>1. \A w \in exits : w \in Nat /\ w <= worker.id
        BY DEF Heart, Exits, Workers
      <4>2. QED BY <3>1, <3>2, <3>5, <4>1 DEF Heart, Exits
    <3>7. NoIdleCapture'
      BY <2>3, <3>4, <3>5 DEF NoIdleCapture
    <3>8. session'.ring \in Seq(Of(session'.worker))
      BY <3>4, EmptySeq
    <3>9. QED BY <1>1, <2>1, <3>4, <3>5, <3>6, <3>7, <3>8 DEF Heart, Pipes, Spare
  <2>4. QED BY <2>2, <2>3
<1>4. QED BY <1>2, <1>3 DEF ControlServed

LEMMA StopHeart == ASSUME Heart, StopServed PROVE Heart'
<1>1. /\ session' = [Cleared EXCEPT !.worker = 0, !.paused = FALSE, !.stopped = TRUE] /\ Killed
      /\ UNCHANGED pipe
  BY DEF StopServed
<1>2. Cleared \in Session /\ Cleared.ring = <<>>
  BY ClearedTyped DEF Heart
<1>3. session' \in Session /\ session'.ring = <<>>
  BY <1>1, <1>2 DEF Session
<1>4. QED BY <1>1, <1>3, EndedHeart

LEMMA PollServedHeart == ASSUME Heart, PollServed PROVE Heart'
<1>1. session' = [session EXCEPT !.told = Len(session.ring)] /\ UNCHANGED <<worker, pipe, exits>>
  BY DEF PollServed
<1>2. /\ session' \in Session /\ session'.worker = session.worker /\ session'.paused = session.paused
      /\ session'.stopped = session.stopped /\ session'.ring = session.ring
  BY <1>1, SessionTyped DEF Heart, Session
<1>3. QED BY <1>1, <1>2 DEF Heart, Pipes, Exits, NoIdleCapture

LEMMA PollReturnsHeart == ASSUME Heart, PollReturns PROVE Heart'
<1> DEFINE rest == SubSeq(session.ring, session.told + 1, Len(session.ring))
<1>1. session' = [session EXCEPT !.ring = rest, !.told = 0] /\ UNCHANGED <<worker, pipe, exits>>
  BY DEF PollReturns
<1>2. rest \in Seq(Of(session.worker)) /\ rest \in Seq(Sent)
  <2>1. \A i \in session.told + 1..Len(session.ring) : session.ring[i] \in Of(session.worker)
    <3>1. \A i \in session.told + 1..Len(session.ring) : i \in 1..Len(session.ring)
      BY SessionTyped
    <3>2. QED BY <3>1, SessionTyped, ElementOfSeq
  <2>2. session.told + 1 \in Int /\ Len(session.ring) \in Int
    BY SessionTyped
  <2>3. rest \in Seq(Of(session.worker))
    BY <2>1, <2>2, SubSeqProperties
  <2>4. QED BY <2>3, Written
<1> HIDE DEF rest
<1>3. /\ session' \in Session /\ session'.worker = session.worker /\ session'.paused = session.paused
      /\ session'.stopped = session.stopped /\ session'.ring = rest
  BY <1>1, <1>2 DEF Heart, Session
<1>4. QED BY <1>1, <1>2, <1>3 DEF Heart, Pipes, Exits, NoIdleCapture

-----------------------------------------------------------------------------
(* What the client believes *)

Beliefs == Shapes /\ Closing /\ Believed

LEMMA NoPollTyped == NoPoll \in Poll /\ NoPoll.phase = "idle"
<1>1. <<>> \in Seq(Sent)
  BY EmptySeq
<1>2. QED BY <1>1 DEF NoPoll, Poll

\* The worker and the callbacks tell the client nothing.
LEMMA SilentBeliefs ==
  ASSUME Beliefs, UNCHANGED <<client, poll, control, stopAsked>>, session'.paused = session.paused
  PROVE  Beliefs'
  BY DEF Beliefs, Shapes, Closing, Believed, Tells

LEMMA CallbackBeliefs == ASSUME Heart, Beliefs, Callback PROVE Beliefs'
<1>1. UNCHANGED <<client, poll, control, stopAsked>> /\ session \in Session
  BY DEF Callback, Heart
<1>2. session'.paused = session.paused
  <2>1. CASE ProofFails
    BY <1>1, <2>1, ClearedTyped DEF ProofFails, Session
  <2>2. CASE \E w \in Workers : Data(w)
    <3>1. PICK w \in Workers : Data(w)
      BY <2>2
    <3>2. pipe[w] # <<>> /\ pipe[w] \in Seq(Of(w))
      BY <3>1 DEF Data, Heart, Pipes
    <3>3. Head(pipe[w]) \in Of(w)
      BY <3>2, HeadTailProperties
    <3>4. QED BY <3>1, <3>3, PushTyped DEF Data, Listens
  <2>3. CASE \E w \in Workers : ExitSeen(w)
    BY <1>1, <2>3 DEF ExitSeen, Session
  <2>4. QED BY <2>1, <2>2, <2>3 DEF Callback
<1>3. QED BY <1>1, <1>2, SilentBeliefs

LEMMA ControlBeliefs ==
  ASSUME Heart, Beliefs, ControlServed, control' \in Control
  PROVE  Beliefs'
<1>1. control \in Control /\ session \in Session /\ UNCHANGED <<client, poll, stopAsked>>
  BY DEF Beliefs, Shapes, Heart, ControlServed
<1>2. CASE control.kind = "pause" /\ PauseServed
  <2>1. /\ control'.kind = "pause" /\ (session.paused => session'.paused)
        /\ (control'.phase = "served" => session'.paused)
    <3>1. control' = [control EXCEPT !.phase = IF session.stopped THEN "refused" ELSE "served"]
      BY <1>2 DEF PauseServed
    <3>2. CASE session.stopped \/ session.paused
      BY <1>1, <1>2, <3>1, <3>2 DEF PauseServed, Control
    <3>3. CASE ~(session.stopped \/ session.paused)
      BY <1>1, <1>2, <3>1, <3>3, ClearedTyped DEF PauseServed, Control, Session
    <3>4. QED BY <3>2, <3>3
  <2>2. QED BY <1>1, <1>2, <2>1 DEF Beliefs, Shapes, Closing, Believed, Tells
<1>3. CASE control.kind = "resume" /\ ResumeServed
  <2>1. control'.kind = "resume"
    BY <1>1, <1>3 DEF ResumeServed, Control
  <2>2. QED BY <1>1, <2>1 DEF Beliefs, Shapes, Closing, Believed
<1>4. QED BY <1>2, <1>3 DEF ControlServed

LEMMA StopBeliefs == ASSUME Beliefs, StopServed PROVE Beliefs'
<1>1. client.closed /\ ~stopAsked' /\ UNCHANGED <<client, poll, control>>
  BY DEF StopServed, Beliefs, Closing
<1>2. QED BY <1>1 DEF Beliefs, Shapes, Closing, Believed

LEMMA PollServedBeliefs == ASSUME Heart, Beliefs, PollServed PROVE Beliefs'
<1>1. /\ poll.phase = "asked" /\ UNCHANGED <<client, control, stopAsked>> /\ poll \in Poll
      /\ poll' = [poll EXCEPT !.phase = "answered", !.events = session.ring,
                              !.stopped = session.stopped, !.paused = session.paused]
  BY DEF PollServed, Beliefs, Shapes
<1>2. session'.paused = session.paused
  BY DEF PollServed, Heart, Session
<1>3. poll' \in Poll /\ poll'.phase = "answered" /\ poll'.paused = session.paused
  BY <1>1, SessionTyped DEF Poll
<1>4. ~client.closed
  BY <1>1 DEF Beliefs, Closing
<1>5. QED BY <1>1, <1>2, <1>3, <1>4 DEF Beliefs, Shapes, Closing, Believed, Tells

LEMMA PollSendsBeliefs == ASSUME Beliefs, PollSends PROVE Beliefs'
<1>1. /\ ~client.closed /\ UNCHANGED <<session, client, control, stopAsked>>
      /\ poll' = [NoPoll EXCEPT !.phase = "asked"]
  BY DEF PollSends
<1>2. poll' \in Poll /\ poll'.phase = "asked"
  BY <1>1, NoPollTyped DEF Poll
<1>3. QED BY <1>1, <1>2 DEF Beliefs, Shapes, Closing, Believed, Tells

LEMMA PollReturnsBeliefs == ASSUME Heart, Beliefs, PollReturns PROVE Beliefs'
<1> DEFINE closed == HeardAll.closed \/ poll.stopped
<1>1. /\ poll.phase = "answered" /\ poll' = NoPoll /\ UNCHANGED control
      /\ client' = [closed |-> closed, paused |-> PausedAfter] /\ stopAsked' = closed
  BY DEF PollReturns
<1>2. session'.paused = session.paused
  BY DEF PollReturns, Heart, Session
<1>3. ~client.closed
  BY <1>1 DEF Beliefs, Closing
<1>4. /\ DOMAIN client' = {"closed", "paused"} /\ (stopAsked' => client'.closed)
      /\ (client'.paused => client.paused \/ (~poll.overtaken /\ poll.paused))
  <2> HIDE DEF closed
  <2>1. QED BY <1>1 DEF PausedAfter
<1>5. QED BY <1>1, <1>2, <1>3, <1>4, NoPollTyped DEF Beliefs, Shapes, Closing, Believed, Tells

\* A client that closes believes nothing.
LEMMA ClosedBeliefs ==
  ASSUME Beliefs, client' = [client EXCEPT !.closed = TRUE], poll' = NoPoll, control' \in Control
  PROVE  Beliefs'
<1>1. DOMAIN client' = {"closed", "paused"} /\ client'.closed
  BY DEF Beliefs, Shapes
<1>2. QED BY <1>1, NoPollTyped DEF Beliefs, Shapes, Closing, Believed

LEMMA ClickedBeliefs == ASSUME Beliefs, PauseClicked \/ ResumeClicked PROVE Beliefs'
<1>1. UNCHANGED <<session, client, poll, stopAsked>>
  BY DEF PauseClicked, ResumeClicked
<1>2. \/ UNCHANGED control
      \/ /\ control.kind = "none" /\ ~client.closed
         /\ \E kind \in {"pause", "resume"} : control' = [kind |-> kind, phase |-> "sent"]
  BY DEF PauseClicked, ResumeClicked, Busy
<1>3. control' \in Control
  BY <1>2 DEF Beliefs, Shapes, Control
<1>4. QED BY <1>1, <1>2, <1>3 DEF Beliefs, Shapes, Closing, Believed, Tells

LEMMA NoControlTyped == NoControl \in Control /\ NoControl.kind = "none"
  BY DEF NoControl, Control

LEMMA ControlReturnsBeliefs == ASSUME Beliefs, ControlReturns PROVE Beliefs'
<1>1. /\ control.phase = "served" /\ control' = NoControl /\ control.kind \in {"pause", "resume"}
      /\ client' = [client EXCEPT !.paused = (control.kind = "pause")]
      /\ poll' = [poll EXCEPT !.overtaken = (poll.phase # "idle")]
      /\ UNCHANGED <<session, stopAsked>>
  BY DEF ControlReturns, Beliefs, Shapes, Control
<1>2. /\ DOMAIN client' = {"closed", "paused"} /\ client'.closed = client.closed
      /\ (client'.paused => control.kind = "pause")
  BY <1>1 DEF Beliefs, Shapes
<1>3. poll' \in Poll /\ poll'.phase = poll.phase /\ (poll'.overtaken <=> poll.phase # "idle")
  BY <1>1 DEF Beliefs, Shapes, Poll
<1>4. QED BY <1>1, <1>2, <1>3, NoControlTyped DEF Beliefs, Shapes, Closing, Believed, Tells

LEMMA ControlFailsBeliefs == ASSUME Beliefs, ControlFails PROVE Beliefs'
<1>1. control' = NoControl /\ UNCHANGED session
  BY DEF ControlFails
<1>2. CASE control.kind = "pause"
  <2>1. UNCHANGED <<client, poll, stopAsked>>
    BY <1>2 DEF ControlFails
  <2>2. QED BY <1>1, <1>2, <2>1, NoControlTyped DEF Beliefs, Shapes, Closing, Believed, Tells
<1>3. CASE control.kind # "pause"
  BY <1>1, <1>3, NoControlTyped, ClosedBeliefs DEF ControlFails, Ended
<1>4. QED BY <1>2, <1>3

-----------------------------------------------------------------------------
(* Numbers *)

\* The least of a set of numbers.
LEMMA LeastOf ==
  ASSUME NEW S, S \subseteq Nat, S # {} PROVE \E n \in S : \A m \in S : n <= m
<1> DEFINE R == {p \in Nat \X Nat : p[1] < p[2]}
<1>1. IsWellFoundedOn(R, Nat)
  BY NatLessThanWellFounded DEF OpToRel
<1>2. PICK n \in S : \A m \in S : ~(<<m, n>> \in R)
  <2> HIDE DEF R
  <2>1. QED BY <1>1, WFMin
<1>3. ASSUME NEW m \in S, m < n PROVE FALSE
  <2>1. <<m, n>> \in R
    BY <1>3
  <2> HIDE DEF R
  <2>2. QED BY <1>2, <2>1
<1>4. QED BY <1>3

\* Induction, for a set of numbers.
LEMMA Induction ==
  ASSUME NEW T, 0 \in T, \A n \in Nat : n \in T => n + 1 \in T
  PROVE  \A n \in Nat : n \in T
<1> DEFINE U == {n \in Nat : n \notin T}
<1>1. ASSUME U # {} PROVE FALSE
  <2>1. PICK n \in U : \A m \in U : n <= m
    BY <1>1, LeastOf
  <2>2. n \in Nat \ {0} /\ n - 1 \in Nat /\ (n - 1) + 1 = n
    OBVIOUS
  <2>3. n - 1 \in U
    BY <2>2
  <2>4. QED BY <2>1, <2>2, <2>3
<1>2. QED BY <1>1

-----------------------------------------------------------------------------
(* The transcript *)

LEMMA PutMaps ==
  ASSUME NEW S, NEW T, NEW m \in Maps(S, T), NEW k \in S, NEW v \in T
  PROVE  Put(m, k, v) \in Maps(S, T)
<1>1. PICK D \in SUBSET S : m \in [D -> T]
  BY DEF Maps
<1>2. Put(m, k, v) \in [D \cup {k} -> T] /\ D \cup {k} \in SUBSET S
  BY <1>1 DEF Put
<1>3. QED BY <1>2 DEF Maps

LEMMA ReceiveSound ==
  ASSUME NEW s, Sound(s), NEW id \in RowIds, NEW u \in Spoken
  PROVE  LET t == Receive(s, id, u)
         IN Sound(t) /\ t.rows = s.rows /\ t.source = s.source /\ t.closed = s.closed
<1> DEFINE t == Receive(s, id, u)
           said == Put(s.transcript, id, u)
           told == IF NewFinal(s, id, u) THEN Put(s.finals, id, u.text) ELSE s.finals
<1>1. s \in Batch /\ Len(s.rows) <= MaxKept /\ Agreed(s.transcript, s.finals)
  BY DEF Sound
<1>2. CASE Stale(s, id, u)
  <2>1. t = s
    BY <1>2 DEF Receive
  <2> HIDE DEF t
  <2>2. Sound(t) /\ t.rows = s.rows /\ t.source = s.source /\ t.closed = s.closed
    BY <2>1
  <2>3. QED BY <2>2 DEF t
<1>3. CASE ~Stale(s, id, u)
  <2>1. t = [s EXCEPT !.transcript = said, !.finals = told]
    BY <1>3 DEF Receive
  <2>2. s.transcript \in Maps(RowIds, Spoken) /\ s.finals \in Maps(RowIds, Texts) /\ u.text \in Texts
        /\ u.phase \in {"partial", "final"}
    BY <1>1 DEF Batch, Spoken
  <2>3. /\ said \in Maps(RowIds, Spoken) /\ DOMAIN said = DOMAIN s.transcript \cup {id} /\ said[id] = u
        /\ \A other \in DOMAIN s.transcript : other # id => said[other] = s.transcript[other]
    <3>1. s.transcript \in Maps(RowIds, Spoken)
      BY <2>2
    <3> HIDE DEF said
    <3>2. said \in Maps(RowIds, Spoken)
      BY <3>1, PutMaps DEF said
    <3>3. /\ DOMAIN said = DOMAIN s.transcript \cup {id} /\ said[id] = u
          /\ \A other \in DOMAIN s.transcript : other # id => said[other] = s.transcript[other]
      BY DEF said, Put
    <3>4. QED BY <3>2, <3>3
  <2>4. /\ told \in Maps(RowIds, Texts)
        /\ NewFinal(s, id, u) => DOMAIN told = DOMAIN s.finals \cup {id} /\ told[id] = u.text
        /\ ~NewFinal(s, id, u) => told = s.finals
        /\ \A other \in DOMAIN s.finals : other # id => told[other] = s.finals[other]
    <3> DEFINE more == Put(s.finals, id, u.text)
    <3>0. more \in Maps(RowIds, Texts)
      BY <2>2, PutMaps
    <3>1. /\ DOMAIN more = DOMAIN s.finals \cup {id} /\ more[id] = u.text
          /\ \A other \in DOMAIN s.finals : other # id => more[other] = s.finals[other]
      BY DEF Put
    <3>2. told = IF NewFinal(s, id, u) THEN more ELSE s.finals
      OBVIOUS
    <3> HIDE DEF more, told
    <3>3. QED BY <2>2, <3>0, <3>1, <3>2
  <2> HIDE DEF said, told
  <2>5. Agreed(said, told)
    <3>1. DOMAIN told \subseteq DOMAIN said
      BY <1>1, <2>3, <2>4 DEF Agreed
    <3>2. ASSUME NEW other \in DOMAIN said
          PROVE  IF said[other].phase = "final" THEN other \in DOMAIN told /\ told[other] = said[other].text
                 ELSE other \notin DOMAIN told
      <4>1. CASE other # id
        <5>1. /\ other \in DOMAIN s.transcript /\ said[other] = s.transcript[other]
              /\ (other \in DOMAIN told <=> other \in DOMAIN s.finals)
              /\ (other \in DOMAIN s.finals => told[other] = s.finals[other])
          BY <2>3, <2>4, <3>2, <4>1
        <5>2. QED BY <1>1, <5>1 DEF Agreed
      <4>2. CASE other = id /\ u.phase = "final"
        <5>1. CASE NewFinal(s, id, u)
          BY <2>3, <2>4, <4>2, <5>1
        <5>2. CASE ~NewFinal(s, id, u)
          <6>1. id \in DOMAIN s.transcript /\ s.transcript[id].phase = "final" /\ s.transcript[id].text = u.text
            BY <4>2, <5>2 DEF NewFinal
          <6>2. id \in DOMAIN s.finals /\ s.finals[id] = u.text
            BY <1>1, <6>1 DEF Agreed
          <6>3. QED BY <2>3, <2>4, <4>2, <5>2, <6>2
        <5>3. QED BY <5>1, <5>2
      <4>3. CASE other = id /\ u.phase = "partial"
        <5>1. ~NewFinal(s, id, u) /\ (id \in DOMAIN s.transcript => s.transcript[id].phase # "final")
          BY <1>3, <4>3 DEF NewFinal, Stale
        <5>2. id \notin DOMAIN s.finals
          BY <1>1, <5>1 DEF Agreed
        <5>3. QED BY <2>3, <2>4, <4>3, <5>1, <5>2
      <4>4. QED BY <2>2, <4>1, <4>2, <4>3
    <3>3. QED BY <3>1, <3>2 DEF Agreed
  <2> HIDE DEF t
  <2>6. /\ t \in Batch /\ t.transcript = said /\ t.finals = told /\ t.rows = s.rows
        /\ t.source = s.source /\ t.closed = s.closed
    BY <1>1, <2>1, <2>3, <2>4 DEF Batch
  <2>7. Sound(t)
    BY <1>1, <2>5, <2>6 DEF Sound
  <2>8. QED BY <2>6, <2>7 DEF t
<1>4. QED BY <1>2, <1>3

LEMMA SpokenUtterance ==
  ASSUME NEW row \in Row, NEW final \in BOOLEAN PROVE Utterance(row, final) \in Spoken
<1>1. 2 * row.revision + (IF final THEN 1 ELSE 0) \in Nat /\ row.first \in Clock /\ row.text \in Texts
  BY DEF Row
<1>2. QED BY <1>1 DEF Utterance, Spoken

-----------------------------------------------------------------------------
(* The rows of the assembler *)

LEMMA ClockNat == Clock \subseteq Nat
<1>1. \A w \in Workers : MaxClock[w] \in Nat
  BY CaptionConstants DEF Workers
<1>2. QED BY <1>1 DEF Clock

\* What the filter has kept after n rows.
Keeps(rows, id, f, n) ==
  IF n = 0 THEN <<>>
  ELSE IF rows[n].id # id THEN Append(f[n - 1], rows[n]) ELSE f[n - 1]

LEMMA OthersDefined ==
  ASSUME NEW rows \in Seq(Row), NEW id
  PROVE  \E f : f = [n \in 0..Len(rows) |-> Keeps(rows, id, f, n)] /\ Others(rows, id) = f[Len(rows)]
<1> DEFINE IsLoop(f, k) == f = [n \in 0..k |-> Keeps(rows, id, f, n)]
           T == {k \in Nat : \E f : IsLoop(f, k)}
<1>1. 0 \in T
  <2> DEFINE f == [n \in 0..0 |-> <<>>]
  <2>1. IsLoop(f, 0)
    BY DEF Keeps
  <2>2. QED BY <2>1
<1>2. ASSUME NEW k \in Nat, k \in T PROVE k + 1 \in T
  <2>1. PICK f : IsLoop(f, k)
    BY <1>2
  <2> DEFINE g == [n \in 0..k + 1 |-> Keeps(rows, id, f, n)]
  <2>2. \A n \in 0..k : g[n] = f[n]
    BY <2>1
  <2>3. \A n \in 0..k + 1 : n # 0 => n - 1 \in 0..k
    OBVIOUS
  <2>4. \A n \in 0..k + 1 : Keeps(rows, id, f, n) = Keeps(rows, id, g, n)
    <3> TAKE n \in 0..k + 1
    <3>1. n # 0 => g[n - 1] = f[n - 1]
      BY <2>2, <2>3
    <3> HIDE DEF g
    <3>2. QED BY <3>1 DEF Keeps
  <2>5. IsLoop(g, k + 1)
    BY <2>4
  <2> HIDE DEF IsLoop, g
  <2>6. QED BY <2>5
<1>3. PICK g : IsLoop(g, Len(rows))
  <2>1. Len(rows) \in Nat
    BY LenProperties
  <2> HIDE DEF T
  <2>2. Len(rows) \in T
    BY <1>1, <1>2, <2>1, Induction
  <2>3. QED BY <2>2 DEF T
<1> DEFINE P(f) == IsLoop(f, Len(rows))
<1>4. P(CHOOSE f : P(f))
  <2>1. P(g)
    BY <1>3
  <2> HIDE DEF P
  <2>2. QED BY <2>1
<1>5. Others(rows, id) = (CHOOSE f : P(f))[Len(rows)]
  BY DEF Others, Keeps
<1>6. QED BY <1>4, <1>5

LEMMA OthersTyped ==
  ASSUME NEW rows \in Seq(Row), NEW id
  PROVE  Others(rows, id) \in Seq(Row) /\ Len(Others(rows, id)) <= Len(rows)
<1>1. PICK f : f = [n \in 0..Len(rows) |-> Keeps(rows, id, f, n)] /\ Others(rows, id) = f[Len(rows)]
  BY OthersDefined
<1>2. Len(rows) \in Nat
  BY LenProperties
<1> DEFINE T == {n \in Nat : n <= Len(rows) => f[n] \in Seq(Row) /\ Len(f[n]) <= n}
<1>3. 0 \in T
  <2>1. f[0] = Keeps(rows, id, f, 0)
    BY <1>1, <1>2
  <2>2. f[0] = <<>> /\ <<>> \in Seq(Row) /\ Len(<<>>) = 0
    BY <2>1, EmptySeq DEF Keeps
  <2>3. f[0] \in Seq(Row) /\ Len(f[0]) <= 0
    BY <2>2
  <2>4. QED BY <2>3
<1>4. ASSUME NEW n \in Nat, n \in T PROVE n + 1 \in T
  <2> SUFFICES ASSUME n + 1 <= Len(rows) PROVE f[n + 1] \in Seq(Row) /\ Len(f[n + 1]) <= n + 1
    OBVIOUS
  <2>1. n + 1 \in 0..Len(rows) /\ n + 1 \in 1..Len(rows) /\ (n + 1) - 1 = n /\ n + 1 # 0 /\ n <= Len(rows)
    BY <1>2
  <2>2. f[n] \in Seq(Row) /\ Len(f[n]) <= n /\ Len(f[n]) \in Nat
    BY <1>4, <2>1, LenProperties
  <2>3. f[n + 1] = Keeps(rows, id, f, n + 1)
    BY <1>1, <2>1
  <2>4. f[n + 1] = IF rows[n + 1].id # id THEN Append(f[n], rows[n + 1]) ELSE f[n]
    BY <2>1, <2>3 DEF Keeps
  <2>5. rows[n + 1] \in Row
    BY <2>1, ElementOfSeq
  <2>6. Append(f[n], rows[n + 1]) \in Seq(Row) /\ Len(Append(f[n], rows[n + 1])) = Len(f[n]) + 1
    BY <2>2, <2>5, AppendProperties
  <2>7. QED BY <2>2, <2>4, <2>6
<1>5. Len(rows) \in T
  <2> HIDE DEF T
  <2>1. QED BY <1>2, <1>3, <1>4, Induction
<1>6. QED BY <1>1, <1>2, <1>5

\* Among rows of which one is final there is an oldest one.
LEMMA OldestIsOne ==
  ASSUME NEW rows \in Seq(Row), NEW k \in DOMAIN rows, rows[k].final
  PROVE  Oldest(rows) \in DOMAIN rows
<1>1. DOMAIN rows = 1..Len(rows) /\ Len(rows) \in Nat
  BY LenProperties
<1>2. \A i \in DOMAIN rows : rows[i].at \in Nat
  <2> TAKE i \in DOMAIN rows
  <2>1. rows[i] \in Row
    BY <1>1, ElementOfSeq
  <2>2. QED BY <2>1, ClockNat DEF Row
<1> DEFINE Times == {t \in Nat : \E i \in DOMAIN rows : rows[i].final /\ rows[i].at = t}
<1>3. PICK t \in Times : \A u \in Times : t <= u
  <2>1. Times # {} /\ Times \subseteq Nat
    BY <1>2
  <2> HIDE DEF Times
  <2>2. QED BY <2>1, LeastOf
<1> DEFINE Candidates == {i \in Nat : i \in DOMAIN rows /\ rows[i].final /\ rows[i].at = t}
<1>4. PICK n \in Candidates : \A i \in Candidates : n <= i
  <2>1. Candidates # {} /\ Candidates \subseteq Nat
    BY <1>1, <1>3
  <2> HIDE DEF Candidates
  <2>2. QED BY <2>1, LeastOf
<1>5. n \in DOMAIN rows /\ rows[n].final /\ rows[n].at = t
  BY <1>4
<1>6. ASSUME NEW j \in DOMAIN rows, rows[j].final
      PROVE  rows[n].at < rows[j].at \/ (rows[n].at = rows[j].at /\ n <= j)
  <2>1. t <= rows[j].at /\ rows[j].at \in Nat
    BY <1>2, <1>3, <1>6
  <2>2. rows[j].at = t => n <= j
    BY <1>1, <1>4, <1>6
  <2>3. QED BY <1>2, <1>5, <2>1, <2>2
<1>7. QED BY <1>5, <1>6 DEF Oldest

\* pruneRows keeps the assembler within its limit, when a row is final.
LEMMA PrunedTyped ==
  ASSUME NEW rows \in Seq(Row), Len(rows) <= MaxKept + 1,
         Len(rows) > MaxKept => \E i \in DOMAIN rows : rows[i].final
  PROVE  Pruned(rows) \in Seq(Row) /\ Len(Pruned(rows)) <= MaxKept
<1>1. Len(rows) \in Nat /\ MaxKept \in Nat
  BY LenProperties, CaptionConstants
<1>0. DOMAIN rows = 1..Len(rows)
  BY LenProperties
<1>2. CASE Len(rows) <= MaxKept
  BY <1>2 DEF Pruned
<1>3. CASE ~(Len(rows) <= MaxKept)
  <2> DEFINE k == Oldest(rows)
             one == SubSeq(rows, 1, k - 1)
             two == SubSeq(rows, k + 1, Len(rows))
  <2>1. k \in 1..Len(rows) /\ Len(rows) = MaxKept + 1
    <3>0. Len(rows) > MaxKept
      BY <1>1, <1>3
    <3>1. PICK i \in DOMAIN rows : rows[i].final
      BY <3>0
    <3>2. k \in DOMAIN rows
      BY <3>1, OldestIsOne
    <3>3. Len(rows) = MaxKept + 1
      BY <1>1, <1>3
    <3>4. k \in 1..Len(rows)
      BY <1>0, <3>2
    <3>5. QED BY <3>3, <3>4
  <2>2. Pruned(rows) = one \o two
    BY <1>3 DEF Pruned, RemoveAt
  <2> HIDE DEF k
  <2>3. k \in Nat /\ k >= 1 /\ k <= Len(rows) /\ k - 1 \in Nat
    BY <1>1, <2>1
  <2>4. \A i \in 1..Len(rows) : rows[i] \in Row
    BY ElementOfSeq
  <2>5. one \in Seq(Row) /\ Len(one) = k - 1
    <3>1. \A i \in 1..k - 1 : rows[i] \in Row
      BY <1>1, <2>3, <2>4
    <3>2. QED BY <2>3, <3>1, SubSeqProperties
  <2>6. two \in Seq(Row) /\ Len(two) = Len(rows) - k
    <3>1. \A i \in k + 1..Len(rows) : rows[i] \in Row
      BY <1>1, <2>3, <2>4
    <3>2. two \in Seq(Row) /\ Len(two) = IF k + 1 <= Len(rows) THEN Len(rows) - (k + 1) + 1 ELSE 0
      BY <1>1, <2>3, <3>1, SubSeqProperties
    <3>3. CASE k + 1 <= Len(rows)
      <4>1. Len(rows) - (k + 1) + 1 = Len(rows) - k
        BY <1>1, <2>3
      <4>2. QED BY <3>2, <3>3, <4>1
    <3>4. CASE ~(k + 1 <= Len(rows))
      <4>1. Len(rows) - k = 0
        BY <1>1, <2>3, <3>4
      <4>2. QED BY <3>2, <3>4, <4>1
    <3>5. QED BY <3>3, <3>4
  <2> HIDE DEF one, two
  <2>7. one \o two \in Seq(Row) /\ Len(one \o two) = Len(one) + Len(two)
    BY <2>5, <2>6, ConcatProperties
  <2>8. QED BY <1>1, <2>1, <2>2, <2>3, <2>5, <2>6, <2>7
<1>4. QED BY <1>2, <1>3

\* A function on the first numbers is a sequence of that length.
LEMMA FunctionSeq ==
  ASSUME NEW S, NEW n \in Nat, NEW f \in [1..n -> S] PROVE f \in Seq(S) /\ Len(f) = n
<1>1. f \in Seq(S)
  BY SeqDef
<1>2. DOMAIN f = 1..n /\ DOMAIN f = 1..Len(f) /\ Len(f) \in Nat
  BY <1>1, LenProperties
<1>3. Len(f) <= n
  <2>1. CASE Len(f) = 0
    BY <2>1
  <2>2. CASE Len(f) # 0
    <3>1. Len(f) \in 1..Len(f)
      BY <1>2, <2>2
    <3>2. Len(f) \in 1..n
      BY <1>2, <3>1
    <3>3. QED BY <3>2
  <2>3. QED BY <2>1, <2>2
<1>4. n <= Len(f)
  <2>1. CASE n = 0
    BY <1>2, <2>1
  <2>2. CASE n # 0
    <3>1. n \in 1..n
      BY <2>2
    <3>2. n \in 1..Len(f)
      BY <1>2, <3>1
    <3>3. QED BY <3>2
  <2>3. QED BY <2>1, <2>2
<1>5. QED BY <1>1, <1>2, <1>3, <1>4

-----------------------------------------------------------------------------
(* What an event does to a batch *)

LEMMA SourceTyped ==
  ASSUME NEW source \in Sources, NEW type
  PROVE  SourceAfter(source, type) \in Sources /\ (source = "stopped" => SourceAfter(source, type) = "stopped")
  BY DEF SourceAfter, Sources

\* A batch that began with a stopped source and no rows, and says nothing.
Still(s, t) ==
  s.source = "stopped" /\ s.rows = <<>> =>
    /\ t.source = "stopped" /\ t.rows = <<>>
    /\ t.transcript = s.transcript /\ t.finals = s.finals

LEMMA ViolatedSound ==
  ASSUME NEW s, Sound(s) PROVE Sound(Violated(s)) /\ Still(s, Violated(s))
<1> DEFINE source == SourceAfter(s.source, "caption-missing")
<1>1. s \in Batch /\ s.source \in Sources
  BY DEF Sound, Batch
<1>2. source \in Sources /\ (s.source = "stopped" => source = "stopped")
  BY <1>1, SourceTyped
<1>3. Violated(s) = [s EXCEPT !.source = source, !.closed = TRUE]
  BY DEF Violated
<1> HIDE DEF source
<1>4. /\ Violated(s) \in Batch /\ Violated(s).rows = s.rows /\ Violated(s).transcript = s.transcript
      /\ Violated(s).finals = s.finals /\ Violated(s).source = source
  BY <1>1, <1>2, <1>3 DEF Batch
<1>5. QED BY <1>2, <1>4 DEF Sound, Still

LEMMA ObservedSound ==
  ASSUME NEW s, Sound(s), NEW event \in Sent, event.type = "observation"
  PROVE  Sound(Observed(s, event)) /\ Still(s, Observed(s, event))
<1> DEFINE id == <<event.worker, event.row>>
           known == Known(s, id)
           old == s.rows[CHOOSE i \in known : TRUE]
           row == [id |-> id, revision |-> event.revision, text |-> event.text, at |-> event.at,
                   first |-> IF known = {} THEN event.at ELSE old.first,
                   final |-> known # {} /\ old.final]
           rows == Append(Others(s.rows, id), row)
           full == Len(rows) > MaxKept /\ \A i \in DOMAIN rows : ~rows[i].final
           kept == [s EXCEPT !.rows = Pruned(rows)]
           t == Observed(s, event)
<1>1. s \in Batch /\ s.rows \in Seq(Row) /\ Len(s.rows) <= MaxKept /\ Len(s.rows) \in Nat /\ MaxKept \in Nat
  BY LenProperties, CaptionConstants DEF Sound, Batch
<1>2. id \in RowIds /\ event.revision \in Nat /\ event.text \in Texts /\ event.at \in Clock
  BY DEF Sent, Event
<1>3. known # {} => old \in Row
  <2> SUFFICES ASSUME known # {} PROVE old \in Row
    OBVIOUS
  <2>1. (CHOOSE i \in known : TRUE) \in DOMAIN s.rows
    BY DEF Known
  <2>2. \A i \in DOMAIN s.rows : s.rows[i] \in Row
    BY <1>1, LenProperties, ElementOfSeq
  <2>3. QED BY <2>1, <2>2
<1>4. row \in Row
  <2>1. known # {} => old.first \in Clock /\ old.final \in BOOLEAN
    BY <1>3 DEF Row
  <2> DEFINE first == IF known = {} THEN event.at ELSE old.first
             final == known # {} /\ old.final
  <2>2. first \in Clock /\ final \in BOOLEAN
    BY <1>2, <2>1
  <2>3. row = [id |-> id, revision |-> event.revision, text |-> event.text, at |-> event.at,
               first |-> first, final |-> final]
    OBVIOUS
  <2> HIDE DEF first, final, id, known, old, row
  <2>4. QED BY <1>2, <2>2, <2>3 DEF Row
<1>5. rows \in Seq(Row) /\ Len(rows) <= MaxKept + 1
  <2>1. Others(s.rows, id) \in Seq(Row) /\ Len(Others(s.rows, id)) <= Len(s.rows)
    BY <1>1, OthersTyped
  <2> HIDE DEF row, id
  <2>2. rows \in Seq(Row) /\ Len(rows) = Len(Others(s.rows, id)) + 1
    BY <1>4, <2>1, AppendProperties
  <2>3. Len(Others(s.rows, id)) \in Nat
    BY <2>1, LenProperties
  <2> HIDE DEF rows
  <2>4. QED BY <1>1, <2>1, <2>2, <2>3
<1>6. t = CASE s.source # "active-ocr" -> Violated(s)
            [] s.source = "active-ocr" /\ known # {} /\ event.revision <= old.revision -> s
            [] OTHER -> IF (known # {} /\ event.at < old.at) \/ full THEN Violated(s)
                        ELSE Receive(kept, id, Utterance(row, row.final))
  BY DEF Observed
<1> HIDE DEF t
<1>7. CASE t = Violated(s)
  BY <1>7, ViolatedSound DEF t
<1>8. CASE t = s /\ s.source = "active-ocr"
  BY <1>8 DEF t, Still
<1>9. CASE ~full /\ t = Receive(kept, id, Utterance(row, row.final)) /\ s.source = "active-ocr"
  <2> HIDE DEF rows
  <2>1. Len(rows) > MaxKept => \E i \in DOMAIN rows : rows[i].final
    BY <1>9
  <2>2. Pruned(rows) \in Seq(Row) /\ Len(Pruned(rows)) <= MaxKept
    BY <1>5, <2>1, PrunedTyped
  <2>3. /\ kept \in Batch /\ kept.rows = Pruned(rows) /\ kept.transcript = s.transcript
        /\ kept.finals = s.finals
    BY <1>1, <2>2 DEF Batch
  <2>4. Sound(kept)
    BY <2>2, <2>3 DEF Sound
  <2> HIDE DEF kept, row, id
  <2>5. row.final \in BOOLEAN
    BY <1>4 DEF Row
  <2>6. Utterance(row, row.final) \in Spoken
    BY <1>4, <2>5, SpokenUtterance
  <2>7. Sound(Receive(kept, id, Utterance(row, row.final)))
    BY <1>2, <2>4, <2>6, ReceiveSound
  <2>8. QED BY <1>9, <2>7 DEF t, Still
<1>10. QED
  <2> HIDE DEF full, known, old, kept, row, id
  <2>1. QED BY <1>6, <1>7, <1>8, <1>9

\* What the finals of the first n rows have made of a batch.
ToldAfter(s, rows, event, f, n) ==
  IF n = 0 THEN s
  ELSE IF Due(rows[n], event) THEN Receive(f[n - 1], rows[n].id, Utterance(rows[n], TRUE))
  ELSE f[n - 1]

LEMMA ToldDefined ==
  ASSUME NEW s, NEW rows \in Seq(Row), NEW event
  PROVE  \E f : /\ f = [n \in 0..Len(rows) |-> ToldAfter(s, rows, event, f, n)]
                /\ ToldFinal(s, rows, event) = f[Len(rows)]
<1> DEFINE IsLoop(f, k) == f = [n \in 0..k |-> ToldAfter(s, rows, event, f, n)]
           T == {k \in Nat : \E f : IsLoop(f, k)}
<1>1. 0 \in T
  <2> DEFINE f == [n \in 0..0 |-> s]
  <2>1. IsLoop(f, 0)
    BY DEF ToldAfter
  <2>2. QED BY <2>1
<1>2. ASSUME NEW k \in Nat, k \in T PROVE k + 1 \in T
  <2>1. PICK f : IsLoop(f, k)
    BY <1>2
  <2> DEFINE g == [n \in 0..k + 1 |-> ToldAfter(s, rows, event, f, n)]
  <2>2. \A n \in 0..k : g[n] = f[n]
    BY <2>1
  <2>3. \A n \in 0..k + 1 : n # 0 => n - 1 \in 0..k
    OBVIOUS
  <2>4. \A n \in 0..k + 1 : ToldAfter(s, rows, event, f, n) = ToldAfter(s, rows, event, g, n)
    <3> TAKE n \in 0..k + 1
    <3>1. n # 0 => g[n - 1] = f[n - 1]
      BY <2>2, <2>3
    <3> HIDE DEF g
    <3>2. QED BY <3>1 DEF ToldAfter
  <2>5. IsLoop(g, k + 1)
    BY <2>4
  <2> HIDE DEF IsLoop, g
  <2>6. QED BY <2>5
<1>3. PICK g : IsLoop(g, Len(rows))
  <2>1. Len(rows) \in Nat
    BY LenProperties
  <2> HIDE DEF T
  <2>2. Len(rows) \in T
    BY <1>1, <1>2, <2>1, Induction
  <2>3. QED BY <2>2 DEF T
<1> DEFINE P(f) == IsLoop(f, Len(rows))
<1>4. P(CHOOSE f : P(f))
  <2>1. P(g)
    BY <1>3
  <2> HIDE DEF P
  <2>2. QED BY <2>1
<1>5. ToldFinal(s, rows, event) = (CHOOSE f : P(f))[Len(rows)]
  BY DEF ToldFinal, ToldAfter
<1>6. QED BY <1>4, <1>5

LEMMA ToldSound ==
  ASSUME NEW s, Sound(s), NEW rows \in Seq(Row), NEW event
  PROVE  LET t == ToldFinal(s, rows, event)
         IN /\ Sound(t) /\ t.rows = s.rows /\ t.source = s.source
            /\ rows = <<>> => t = s
<1>1. PICK f : /\ f = [n \in 0..Len(rows) |-> ToldAfter(s, rows, event, f, n)]
               /\ ToldFinal(s, rows, event) = f[Len(rows)]
  BY ToldDefined
<1>2. Len(rows) \in Nat
  BY LenProperties
<1> DEFINE T == {n \in Nat : n <= Len(rows) => Sound(f[n]) /\ f[n].rows = s.rows /\ f[n].source = s.source}
<1>3. f[0] = s
  <2>1. f[0] = ToldAfter(s, rows, event, f, 0)
    BY <1>1, <1>2
  <2>2. QED BY <2>1 DEF ToldAfter
<1>4. 0 \in T
  BY <1>3
<1>5. ASSUME NEW n \in Nat, n \in T PROVE n + 1 \in T
  <2> SUFFICES ASSUME n + 1 <= Len(rows)
               PROVE  Sound(f[n + 1]) /\ f[n + 1].rows = s.rows /\ f[n + 1].source = s.source
    OBVIOUS
  <2>1. n + 1 \in 0..Len(rows) /\ n + 1 \in 1..Len(rows) /\ (n + 1) - 1 = n /\ n + 1 # 0 /\ n <= Len(rows)
    BY <1>2
  <2>2. Sound(f[n]) /\ f[n].rows = s.rows /\ f[n].source = s.source
    BY <1>5, <2>1
  <2>3. f[n + 1] = ToldAfter(s, rows, event, f, n + 1)
    BY <1>1, <2>1
  <2>4. f[n + 1] = IF Due(rows[n + 1], event)
                   THEN Receive(f[n], rows[n + 1].id, Utterance(rows[n + 1], TRUE)) ELSE f[n]
    BY <2>1, <2>3 DEF ToldAfter
  <2>5. rows[n + 1] \in Row /\ rows[n + 1].id \in RowIds
    <3>1. rows[n + 1] \in Row
      BY <2>1, ElementOfSeq
    <3>2. QED BY <3>1 DEF Row
  <2>6. Utterance(rows[n + 1], TRUE) \in Spoken
    BY <2>5, SpokenUtterance
  <2> DEFINE next == Receive(f[n], rows[n + 1].id, Utterance(rows[n + 1], TRUE))
  <2>7. Sound(next) /\ next.rows = f[n].rows /\ next.source = f[n].source
    BY <2>2, <2>5, <2>6, ReceiveSound
  <2> HIDE DEF next
  <2>8. QED BY <2>2, <2>4, <2>7 DEF next
<1>6. Len(rows) \in T
  <2> HIDE DEF T
  <2>1. QED BY <1>2, <1>4, <1>5, Induction
<1>7. rows = <<>> => f[Len(rows)] = s
  BY <1>3
<1>8. QED BY <1>1, <1>2, <1>6, <1>7

LEMMA FinalizedSound ==
  ASSUME NEW s, Sound(s), NEW event
  PROVE  Sound(Finalized(s, event)) /\ Still(s, Finalized(s, event))
<1> DEFINE rows == [i \in DOMAIN s.rows |->
                      IF Due(s.rows[i], event) THEN [s.rows[i] EXCEPT !.final = TRUE] ELSE s.rows[i]]
           done == [s EXCEPT !.rows = rows]
           t == Finalized(s, event)
<1>1. s \in Batch /\ s.rows \in Seq(Row) /\ Len(s.rows) <= MaxKept /\ Len(s.rows) \in Nat
      /\ DOMAIN s.rows = 1..Len(s.rows)
  BY LenProperties DEF Sound, Batch
<1>2. \A i \in 1..Len(s.rows) : s.rows[i] \in Row /\ [s.rows[i] EXCEPT !.final = TRUE] \in Row
  <2> TAKE i \in 1..Len(s.rows)
  <2>1. s.rows[i] \in Row
    BY <1>1, ElementOfSeq
  <2>2. QED BY <2>1 DEF Row
<1>3. rows \in [1..Len(s.rows) -> Row]
  BY <1>1, <1>2
<1> HIDE DEF rows
<1>4. rows \in Seq(Row) /\ Len(rows) = Len(s.rows)
  BY <1>1, <1>3, FunctionSeq
<1>5. /\ done \in Batch /\ done.rows = rows /\ done.transcript = s.transcript /\ done.finals = s.finals
      /\ done.source = s.source
  BY <1>1, <1>4 DEF Batch
<1>6. t = Violated(s) \/ t = ToldFinal(done, s.rows, event)
  BY DEF Finalized, rows
<1> HIDE DEF done, t
<1>7. Sound(done)
  BY <1>1, <1>4, <1>5 DEF Sound
<1>8. CASE t = Violated(s)
  BY <1>8, ViolatedSound DEF t
<1>9. CASE t = ToldFinal(done, s.rows, event)
  <2>1. /\ Sound(t) /\ t.rows = done.rows /\ t.source = done.source
        /\ s.rows = <<>> => t = done
    BY <1>1, <1>7, <1>9, ToldSound
  <2>2. s.rows = <<>> => rows = <<>>
    <3>1. Len(<<>>) = 0
      OBVIOUS
    <3>2. Len(rows) = 0 => rows = <<>>
      BY <1>4, EmptySeq
    <3>3. QED BY <1>4, <3>1, <3>2
  <2>3. Still(s, t)
    BY <1>5, <2>1, <2>2 DEF Still
  <2>4. QED BY <2>1, <2>3 DEF t
<1>10. QED BY <1>6, <1>8, <1>9

LEMMA HeardSound ==
  ASSUME NEW s, Sound(s), NEW event \in Sent
  PROVE  Sound(Heard(s, event)) /\ Still(s, Heard(s, event))
<1>1. CASE s.closed
  BY <1>1 DEF Heard, Still
<1>2. CASE ~s.closed /\ event.type = "observation"
  <2>1. Heard(s, event) = Observed(s, event)
    BY <1>2 DEF Heard
  <2>2. QED BY <1>2, <2>1, ObservedSound
<1>3. CASE ~s.closed /\ event.type \in {"row-disappeared", "tick"}
  <2>1. Heard(s, event) = Finalized(s, event)
    BY <1>3 DEF Heard
  <2>2. QED BY <2>1, FinalizedSound
<1>4. CASE ~s.closed /\ event.type \notin {"observation", "row-disappeared", "tick"}
  <2> DEFINE source == SourceAfter(s.source, event.type)
             t == Heard(s, event)
  <2>1. t = [s EXCEPT !.source = source]
    BY <1>4 DEF Heard
  <2>2. s \in Batch /\ s.source \in Sources
    BY DEF Sound, Batch
  <2>3. source \in Sources /\ (s.source = "stopped" => source = "stopped")
    BY <2>2, SourceTyped
  <2> HIDE DEF source, t
  <2>4. /\ t \in Batch /\ t.rows = s.rows /\ t.transcript = s.transcript /\ t.finals = s.finals
        /\ t.source = source
    BY <2>1, <2>2, <2>3 DEF Batch
  <2>5. Sound(t) /\ Still(s, t)
    BY <2>3, <2>4 DEF Sound, Still
  <2>6. QED BY <2>5 DEF t
<1>5. QED BY <1>1, <1>2, <1>3, <1>4

\* What the first n events of an answer have made of a batch.
HeardAfter(s, events, f, n) == IF n = 0 THEN s ELSE Heard(f[n - 1], events[n])

LEMMA HeardDefined ==
  ASSUME NEW s, NEW events \in Seq(Sent)
  PROVE  \E f : f = [n \in 0..Len(events) |-> HeardAfter(s, events, f, n)] /\ HeardOf(s, events) = f[Len(events)]
<1> DEFINE IsLoop(f, k) == f = [n \in 0..k |-> HeardAfter(s, events, f, n)]
           T == {k \in Nat : \E f : IsLoop(f, k)}
<1>1. 0 \in T
  <2> DEFINE f == [n \in 0..0 |-> s]
  <2>1. IsLoop(f, 0)
    BY DEF HeardAfter
  <2>2. QED BY <2>1
<1>2. ASSUME NEW k \in Nat, k \in T PROVE k + 1 \in T
  <2>1. PICK f : IsLoop(f, k)
    BY <1>2
  <2> DEFINE g == [n \in 0..k + 1 |-> HeardAfter(s, events, f, n)]
  <2>2. \A n \in 0..k : g[n] = f[n]
    BY <2>1
  <2>3. \A n \in 0..k + 1 : n # 0 => n - 1 \in 0..k
    OBVIOUS
  <2>4. \A n \in 0..k + 1 : HeardAfter(s, events, f, n) = HeardAfter(s, events, g, n)
    <3> TAKE n \in 0..k + 1
    <3>1. n # 0 => g[n - 1] = f[n - 1]
      BY <2>2, <2>3
    <3> HIDE DEF g
    <3>2. QED BY <3>1 DEF HeardAfter
  <2>5. IsLoop(g, k + 1)
    BY <2>4
  <2> HIDE DEF IsLoop, g
  <2>6. QED BY <2>5
<1>3. PICK g : IsLoop(g, Len(events))
  <2>1. Len(events) \in Nat
    BY LenProperties
  <2> HIDE DEF T
  <2>2. Len(events) \in T
    BY <1>1, <1>2, <2>1, Induction
  <2>3. QED BY <2>2 DEF T
<1> DEFINE P(f) == IsLoop(f, Len(events))
<1>4. P(CHOOSE f : P(f))
  <2>1. P(g)
    BY <1>3
  <2> HIDE DEF P
  <2>2. QED BY <2>1
<1>5. HeardOf(s, events) = (CHOOSE f : P(f))[Len(events)]
  BY DEF HeardOf, HeardAfter
<1>6. QED BY <1>4, <1>5

LEMMA HeardAllSound ==
  ASSUME NEW s, Sound(s), NEW events \in Seq(Sent)
  PROVE  Sound(HeardOf(s, events)) /\ Still(s, HeardOf(s, events))
<1>1. PICK f : f = [n \in 0..Len(events) |-> HeardAfter(s, events, f, n)] /\ HeardOf(s, events) = f[Len(events)]
  BY HeardDefined
<1>2. Len(events) \in Nat
  BY LenProperties
<1> DEFINE T == {n \in Nat : n <= Len(events) => Sound(f[n]) /\ Still(s, f[n])}
<1>3. 0 \in T
  <2>1. f[0] = HeardAfter(s, events, f, 0)
    BY <1>1, <1>2
  <2>2. f[0] = s
    BY <2>1 DEF HeardAfter
  <2>3. QED BY <2>2 DEF Still
<1>4. ASSUME NEW n \in Nat, n \in T PROVE n + 1 \in T
  <2> SUFFICES ASSUME n + 1 <= Len(events) PROVE Sound(f[n + 1]) /\ Still(s, f[n + 1])
    OBVIOUS
  <2>1. n + 1 \in 0..Len(events) /\ n + 1 \in 1..Len(events) /\ (n + 1) - 1 = n /\ n + 1 # 0 /\ n <= Len(events)
    BY <1>2
  <2>2. Sound(f[n]) /\ Still(s, f[n])
    BY <1>4, <2>1
  <2>3. f[n + 1] = HeardAfter(s, events, f, n + 1)
    BY <1>1, <2>1
  <2>4. f[n + 1] = Heard(f[n], events[n + 1]) /\ events[n + 1] \in Sent
    BY <2>1, <2>3, ElementOfSeq DEF HeardAfter
  <2>5. Sound(f[n + 1]) /\ Still(f[n], f[n + 1])
    BY <2>2, <2>4, HeardSound
  <2>6. QED BY <2>2, <2>5 DEF Still
<1>5. Len(events) \in T
  <2> HIDE DEF T
  <2>1. QED BY <1>2, <1>3, <1>4, Induction
<1>6. QED BY <1>1, <1>2, <1>5

-----------------------------------------------------------------------------
(* The steps together *)

LEMMA WorkerKeepsId == ASSUME worker \in Process, WorkerStep PROVE worker'.id = worker.id
<1>1. Gone(worker).id = worker.id
  BY GoneTyped
<1>2. QED BY <1>1 DEF WorkerStep, Process, Selected, Crashes, Appears, FrameEnds, GivesUp, Vanishes, Rewritten

LEMMA ShowsHold == ASSUME Heart, Shows, Spare, Next PROVE Shows'
<1>1. worker.id \in Workers /\ worker.shown \in Seq(Shown) /\ MaxRows \in [Workers -> Nat] /\ worker \in Process
  BY CaptionConstants DEF Heart, Process, Workers
<1>2. Len(<<>>) = 0 /\ \A w \in Workers : MaxRows[w] >= 0
  BY <1>1
<1>3. CASE worker' = Gone(worker) \/ Killed
  <2>1. Gone(worker).id = worker.id /\ Gone(worker).shown = <<>>
    BY <1>1 DEF Gone, Process
  <2>2. worker' = Gone(worker) \/ worker' = worker
    BY <1>3 DEF Killed
  <2>3. QED BY <1>1, <1>2, <2>1, <2>2 DEF Shows
<1>4. CASE WorkerStep
  <2>1. CASE Selected \/ FrameEnds
    <3>1. worker'.id = worker.id /\ worker'.shown = worker.shown
      BY <1>1, <2>1 DEF Selected, FrameEnds, Process
    <3>2. QED BY <3>1 DEF Shows
  <2>2. CASE Appears
    <3> DEFINE row == [revision |-> 1, text |-> First, at |-> worker.now, gone |-> FALSE]
    <3>1. worker' = [worker EXCEPT !.shown = Append(worker.shown, row)] /\ Len(worker.shown) < MaxRows[worker.id]
      BY <2>2 DEF Appears
    <3>2. Len(Append(worker.shown, row)) = Len(worker.shown) + 1
      BY <1>1
    <3>3. worker'.id = worker.id /\ worker'.shown = Append(worker.shown, row)
      BY <1>1, <3>1 DEF Process
    <3> HIDE DEF row
    <3>4. Len(worker.shown) \in Nat /\ MaxRows[worker.id] \in Nat
      BY <1>1, LenProperties
    <3>5. QED BY <3>1, <3>2, <3>3, <3>4 DEF Shows
  <2>3. CASE \E n \in 1..Len(worker.shown) : Vanishes(n) \/ \E text \in Texts : Rewritten(n, text)
    <3>1. \E n, row : /\ n \in 1..Len(worker.shown)
                      /\ worker' = [worker EXCEPT !.shown = [worker.shown EXCEPT ![n] = row]]
      BY <2>3 DEF Vanishes, Rewritten
    <3>0. PICK n, row : /\ n \in 1..Len(worker.shown)
                        /\ worker' = [worker EXCEPT !.shown = [worker.shown EXCEPT ![n] = row]]
      BY <3>1
    <3>2. worker'.id = worker.id /\ worker'.shown = [worker.shown EXCEPT ![n] = row]
      BY <1>1, <3>0 DEF Process
    <3>3. Len([worker.shown EXCEPT ![n] = row]) = Len(worker.shown)
      BY <1>1
    <3>4. QED BY <3>2, <3>3 DEF Shows
  <2>4. CASE Crashes \/ \E type \in Types : GivesUp(type)
    BY <1>3, <2>4 DEF Crashes, GivesUp
  <2>5. QED BY <1>4, <2>1, <2>2, <2>3, <2>4 DEF WorkerStep
<1>5. CASE Callback
  BY <1>3, <1>5 DEF Callback, ProofFails, Data, ExitSeen, Shows
<1>6. CASE ControlServed
  <2>1. CASE PauseServed
    BY <1>3, <2>1 DEF PauseServed, Shows
  <2>2. CASE control.kind = "resume" /\ ResumeServed
    <3>1. CASE UNCHANGED worker
      BY <3>1 DEF Shows
    <3>2. CASE worker' = Started(worker.id + 1)
      <4>1. worker.id + 1 \in Workers
        BY <1>1, <1>6, <2>2, CaptionConstants DEF ControlServed, Spare, Workers
      <4>2. worker'.id = worker.id + 1 /\ worker'.shown = <<>>
        BY <3>2 DEF Started
      <4>3. QED BY <1>2, <4>1, <4>2 DEF Shows
    <3>3. QED BY <2>2, <3>1, <3>2 DEF ResumeServed
  <2>3. QED BY <1>6, <2>1, <2>2 DEF ControlServed
<1>7. CASE StopServed
  BY <1>3, <1>7 DEF StopServed
<1>8. CASE UNCHANGED worker
  BY <1>8 DEF Shows
<1>9. QED
  BY <1>4, <1>5, <1>6, <1>7, <1>8 DEF Next, PollServed, PollSends, PollReturns, PollFails, PauseClicked,
     ResumeClicked, ControlReturns, ControlFails, StopClicked

LEMMA FlagsHold == ASSUME Flags, Shapes, Next PROVE Flags'
<1>1. CASE UNCHANGED <<client, stopAsked>>
  BY <1>1 DEF Flags
<1>2. CASE StopServed
  BY <1>2 DEF StopServed, Flags
<1>3. CASE PollReturns
  <2>1. PausedAfter \in BOOLEAN /\ poll.stopped \in BOOLEAN
    BY DEF PausedAfter, Flags, Shapes, Poll
  <2>2. \E closed \in BOOLEAN : /\ client' = [closed |-> closed, paused |-> PausedAfter]
                                /\ stopAsked' = closed
    <3> DEFINE closed == HeardAll.closed \/ poll.stopped
    <3>1. client' = [closed |-> closed, paused |-> PausedAfter] /\ stopAsked' = closed /\ closed \in BOOLEAN
      BY <1>3 DEF PollReturns
    <3> HIDE DEF closed
    <3>2. QED BY <3>1
  <2>3. QED BY <2>1, <2>2 DEF Flags
<1>4. CASE PollFails
  BY <1>4 DEF PollFails, Flags
<1>5. CASE ControlReturns
  BY <1>5 DEF ControlReturns, Flags
<1>6. CASE Ended
  BY <1>6 DEF Ended, Flags
<1>7. CASE ControlFails
  BY <1>1, <1>6, <1>7 DEF ControlFails
<1>8. QED
  BY <1>1, <1>2, <1>3, <1>4, <1>5, <1>6, <1>7 DEF Next, WorkerStep, Callback, ControlServed, PollServed, PollSends,
     PauseClicked, ResumeClicked, StopClicked

\* A step that leaves the pipes within their capacity and empties the ring, or leaves it.
LEMMA EmptiedBounds ==
  ASSUME Bounds, UNCHANGED pipe,
         \/ session'.ring = <<>> /\ session'.told = 0
         \/ session'.ring = session.ring /\ session'.told = session.told
  PROVE  Bounds'
<1>1. Len(<<>>) = 0 /\ 0 <= MaxEvents
  BY CaptionConstants
<1>2. QED BY <1>1 DEF Bounds

LEMMA PushBounds ==
  ASSUME Heart, Bounds, NEW event \in Of(session.worker)
  PROVE  LET next == Push(event) IN next.told <= Len(next.ring) /\ Len(next.ring) <= MaxEvents
<1> DEFINE ring == session.ring
           told == IF session.told = 0 THEN 0 ELSE session.told - 1
<1>1. session \in Session /\ ring \in Seq(Of(session.worker)) /\ session.told \in Nat /\ Len(ring) \in Nat
      /\ session.told <= Len(ring) /\ Len(ring) <= MaxEvents /\ MaxEvents \in Nat /\ MaxEvents # 0
  BY SessionTyped, CaptionConstants DEF Heart, Bounds
<1>2. CASE Len(ring) < MaxEvents
  <2>1. Push(event) = [session EXCEPT !.ring = Append(ring, event)]
    BY <1>2 DEF Push
  <2>2. Len(Append(ring, event)) = Len(ring) + 1
    BY <1>1, AppendProperties
  <2>3. Push(event).ring = Append(ring, event) /\ Push(event).told = session.told
    BY <1>1, <2>1 DEF Session
  <2> HIDE DEF ring
  <2>4. QED BY <1>1, <1>2, <2>2, <2>3
<1>3. CASE ~(Len(ring) < MaxEvents)
  <2>1. Push(event) = [session EXCEPT !.ring = Append(Tail(ring), event), !.told = told]
    BY <1>3 DEF Push
  <2>2. ring # <<>> /\ Len(ring) = MaxEvents
    BY <1>1, <1>3
  <2>3. Len(Append(Tail(ring), event)) = MaxEvents
    <3>1. Tail(ring) \in Seq(Of(session.worker)) /\ Len(Tail(ring)) = MaxEvents - 1
      BY <1>1, <2>2, HeadTailProperties
    <3>2. Len(Append(Tail(ring), event)) = Len(Tail(ring)) + 1
      BY <3>1, AppendProperties
    <3>3. QED BY <1>1, <3>1, <3>2
  <2>4. told <= MaxEvents
    BY <1>1, <2>2
  <2> HIDE DEF told, ring
  <2>5. Push(event).ring = Append(Tail(ring), event) /\ Push(event).told = told
    BY <1>1, <2>1 DEF Session
  <2>6. QED BY <1>1, <2>3, <2>4, <2>5
<1>4. QED BY <1>2, <1>3

LEMMA WriteBounds ==
  ASSUME Heart, Bounds, UNCHANGED session, NEW type, NEW row, NEW revision, NEW text,
         Write(type, row, revision, text)
  PROVE  Bounds'
<1>1. PICK event : pipe' = [pipe EXCEPT ![worker.id] = Append(pipe[worker.id], event)]
  BY DEF Write
<1>2. Len(pipe[worker.id]) < MaxPipe /\ MaxPipe \in Nat
  BY CaptionConstants DEF Write
<1>3. Pipes /\ worker.id \in Workers
  BY DEF Heart, Process
<1>4. Len(Append(pipe[worker.id], event)) = Len(pipe[worker.id]) + 1 /\ Len(pipe[worker.id]) \in Nat
  BY <1>3, LenProperties DEF Pipes
<1>5. \A w \in Workers : Len(pipe'[w]) <= MaxPipe
  BY <1>1, <1>2, <1>3, <1>4 DEF Pipes, Bounds
<1>6. QED BY <1>5 DEF Bounds

LEMMA BoundsHold == ASSUME Heart, Bounds, Next PROVE Bounds'
<1>0. session \in Session /\ Cleared.ring = <<>> /\ Cleared.told = 0 /\ Cleared \in Session
  BY ClearedTyped DEF Heart, Cleared, Session
<1>1. CASE WorkerStep
  <2>1. CASE UNCHANGED pipe
    BY <1>1, <2>1, EmptiedBounds DEF WorkerStep
  <2>2. CASE ~UNCHANGED pipe
    BY <1>1, <2>2, WriteBounds DEF WorkerStep, Selected, Crashes, Appears, FrameEnds, GivesUp, Vanishes, Rewritten
  <2>3. QED BY <2>1, <2>2
<1>2. CASE Callback
  <2>1. CASE ProofFails
    <3>1. session'.ring = <<>> /\ session'.told = 0 /\ UNCHANGED pipe
      BY <1>0, <2>1 DEF ProofFails, Session
    <3>2. QED BY <3>1, EmptiedBounds
  <2>2. ASSUME NEW w \in Workers, Data(w) PROVE Bounds'
    <3>1. /\ pipe[w] # <<>> /\ pipe' = [pipe EXCEPT ![w] = Tail(pipe[w])]
          /\ session' = IF Listens(w) THEN Push(Head(pipe[w])) ELSE session
      BY <2>2 DEF Data
    <3>2. pipe[w] \in Seq(Of(w)) /\ Pipes
      BY DEF Heart, Pipes
    <3>3. Head(pipe[w]) \in Of(w) /\ Len(Tail(pipe[w])) = Len(pipe[w]) - 1 /\ Len(pipe[w]) \in Nat
      BY <3>1, <3>2, HeadTailProperties, LenProperties
    <3>4. \A v \in Workers : Len(pipe'[v]) <= MaxPipe
      BY <3>1, <3>2, <3>3, CaptionConstants DEF Bounds, Pipes
    <3>5. session'.told <= Len(session'.ring) /\ Len(session'.ring) <= MaxEvents
      <4>1. CASE Listens(w)
        BY <3>1, <3>3, <4>1, PushBounds DEF Listens
      <4>2. CASE ~Listens(w)
        BY <3>1, <4>2 DEF Bounds
      <4>3. QED BY <4>1, <4>2
    <3>6. QED BY <3>4, <3>5 DEF Bounds
  <2>3. ASSUME NEW w \in Workers, ExitSeen(w) PROVE Bounds'
    <3>1. session'.ring = session.ring /\ session'.told = session.told /\ UNCHANGED pipe
      BY <1>0, <2>3 DEF ExitSeen, Session
    <3>2. QED BY <3>1, EmptiedBounds
  <2>4. QED BY <1>2, <2>1, <2>2, <2>3 DEF Callback
<1>3. CASE ControlServed \/ StopServed
  <2>1. UNCHANGED pipe
    BY <1>3 DEF ControlServed, StopServed
  <2>2. CASE UNCHANGED session
    BY <2>1, <2>2, EmptiedBounds
  <2>3. CASE ~UNCHANGED session
    <3>1. session'.ring = <<>> /\ session'.told = 0
      BY <1>0, <1>3, <2>3 DEF ControlServed, PauseServed, ResumeServed, StopServed, Session
    <3>2. QED BY <2>1, <3>1, EmptiedBounds
  <2>4. QED BY <2>2, <2>3
<1>4. CASE PollServed
  <2>1. session'.ring = session.ring /\ session'.told = Len(session.ring) /\ UNCHANGED pipe
    BY <1>0, <1>4 DEF PollServed, Session
  <2>2. Len(session.ring) \in Nat
    BY SessionTyped
  <2>3. QED BY <2>1, <2>2 DEF Bounds
<1>5. CASE PollReturns
  <2> DEFINE rest == SubSeq(session.ring, session.told + 1, Len(session.ring))
  <2>1. session'.ring = rest /\ session'.told = 0 /\ UNCHANGED pipe
    BY <1>0, <1>5 DEF PollReturns, Session
  <2>2. Len(rest) \in Nat /\ Len(rest) <= Len(session.ring)
    <3>1. session.ring \in Seq(Sent) /\ session.told \in Nat /\ Len(session.ring) \in Nat
      BY SessionTyped
    <3>2. QED BY <3>1, SubSeqProperties
  <2> HIDE DEF rest
  <2>3. Len(session.ring) \in Nat /\ MaxEvents \in Nat
    BY SessionTyped, CaptionConstants
  <2>4. QED BY <2>1, <2>2, <2>3 DEF Bounds
<1>6. CASE UNCHANGED <<pipe, session>>
  BY <1>6, EmptiedBounds
<1>7. QED
  BY <1>1, <1>2, <1>3, <1>4, <1>5, <1>6 DEF Next, PollSends, PollFails, PauseClicked,
     ResumeClicked, ControlReturns, ControlFails, StopClicked

\* What an answer makes of the page.
LEMMA PresentHeard ==
  ASSUME Shapes, Assembled PROVE Sound(HeardAll) /\ Still(Present, HeardAll)
<1>1. poll.events \in Seq(Sent)
  BY DEF Shapes, Poll
<1>2. HeardAll = HeardOf(Present, poll.events)
  BY DEF HeardAll, Present
<1>3. QED BY <1>1, <1>2, HeardAllSound DEF Assembled

LEMMA NoRows == <<>> \in Seq(Row) /\ Len(<<>>) = 0 /\ 0 <= MaxKept
<1>1. MaxKept \in Nat
  BY CaptionConstants
<1>2. <<>> \in Seq(Row) /\ Len(<<>>) = 0
  BY EmptySeq
<1>3. QED BY <1>1, <1>2

\* Soundness of the page does not read the mode, and holds without rows.
LEMMA PanelAssembled ==
  ASSUME Assembled, UNCHANGED <<transcript, finals>>, NEW mode \in {"listening", "paused", "ended"},
         \/ \E source \in Sources : panel' = [mode |-> mode, source |-> source, rows |-> <<>>]
         \/ \E source \in Sources : panel' = [panel EXCEPT !.mode = mode, !.source = source]
  PROVE  Assembled'
<1>1. Sound(Present) /\ panel \in [mode : {"listening", "paused", "ended"}, source : Sources, rows : Seq(Row)]
  BY DEF Assembled
<1>2. <<>> \in Seq(Row) /\ Len(<<>>) = 0 /\ 0 <= MaxKept
  BY NoRows
<1>3. /\ panel' \in [mode : {"listening", "paused", "ended"}, source : Sources, rows : Seq(Row)]
      /\ panel'.rows = <<>> \/ panel'.rows = panel.rows
  <2>1. CASE \E source \in Sources : panel' = [mode |-> mode, source |-> source, rows |-> <<>>]
    <3>1. PICK source \in Sources : panel' = [mode |-> mode, source |-> source, rows |-> <<>>]
      BY <2>1
    <3>2. <<>> \in Seq(Row)
      BY <1>2
    <3>3. QED BY <3>1, <3>2
  <2>2. CASE \E source \in Sources : panel' = [panel EXCEPT !.mode = mode, !.source = source]
    BY <1>1, <2>2
  <2>3. QED BY <2>1, <2>2
<1>4. Present' \in Batch
  BY <1>1, <1>3 DEF Sound, Present, Batch
<1>5. Len(Present'.rows) <= MaxKept
  BY <1>1, <1>2, <1>3 DEF Sound, Present
<1>6. Agreed(Present'.transcript, Present'.finals)
  BY <1>1 DEF Sound, Present
<1>7. QED BY <1>3, <1>4, <1>5, <1>6 DEF Assembled, Sound

LEMMA PollReturnsAssembled == ASSUME Shapes, Assembled, PollReturns PROVE Assembled'
<1> DEFINE s == HeardAll
<1>1. /\ transcript' = s.transcript /\ finals' = s.finals
      /\ \E mode \in {panel.mode, "ended"} :
           panel' = [[panel EXCEPT !.source = s.source, !.rows = s.rows] EXCEPT !.mode = mode]
  BY DEF PollReturns, Assembled
<1>2. Sound(s)
  BY PresentHeard
<1> HIDE DEF s
<1>3. s \in Batch
  BY <1>2 DEF Sound
<1>4. /\ panel' \in [mode : {"listening", "paused", "ended"}, source : Sources, rows : Seq(Row)]
      /\ panel'.source = s.source /\ panel'.rows = s.rows
  BY <1>1, <1>3 DEF Assembled, Batch
<1>5. Present' \in Batch /\ Present'.rows = s.rows /\ Present'.transcript = s.transcript
      /\ Present'.finals = s.finals
  <2>1. panel'.source \in Sources /\ panel'.rows \in Seq(Row)
    BY <1>4
  <2>2. transcript' \in Maps(RowIds, Spoken) /\ finals' \in Maps(RowIds, Texts)
    BY <1>1, <1>3 DEF Batch
  <2>3. QED BY <1>1, <1>4, <2>1, <2>2 DEF Present, Batch
<1>6. QED BY <1>2, <1>4, <1>5 DEF Assembled, Sound

LEMMA AssembledHolds == ASSUME Shapes, Assembled, Next PROVE Assembled'
<1>1. panel.mode \in {"listening", "paused", "ended"} /\ panel.source \in Sources
      /\ "stopped" \in Sources /\ "selecting-target" \in Sources
  BY DEF Assembled, Sources
<1>2. CASE UNCHANGED <<panel, transcript, finals>>
  BY <1>2 DEF Assembled, Present
<1>3. ASSUME UNCHANGED <<transcript, finals>>, panel' = Paused PROVE Assembled'
  BY <1>1, <1>3, PanelAssembled DEF Paused
<1>4. CASE PollFails
  <2>1. panel' = [panel EXCEPT !.mode = "ended", !.source = panel.source] /\ UNCHANGED <<transcript, finals>>
    BY <1>4 DEF PollFails, Assembled
  <2>2. QED BY <1>1, <2>1, PanelAssembled
<1>5. CASE PauseClicked
  BY <1>2, <1>3, <1>5 DEF PauseClicked
<1>6. CASE ResumeClicked
  <2>1. \E mode \in {panel.mode, "listening"} :
          panel' = [mode |-> mode, source |-> "selecting-target", rows |-> <<>>]
    BY <1>6 DEF ResumeClicked, Assembled
  <2>2. UNCHANGED <<transcript, finals>>
    BY <1>6 DEF ResumeClicked
  <2>3. QED BY <1>1, <2>1, <2>2, PanelAssembled
<1>7. CASE ControlReturns
  <2>1. UNCHANGED <<transcript, finals>>
    BY <1>7 DEF ControlReturns
  <2>2. CASE panel' = Paused
    BY <1>3, <2>1, <2>2
  <2>3. CASE panel' = Resumed
    <3>1. \E mode \in {panel.mode, "listening"} : panel' = [panel EXCEPT !.mode = mode, !.source = panel.source]
      BY <2>3 DEF Resumed, Assembled
    <3>2. QED BY <1>1, <2>1, <3>1, PanelAssembled
  <2>4. QED BY <1>7, <2>2, <2>3 DEF ControlReturns
<1>8. CASE ControlFails
  <2>1. UNCHANGED <<transcript, finals>>
    BY <1>8 DEF ControlFails
  <2>2. CASE Ended
    BY <1>1, <2>1, <2>2, PanelAssembled DEF Ended
  <2>3. QED BY <1>3, <1>8, <2>1, <2>2 DEF ControlFails
<1>9. CASE StopClicked
  BY <1>1, <1>9, PanelAssembled DEF StopClicked, Ended
<1>10. QED
  BY <1>2, <1>4, <1>5, <1>6, <1>7, <1>8, <1>9, PollReturnsAssembled DEF Next, WorkerStep, Callback, ControlServed,
     StopServed, PollServed, PollSends

LEMMA QuietHolds == ASSUME Shapes, Assembled, Quiet, Next PROVE Quiet'
<1>0. control \in Control /\ panel \in [mode : {"listening", "paused", "ended"}, source : Sources, rows : Seq(Row)]
  BY DEF Shapes, Assembled
<1>1. CASE UNCHANGED panel /\ control'.kind = control.kind
  BY <1>1 DEF Quiet
<1>2. CASE panel'.mode # "paused" \/ panel' = Paused
  BY <1>2 DEF Quiet, Paused
<1>3. CASE PollReturns
  <2>1. Still(Present, HeardAll)
    BY PresentHeard
  <2>2. CASE panel'.mode = "ended"
    BY <2>2 DEF Quiet
  <2>3. CASE panel' = [panel EXCEPT !.source = HeardAll.source, !.rows = HeardAll.rows]
    <3>1. panel'.mode = panel.mode /\ panel'.source = HeardAll.source /\ panel'.rows = HeardAll.rows
      BY <1>0, <2>3
    <3>2. control' = control
      BY <1>3 DEF PollReturns
    <3>3. QED BY <2>1, <3>1, <3>2 DEF Quiet, Still, Present
  <2>4. QED BY <1>0, <1>3, <2>2, <2>3 DEF PollReturns
<1>4. CASE ControlServed
  <2>1. UNCHANGED panel /\ control'.kind = control.kind
    BY <1>0, <1>4 DEF ControlServed, PauseServed, ResumeServed, Control
  <2>2. QED BY <1>1, <2>1
<1>5. CASE PauseClicked
  <2>1. panel' = Paused \/ (panel' = panel /\ panel.mode = "listening")
    BY <1>5 DEF PauseClicked
  <2>2. QED BY <1>2, <2>1
<1>6. CASE ResumeClicked
  <2>1. CASE Busy \/ ~client.paused
    <3>1. \E selecting : panel' = [selecting EXCEPT !.mode = "listening"] /\ "mode" \in DOMAIN selecting
      BY <1>0, <1>6, <2>1 DEF ResumeClicked
    <3>2. QED BY <3>1 DEF Quiet
  <2>2. CASE ~(Busy \/ ~client.paused)
    <3>1. control' = [kind |-> "resume", phase |-> "sent"]
      BY <1>6, <2>2 DEF ResumeClicked
    <3>2. QED BY <3>1 DEF Quiet
  <2>3. QED BY <2>1, <2>2
<1>7. CASE ControlReturns
  <2>1. panel' = Paused \/ panel'.mode # "paused"
    BY <1>0, <1>7 DEF ControlReturns, Resumed
  <2>2. QED BY <1>2, <2>1
<1>8. CASE ControlFails
  <2>1. panel' = Paused \/ panel' = [panel EXCEPT !.mode = "ended", !.source = "stopped"]
    BY <1>8 DEF ControlFails, Ended
  <2>2. QED BY <1>0, <1>2, <2>1
<1>9. CASE PollFails \/ StopClicked
  <2>1. panel'.mode # "paused"
    BY <1>0, <1>9 DEF PollFails, StopClicked, Ended
  <2>2. QED BY <1>2, <2>1
<1>10. QED
  BY <1>1, <1>3, <1>4, <1>5, <1>6, <1>7, <1>8, <1>9 DEF Next, WorkerStep, Callback, StopServed, PollServed, PollSends

LEMMA HeartHolds == ASSUME Heart, Shows, Spare, Beliefs, Next PROVE Heart'
<1>1. CASE PollSends \/ PollFails \/ PauseClicked \/ ResumeClicked \/ ControlReturns \/ ControlFails \/ StopClicked
  BY <1>1, SameHeart DEF PollSends, PollFails, PauseClicked, ResumeClicked, ControlReturns, ControlFails, StopClicked
<1>2. QED BY <1>1, WorkerHeart, CallbackHeart, ControlHeart, StopHeart, PollServedHeart, PollReturnsHeart
      DEF Next, Beliefs

LEMMA SpareHolds == ASSUME Heart, Shows, Spare, Beliefs, Next PROVE Spare'
<1>1. CASE WorkerStep
  BY <1>1, WorkerKeepsId DEF WorkerStep, Spare, Heart
<1>2. CASE Callback
  <2>1. worker'.id = worker.id
    BY <1>2, KilledTyped DEF Callback, ProofFails, Data, ExitSeen
  <2>2. QED BY <1>2, <2>1 DEF Callback, Spare
<1>3. CASE ControlServed
  BY <1>3, ControlHeart DEF Beliefs
<1>4. CASE StopServed
  BY <1>4, KilledTyped DEF StopServed, Spare
<1>5. CASE PollServed \/ PollSends \/ PollReturns \/ PollFails \/ StopClicked
  BY <1>5 DEF PollServed, PollSends, PollReturns, PollFails, StopClicked, Spare
<1>6. CASE PauseClicked \/ ResumeClicked
  BY <1>6 DEF PauseClicked, ResumeClicked, Spare
<1>7. CASE ControlReturns \/ ControlFails
  BY <1>7, NoControlTyped DEF ControlReturns, ControlFails, Spare
<1>8. QED BY <1>1, <1>2, <1>3, <1>4, <1>5, <1>6, <1>7 DEF Next

LEMMA BeliefsHold == ASSUME Heart, Shows, Spare, Beliefs, Next PROVE Beliefs'
<1>1. CASE WorkerStep
  BY <1>1, SilentBeliefs DEF WorkerStep
<1>2. CASE ControlServed
  BY <1>2, ControlHeart, ControlBeliefs DEF Beliefs
<1>3. CASE PollFails \/ StopClicked
  <2>1. control' \in Control
    BY <1>3 DEF PollFails, StopClicked, Beliefs, Shapes
  <2>2. QED BY <1>3, <2>1, ClosedBeliefs DEF PollFails, StopClicked, Ended
<1>4. QED BY <1>1, <1>2, <1>3, CallbackBeliefs, StopBeliefs, PollServedBeliefs, PollSendsBeliefs,
             PollReturnsBeliefs, ClickedBeliefs, ControlReturnsBeliefs, ControlFailsBeliefs DEF Next

LEMMA InitHolds == Init => IInv
<1> SUFFICES ASSUME Init PROVE IInv
  OBVIOUS
<1>1. 1 \in Workers /\ <<>> \in Seq(Shown) /\ <<>> \in Seq(Sent) /\ \A w : <<>> \in Seq(Of(w))
  BY CaptionConstants, EmptySeq DEF Workers
<1>2. worker \in Process /\ worker.id = 1
  BY <1>1 DEF Init, Started, Process
<1>3. Pipes /\ Exits
  BY <1>1 DEF Init, Pipes, Exits
<1>4. session \in Session /\ session.ring = <<>> /\ session.worker = 1 /\ ~session.paused /\ ~session.stopped
  BY <1>1 DEF Init, Session
<1>5. Heart
  BY <1>1, <1>2, <1>3, <1>4 DEF Heart, NoIdleCapture
<1>6. Shapes /\ Flags /\ Closing /\ Believed /\ Spare
  BY NoPollTyped, NoControlTyped DEF Init, Shapes, Flags, Closing, Believed, Tells, Spare, NoPoll
<1>7. Shows /\ Bounds
  <2>1. Len(<<>>) = 0 /\ MaxRows[1] >= 0 /\ MaxEvents >= 0 /\ MaxPipe >= 0
    BY <1>1, CaptionConstants DEF Workers
  <2>2. worker.shown = <<>> /\ session.told = 0 /\ session.ring = <<>> /\ \A w \in Workers : pipe[w] = <<>>
    BY DEF Init, Started
  <2>3. QED BY <1>2, <2>1, <2>2 DEF Shows, Bounds
<1>8. Assembled /\ Quiet
  <2>1. Empty \in Maps(RowIds, Spoken) /\ Empty \in Maps(RowIds, Texts) /\ DOMAIN Empty = {}
    BY DEF Empty, Maps
  <2>2. <<>> \in Seq(Row) /\ Len(<<>>) = 0 /\ 0 <= MaxKept
    BY NoRows
  <2>3. Present \in Batch /\ Present.rows = <<>> /\ Present.transcript = Empty /\ Present.finals = Empty
    BY <2>1, <2>2 DEF Init, Present, Batch, Sources
  <2>4. Sound(Present)
    BY <2>1, <2>2, <2>3 DEF Sound, Agreed
  <2>5. QED BY <2>2, <2>4 DEF Init, Assembled, Quiet, Sources
<1>9. QED BY <1>5, <1>6, <1>7, <1>8 DEF IInv

LEMMA StutterHolds == ASSUME IInv, UNCHANGED vars PROVE IInv'
  BY DEF vars, IInv, Heart, Pipes, Exits, NoIdleCapture, Shows, Bounds, Spare, Shapes, Flags, Closing, Believed, Tells,
         Assembled, Present, Quiet

\* In every reachable state each pipe holds only what its worker wrote, the events kept for
\* the client are of the worker of the session, and what an open client may learn of a pause
\* is so: the callbacks compare their process with the one of the session, the routes kill
\* before they answer, and the client counts the controls that end while a poll is under way.
THEOREM Discipline == Spec => []IInv
<1>1. IInv /\ [Next]_vars => IInv'
  <2> SUFFICES ASSUME IInv, [Next]_vars PROVE IInv'
    OBVIOUS
  <2>1. CASE Next
    BY <2>1, HeartHolds, ShowsHold, BoundsHold, SpareHolds, FlagsHold, BeliefsHold, AssembledHolds, QuietHolds
       DEF IInv, Beliefs
  <2>2. QED BY <2>1, StutterHolds
<1>2. QED BY <1>1, InitHolds, PTL DEF Spec

\* pushLine and the exit of a replaced worker: of a worker that a pause killed, whose bytes
\* may still be in its pipe when the next one starts, nothing is kept for the client.
THEOREM OnlyThePresentWorker == Spec => []OnlyItsWorker
<1>1. IInv => OnlyItsWorker
  <2> SUFFICES ASSUME IInv, NEW i \in DOMAIN session.ring PROVE session.ring[i].worker = session.worker
    BY DEF OnlyItsWorker
  <2>1. session.ring \in Seq(Of(session.worker))
    BY DEF IInv, Heart
  <2>2. session.ring[i] \in Of(session.worker)
    BY <2>1, ElementOfSeq, LenProperties
  <2>3. QED BY <2>2 DEF Of
<1>2. QED BY <1>1, Discipline, PTL

\* pause, stop, a failed proof and the exit of the worker: in any order and however often, no
\* worker captures for a session that is paused or stopped, and never two.
THEOREM NothingIdle == Spec => []NoIdleCapture
<1>1. IInv => NoIdleCapture
  BY DEF IInv, Heart
<1>2. QED BY <1>1, Discipline, PTL

\* #poll and control of the client: an answer that a pause or a resume overtook is not
\* believed, so a client that stops to poll because it takes its session to be paused is right.
THEOREM PausedIsBelieved == Spec => []PausedIsTrue
<1>1. IInv => PausedIsTrue
  BY DEF IInv, Believed, Tells, PausedIsTrue
<1>2. QED BY <1>1, Discipline, PTL

\* applyCaptionSourceEvent, pruneRows and applyTranscriptEvent: whatever rows, revisions and
\* events are lost, late, repeated or forgotten, what the filters of the analyzers take from
\* the transcript (redaction.ts:64, mock-analyzer.ts:35) are the utterances of finalForAnalysis,
\* which the contract names and the code never reads, each with the text entered there last.
THEOREM FinalsAlwaysAgree == Spec => []FinalsAgree
<1>1. IInv => FinalsAgree
  <2>1. IInv => Agreed(transcript, finals)
    BY DEF IInv, Assembled, Present, Sound
  <2>2. QED BY <2>1 DEF Agreed, Given, FinalsAgree
<1>2. QED BY <1>1, Discipline, PTL

\* pause() of the panel empties the assembler and stops its source, so that the events of an
\* answer that comes after it, however many, change nothing of the transcript.
THEOREM PauseIsQuiet == Spec => PausedIsQuiet
<1> DEFINE still == panel.mode = "paused" /\ control.kind # "resume" => UNCHANGED <<transcript, finals>>
<1>1. IInv /\ [Next]_vars => [still]_vars
  <2> SUFFICES ASSUME IInv, Next, panel.mode = "paused", control.kind # "resume"
               PROVE  UNCHANGED <<transcript, finals>>
    BY DEF vars
  <2>1. CASE PollReturns
    <3>1. Still(Present, HeardAll)
      BY PresentHeard DEF IInv
    <3>2. HeardAll.transcript = transcript /\ HeardAll.finals = finals
      BY <3>1 DEF IInv, Quiet, Still, Present
    <3>3. QED BY <2>1, <3>2 DEF PollReturns
  <2>2. QED BY <2>1 DEF Next, WorkerStep, Callback, ControlServed, StopServed, PollServed, PollSends, PollFails,
                        PauseClicked, ResumeClicked, ControlReturns, ControlFails, StopClicked
<1>2. QED BY <1>1, Discipline, PTL DEF Spec, PausedIsQuiet

\* The types of the whole system: among them that the pipe, the ring and the rows of the
\* assembler never exceed their capacity, and that every utterance is of a row of some worker.
THEOREM TypeCorrect == Spec => []TypeOK
<1>1. IInv => TypeOK
  <2> SUFFICES ASSUME IInv PROVE TypeOK
    OBVIOUS
  <2>1. Seq(Sent) \subseteq Seq(Event) /\ \A w : Seq(Of(w)) \subseteq Seq(Event)
    <3>1. Sent \subseteq Event
      BY DEF Sent
    <3>2. Seq(Sent) \subseteq Seq(Event)
      BY <3>1, SeqMonotonic
    <3>3. QED BY <3>2, Written
  <2>2. worker \in [id : Workers, phase : {"selecting", "active", "gone"}, now : Nat, shown : Seq(
                       [revision : 1..MaxRevisions, text : Texts, at : Clock, gone : BOOLEAN])]
    BY DEF IInv, Heart, Process, Shown
  <2>3. \A w \in Workers : pipe[w] \in Seq(Event) /\ Len(pipe[w]) <= MaxPipe
    BY <2>1 DEF IInv, Heart, Pipes, Bounds
  <2>4. exits \subseteq Workers /\ stopAsked \in BOOLEAN
    BY DEF IInv, Heart, Exits, Flags
  <2>5. session \in [worker : {0} \cup Workers, paused : BOOLEAN, stopped : BOOLEAN, ring : Seq(Event), told : Nat]
    BY <2>1 DEF IInv, Heart, Session
  <2>6. poll \in [phase : {"idle", "asked", "answered"}, overtaken : BOOLEAN,
                  events : Seq(Event), stopped : BOOLEAN, paused : BOOLEAN]
    BY <2>1 DEF IInv, Shapes, Poll
  <2>7. panel.mode \in {"listening", "paused", "ended"} /\ panel.source \in Sources /\ Len(panel.rows) <= MaxKept
    BY DEF IInv, Assembled, Sound, Present
  <2>8. /\ DOMAIN transcript \subseteq RowIds /\ DOMAIN finals \subseteq DOMAIN transcript
        /\ \A row \in DOMAIN transcript : transcript[row] \in Spoken
    <3>1. transcript \in Maps(RowIds, Spoken) /\ DOMAIN finals \subseteq DOMAIN transcript
      BY DEF IInv, Assembled, Sound, Present, Batch, Agreed
    <3>2. QED BY <3>1 DEF Maps
  <2>9. QED BY <2>2, <2>3, <2>4, <2>5, <2>6, <2>7, <2>8 DEF IInv, Bounds, Flags, Shapes, Control, Spoken, TypeOK
<1>2. QED BY <1>1, Discipline, PTL

=============================================================================
