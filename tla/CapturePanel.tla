---------------------------- MODULE CapturePanel ----------------------------
(***************************************************************************)
(* The life of a meeting session in the capture panel                      *)
(* (app/components/capture-panel.tsx) over its input-start gate            *)
(* (app/domain/transcription/input-start-gate.ts): the start procedure of  *)
(* an input, the stop, the immediate delete, the revocation of the consent,*)
(* the resume of captions, the chain of encrypted saves and the loading of *)
(* a stored session, all of them asynchronous.                             *)
(*                                                                         *)
(* An action is what runs between two awaits.  A continuation whose promise*)
(* is already settled is a microtask: it runs before the next click,       *)
(* device, or response (Quiet).                                            *)
(*                                                                         *)
(* An input opens its resources one after the other: the microphone a      *)
(* device and a client with a session of the companion, captions and Zoom  *)
(* a client alone.  The session made by an attempt is named by the attempt.*)
(***************************************************************************)
EXTENDS Naturals, Sequences, FiniteSets

CONSTANTS
  Microphones,   \* the attempts that start the microphone; the others start captions or Zoom
  MaxAttempts,   \* bound of the model: starts of an input
  MaxOps,        \* bound of the model: stops, deletes and revocations under way at a time
  MaxRequests,   \* bound of the model: stops, deletes, revocations and loads in a run
  MaxSaves,      \* bound of the model: saves in the chain
  MaxLost        \* bound of the model: companion sessions adrift

ASSUME PanelConstants ==
  /\ Microphones \subseteq Nat
  /\ MaxAttempts \in Nat /\ MaxOps \in Nat /\ MaxRequests \in Nat /\ MaxSaves \in Nat
  /\ MaxLost \in Nat

VARIABLES
  gate,      \* inputStartGateRef: next, pending and active attempt, 0 for null
  slots,     \* the refs of the input: the attempt whose resource each holds, 0 for null
  open,      \* the resources that run: device streams, companion sessions with an open client
  adrift,    \* companion sessions that may run on without a client: the answer to their
             \* start, or the one stop request of their client, was lost
  starts,    \* start procedures that wait for a promise
  closing,   \* attempts whose client failed and whose device is being closed
  resuming,  \* a resume of captions waits for the companion
  ops,       \* stop, deleteCurrent and revokeConsent calls that wait for a promise
  loads,     \* loadSession calls that wait for the companion
  panel,     \* the refs and the React state of the panel
  chain,     \* persistenceChain: saves that wait, the first one possibly at the helper
  store,     \* encrypted sessions on disk
  requests,  \* bound of the model
  hasty,     \* history: attempts started, or disturbed by a load, while another call waited
  deleted    \* history: sessions whose deletion was asked for and reported as done, by a
             \* call that no start and no load disturbed

inputs == <<gate, slots, open, adrift, starts, closing, resuming, hasty>>
calls == <<ops, loads, requests, deleted>>
saved == <<chain, store>>
vars == <<inputs, calls, panel, saved>>

Attempts == 1..MaxAttempts
Id == 0..MaxAttempts
Device == 1
Client == 2
SlotIds == {Device, Client}

SessionStates == {"idle", "requesting", "starting", "listening", "paused", "stopped", "failed"}

\* target: the session on the screen when the user asked; then: what follows the stop;
\* late: what it stops is closed, or being stopped; calm: a history, no start and no load
\* came in between.
Op == [at : {"slot", "drain", "settle", "erase"}, slot : {0} \cup SlotIds, input : Id, late : BOOLEAN,
       wait : Nat, then : {"end", "settle", "delete"}, target : Id, key : Nat, calm : BOOLEAN]

TypeOK ==
  /\ gate \in [next : 1..MaxAttempts + 1, pending : Id, active : Id]
  /\ slots \in [SlotIds -> Id]
  /\ open \subseteq Attempts \X SlotIds /\ adrift \subseteq Attempts \X {Client}
  /\ starts \subseteq [attempt : Attempts, at : {"checking", "opening", "cleaning"},
                       slot : SlotIds, cancelled : BOOLEAN]
  /\ closing \subseteq Attempts \cap Microphones /\ resuming \in BOOLEAN
  /\ ops \subseteq Op /\ Cardinality(ops) <= MaxOps
  /\ loads \subseteq Attempts /\ hasty \subseteq Attempts
  /\ panel \in [state : SessionStates, allowed : BOOLEAN, consent : BOOLEAN, id : Id,
                blocked : BOOLEAN, save : BOOLEAN, persisted : BOOLEAN, mayExist : BOOLEAN]
  /\ chain \in Seq([id : Attempts, saving : BOOLEAN]) /\ Len(chain) <= MaxSaves
  /\ store \subseteq Attempts /\ deleted \subseteq Attempts
  /\ requests \in 0..MaxRequests

Init ==
  /\ gate = [next |-> 1, pending |-> 0, active |-> 0]
  /\ slots = [k \in SlotIds |-> 0]
  /\ open = {} /\ adrift = {} /\ starts = {} /\ closing = {} /\ resuming = FALSE
  /\ ops = {} /\ loads = {} /\ hasty = {}
  /\ panel = [state |-> "idle", allowed |-> FALSE, consent |-> FALSE, id |-> 0,
              blocked |-> FALSE, save |-> FALSE, persisted |-> FALSE, mayExist |-> FALSE]
  /\ chain = <<>> /\ store = {} /\ deleted = {} /\ requests = 0

-----------------------------------------------------------------------------
(* The input-start gate *)

IsCurrent(attempt) == gate.pending = attempt
Owns(attempt) == gate.active = attempt
Controls(attempt) == gate.pending = attempt \/ gate.active = attempt

Cancelled == [gate EXCEPT !.pending = 0, !.active = 0]

Without(g, attempt) ==
  [g EXCEPT !.pending = IF @ = attempt THEN 0 ELSE @, !.active = IF @ = attempt THEN 0 ELSE @]

HasActiveInput == \E k \in SlotIds : slots[k] # 0

\* transitionTranscriptionSession
Dispatch(state, event) ==
  CASE event = "start-requested" /\ state \in {"idle", "stopped", "failed"} -> "requesting"
    [] event = "permission-granted" /\ state = "requesting" -> "starting"
    [] event = "started" /\ state = "starting" -> "listening"
    [] event = "pause" /\ state = "listening" -> "paused"
    [] event = "resume" /\ state = "paused" -> "listening"
    [] event = "stop" -> "stopped"
    [] event = "unavailable" /\ state \in {"requesting", "starting", "listening", "paused"} -> "failed"
    [] OTHER -> state

Dispatched(event) == panel' = [panel EXCEPT !.state = Dispatch(@, event)]

Busy == panel.state \in {"requesting", "starting", "listening", "paused"}

-----------------------------------------------------------------------------
(* Microtasks *)

Runnable(op) ==
  \/ op.at = "slot" /\ op.late
  \/ op.at \in {"drain", "settle"} /\ op.wait = 0

SaveRunnable == chain # <<>> /\ ~Head(chain).saving

Quiet == ~SaveRunnable /\ \A op \in ops : ~Runnable(op)

-----------------------------------------------------------------------------
(* Closing a resource *)

\* A stop is at the resource: its client has closed itself.
AtIt(others, attempt, k) == \E op \in others : op.at = "slot" /\ op.input = attempt /\ op.slot = k

\* Of these companion sessions a request was lost, or not.
Loses(sessions) ==
  adrift' \in {adrift} \cup {a \in {adrift \cup sessions} : Cardinality(a) <= MaxLost}

\* Whoever closes a client lets go of it whether its stop request succeeds or not.
Closes(attempt, k) ==
  /\ open' = open \ {<<attempt, k>>}
  /\ Loses({<<attempt, k>>} \cap open \cap {<<attempt, Client>>})

\* A start or a load does not wait for the calls that are under way.
Disturbed == {[op EXCEPT !.calm = FALSE] : op \in ops}

-----------------------------------------------------------------------------
(* Starting an input *)

Fresh(p, attempt) ==
  [p EXCEPT !.consent = TRUE, !.blocked = FALSE, !.persisted = FALSE, !.mayExist = FALSE,
            !.id = attempt, !.state = Dispatch(@, "start-requested")]

First(attempt) == IF attempt \in Microphones THEN Device ELSE Client

\* Captions and Zoom ask nobody for permission.
Proceed(attempt, first) ==
  /\ panel' = [Fresh(panel, attempt) EXCEPT !.state =
                 IF first = Client THEN Dispatch(@, "permission-granted") ELSE @]
  /\ starts' = {s \in starts : s.attempt # attempt}
       \cup {[attempt |-> attempt, at |-> "opening", slot |-> first, cancelled |-> FALSE]}

\* runInputStart and the start procedure up to its first await.
StartInput ==
  /\ Quiet /\ ~Busy /\ panel.allowed /\ gate.next <= MaxAttempts
  /\ ~HasActiveInput /\ gate.pending = 0 /\ gate.active = 0
  /\ gate' = [gate EXCEPT !.pending = gate.next, !.next = @ + 1]
  /\ hasty' = IF ops = {} /\ loads = {} /\ ~resuming THEN hasty ELSE hasty \cup {gate.next}
  /\ ops' = Disturbed
  /\ IF panel.save
     THEN /\ starts' = starts \cup {[attempt |-> gate.next, at |-> "checking", slot |-> First(gate.next),
                                     cancelled |-> FALSE]}
          /\ UNCHANGED panel
     ELSE Proceed(gate.next, First(gate.next))
  /\ UNCHANGED <<slots, open, adrift, closing, resuming, loads, requests, deleted, saved>>

\* The companion answered whether the privacy store is ready.
StoreChecked(s) ==
  /\ Quiet /\ s \in starts /\ s.at = "checking"
  /\ \/ /\ IsCurrent(s.attempt) /\ panel.allowed
        /\ Proceed(s.attempt, s.slot)
        /\ UNCHANGED gate
     \/ /\ starts' = starts \ {s}
        /\ gate' = [gate EXCEPT !.pending = IF @ = s.attempt THEN 0 ELSE @]
        /\ UNCHANGED panel
  /\ UNCHANGED <<slots, open, adrift, closing, resuming, hasty, calls, saved>>

\* slotAvailable of each adoption: earlier resources are this attempt's, later ones free.
SlotAvailable(s) ==
  /\ panel.allowed
  /\ \A k \in SlotIds : slots[k] = IF First(s.attempt) <= k /\ k < s.slot THEN s.attempt ELSE 0

\* The synchronous part of the catch block: only the attempt's own refs are cleared.
Abandon(s, cancelled) ==
  /\ slots' = [k \in SlotIds |-> IF slots[k] = s.attempt THEN 0 ELSE slots[k]]
  /\ starts' = (starts \ {s}) \cup {[s EXCEPT !.at = "cleaning", !.cancelled = cancelled]}

\* Mutant of Adopt: an input that was opened is taken whatever happened meanwhile.
AdoptLate(s) ==
  /\ slots' = [slots EXCEPT ![s.slot] = s.attempt]
  /\ starts' = IF s.slot = Device THEN (starts \ {s}) \cup {[s EXCEPT !.slot = Client]} ELSE starts \ {s}
  /\ gate' = [gate EXCEPT !.active = s.attempt,
                          !.pending = IF s.slot = Client /\ @ = s.attempt THEN 0 ELSE @]
  /\ Dispatched(IF s.slot = Client THEN "started" ELSE "permission-granted")

\* A device was opened or a companion session was created: adoptStartedInput.
Adopt(s) ==
  /\ IsCurrent(s.attempt) /\ SlotAvailable(s)
  /\ slots' = [slots EXCEPT ![s.slot] = s.attempt]
  /\ IF s.slot = Device
     THEN /\ starts' = (starts \ {s}) \cup {[s EXCEPT !.slot = Client]}
          /\ gate' = [gate EXCEPT !.active = s.attempt]
          /\ Dispatched("permission-granted")
     ELSE /\ starts' = starts \ {s}
          /\ gate' = [gate EXCEPT !.active = s.attempt, !.pending = 0]
          /\ Dispatched("started")

\* A client may have failed before it is adopted.
Opened(s) ==
  /\ Quiet /\ s \in starts /\ s.at = "opening"
  /\ open' = open \cup {<<s.attempt, s.slot>>}
  /\ \/ Adopt(s)
     \/ /\ s.slot = Client \/ ~(IsCurrent(s.attempt) /\ SlotAvailable(s))
        /\ Abandon(s, TRUE) /\ UNCHANGED <<gate, panel>>
  /\ UNCHANGED <<adrift, closing, resuming, hasty, calls, saved>>

\* The companion may have made a session all the same.
OpenFails(s) ==
  /\ Quiet /\ s \in starts /\ s.at = "opening"
  /\ Abandon(s, FALSE)
  /\ Loses({<<s.attempt, s.slot>>} \cap {<<s.attempt, Client>>})
  /\ UNCHANGED <<gate, open, closing, resuming, hasty, calls, panel, saved>>

\* The catch block stops what the attempt has opened, and swallows the failure of a stop.
CleansUp(s) ==
  /\ Quiet /\ s \in starts /\ s.at = "cleaning"
  /\ open' = {r \in open : r[1] # s.attempt}
  /\ Loses(open \cap {<<s.attempt, Client>>})
  /\ starts' = starts \ {s}
  /\ gate' = Without(gate, s.attempt)
  /\ UNCHANGED <<slots, closing, resuming, hasty, calls, saved>>

\* Mutant of Cleaned: a failed attempt reports itself although another one is live.
CleanedLoudly(s) == CleansUp(s) /\ Dispatched(IF s.cancelled THEN "stop" ELSE "unavailable")

\* The rest of the catch block and the finally of runInputStart.
Cleaned(s) ==
  /\ CleansUp(s)
  /\ IF Controls(s.attempt) THEN Dispatched(IF s.cancelled THEN "stop" ELSE "unavailable") ELSE UNCHANGED panel

\* onFailure of a client: it has closed itself.  When its attempt owns the session, the
\* device of the attempt, if any, is stopped before the gate is released.
ClientFails(attempt) ==
  /\ Quiet /\ <<attempt, Client>> \in open /\ ~AtIt(ops, attempt, Client)
  /\ Closes(attempt, Client)
  /\ IF ~Owns(attempt) \/ slots[Client] # attempt THEN UNCHANGED <<gate, slots, closing, panel>>
     ELSE /\ Dispatched("unavailable")
          /\ slots' = [k \in SlotIds |-> IF k = Client \/ attempt \in Microphones THEN 0 ELSE slots[k]]
          /\ IF attempt \in Microphones /\ slots[Device] # 0
             THEN closing' = closing \cup {attempt} /\ UNCHANGED gate
             ELSE gate' = Without(gate, attempt) /\ UNCHANGED closing
  /\ UNCHANGED <<starts, resuming, hasty, calls, saved>>

ClosedAfterFailure(attempt) ==
  /\ Quiet /\ attempt \in closing
  /\ closing' = closing \ {attempt}
  /\ open' = open \ {<<attempt, Device>>}
  /\ gate' = Without(gate, attempt)
  /\ UNCHANGED <<slots, adrift, starts, resuming, hasty, calls, panel, saved>>

-----------------------------------------------------------------------------
(* Pause and resume *)

\* The awaits before the dispatch change nothing else here.
Pauses ==
  /\ Quiet /\ panel.state = "listening" /\ Dispatched("pause")
  /\ UNCHANGED <<inputs, calls, saved>>

HoldsCaptions == slots[Client] \notin Microphones \cup {0}

\* The resume of captions waits for the selection of a new rectangle.
Resumes ==
  /\ Quiet /\ panel.state = "paused"
  /\ \/ Dispatched("resume") /\ UNCHANGED resuming
     \/ HoldsCaptions /\ ~resuming /\ resuming' = TRUE /\ UNCHANGED panel
  /\ UNCHANGED <<gate, slots, open, adrift, starts, closing, hasty, calls, saved>>

Resumed ==
  /\ Quiet /\ resuming /\ resuming' = FALSE /\ Dispatched("resume")
  /\ UNCHANGED <<gate, slots, open, adrift, starts, closing, hasty, calls, saved>>

\* The catch of the resume takes whatever captions are held by then, and does not wait for
\* their stop.
ResumeFails ==
  /\ Quiet /\ resuming /\ resuming' = FALSE
  /\ gate' = Cancelled /\ Dispatched("unavailable")
  /\ IF HoldsCaptions
     THEN /\ slots' = [slots EXCEPT ![Client] = 0]
          /\ IF AtIt(ops, slots[Client], Client) THEN UNCHANGED <<open, adrift>>
             ELSE Closes(slots[Client], Client)
     ELSE UNCHANGED <<slots, open, adrift>>
  /\ UNCHANGED <<starts, closing, hasty, calls, saved>>

-----------------------------------------------------------------------------
(* Stop, delete, revoke *)

\* stop reads a ref, awaits the stop of what it held and then nulls the ref; a ref that is
\* null costs a microtask.  A client that was closed returns at once, and a microphone,
\* whose audio context cannot be closed twice, rejects.
AtSlot(op, k) ==
  [op EXCEPT !.at = "slot", !.slot = k, !.input = slots[k],
             !.late = <<slots[k], k>> \notin open \/ AtIt(ops, slots[k], k)]

Draining(op) == [op EXCEPT !.at = "drain", !.slot = 0, !.input = 0, !.late = FALSE, !.wait = Len(chain)]

Stopping(op, refs) ==
  CASE Device \in refs /\ slots[Device] # 0 -> AtSlot(op, Device)
    [] (Device \notin refs \/ slots[Device] = 0) /\ Client \in refs /\ slots[Client] # 0 -> AtSlot(op, Client)
    [] OTHER -> Draining(op)

NewOp(then) ==
  [at |-> "drain", slot |-> 0, input |-> 0, late |-> FALSE, wait |-> 0, then |-> then, target |-> panel.id,
   key |-> requests + 1, calm |-> loads = {} /\ \A op \in ops : op.calm]

Asked ==
  /\ Quiet /\ requests < MaxRequests /\ Cardinality(ops) < MaxOps
  /\ requests' = requests + 1

\* Mutant of Settling: the delete does not wait for the saves that are queued.
SettlingAtOnce(op) == [op EXCEPT !.at = "settle", !.slot = 0, !.input = 0, !.late = FALSE, !.wait = 0]

Settling(op) == [op EXCEPT !.at = "settle", !.slot = 0, !.input = 0, !.late = FALSE, !.wait = Len(chain)]

\* What the calls leave alone before their first await.
untouched == <<slots, open, adrift, starts, closing, resuming, hasty, loads, saved>>

StopClicked ==
  /\ Asked /\ Busy
  /\ gate' = Cancelled
  /\ ops' = ops \cup {Stopping(NewOp("end"), SlotIds)}
  /\ UNCHANGED <<panel, deleted, untouched>>

\* deleteCurrent up to its first await; it stops a running input first.
DeleteFrom(op, others, p) ==
  /\ panel' = [p EXCEPT !.blocked = TRUE, !.save = FALSE]
  /\ IF gate.pending # 0 \/ gate.active # 0 \/ HasActiveInput
     THEN gate' = Cancelled /\ ops' = others \cup {Stopping([op EXCEPT !.then = "settle"], SlotIds)}
     ELSE gate' = gate /\ ops' = others \cup {Settling(op)}

DeleteClicked ==
  /\ Asked
  /\ DeleteFrom(NewOp("settle"), ops, panel)
  /\ UNCHANGED <<deleted, untouched>>

\* Mutant of ConsentRevoked: only a capture that listens is stopped, not a paused one.
ConsentRevokedWhileListening ==
  /\ Asked /\ panel.allowed
  /\ gate' = Cancelled
  /\ IF panel.state \in {"requesting", "starting", "listening"}
     THEN /\ panel' = [panel EXCEPT !.allowed = FALSE, !.consent = FALSE]
          /\ ops' = ops \cup {Stopping(NewOp("delete"), SlotIds)}
     ELSE panel' = [panel EXCEPT !.allowed = FALSE] /\ UNCHANGED ops
  /\ UNCHANGED <<deleted, untouched>>

ConsentRevoked ==
  /\ Asked /\ panel.allowed
  /\ gate' = Cancelled
  /\ IF panel.state \notin {"idle", "stopped"}
     THEN /\ panel' = [panel EXCEPT !.allowed = FALSE, !.consent = FALSE]
          /\ ops' = ops \cup {Stopping(NewOp("delete"), SlotIds)}
     ELSE panel' = [panel EXCEPT !.allowed = FALSE] /\ UNCHANGED ops
  /\ UNCHANGED <<deleted, untouched>>

ConsentGiven ==
  /\ Quiet /\ ~panel.allowed
  /\ panel' = [panel EXCEPT !.allowed = TRUE]
  /\ UNCHANGED <<inputs, calls, saved>>

\* The stop of one resource ends: the failure of a client's is swallowed.
SlotStopped(op) ==
  /\ op \in ops /\ op.at = "slot" /\ (Runnable(op) \/ Quiet)
  /\ ~(op.late /\ op.slot = Device)
  /\ IF op.late THEN UNCHANGED <<open, adrift>> ELSE Closes(op.input, op.slot)
  /\ slots' = [slots EXCEPT ![op.slot] = 0]
  /\ ops' = (ops \ {op}) \cup {Stopping(op, {Client} \ {op.slot})}
  /\ UNCHANGED <<gate, starts, closing, resuming, hasty, loads, requests, deleted, panel, saved>>

\* The one stop that stop() does not guard: its rejection ends the whole call.
StopRejected(op) ==
  /\ op \in ops /\ op.at = "slot" /\ op.late /\ op.slot = Device
  /\ ops' = ops \ {op}
  /\ UNCHANGED <<inputs, loads, requests, deleted, panel, saved>>

\* The saves queued before are done: the session is over for the panel.
Drained(op) ==
  /\ op \in ops /\ op.at = "drain" /\ op.wait = 0
  /\ LET over == [panel EXCEPT !.state = Dispatch(@, "stop")]
     IN CASE op.then = "end" -> ops' = ops \ {op} /\ panel' = over /\ UNCHANGED gate
          [] op.then = "settle" -> /\ ops' = (ops \ {op}) \cup {Settling(op)}
                                   /\ panel' = over /\ UNCHANGED gate
          [] op.then = "delete" -> DeleteFrom(op, ops \ {op}, over)
  /\ UNCHANGED <<requests, deleted, untouched>>

\* The end of deleteCurrent: a verified deletion forgets the session on the screen.
Finish(op, verified) ==
  /\ ops' = ops \ {op}
  /\ panel' = IF verified THEN [panel EXCEPT !.persisted = FALSE, !.mayExist = FALSE, !.id = 0,
                                             !.consent = FALSE, !.save = FALSE]
                          ELSE panel
  /\ deleted' = IF verified /\ op.calm THEN deleted \cup ({op.target} \ {0}) ELSE deleted

Settled(op) ==
  /\ op \in ops /\ op.at = "settle" /\ op.wait = 0
  /\ LET required == panel.persisted \/ panel.mayExist
     IN IF required /\ panel.id # 0
        THEN /\ ops' = (ops \ {op}) \cup {[op EXCEPT !.at = "erase", !.input = panel.id]}
             /\ UNCHANGED <<panel, deleted>>
        ELSE Finish(op, ~required)
  /\ UNCHANGED <<inputs, loads, requests, saved>>

\* op.input is the id the delete request names.
Erased(op) ==
  /\ Quiet /\ op \in ops /\ op.at = "erase"
  /\ store' = store \ {op.input}
  /\ Finish(op, TRUE)
  /\ UNCHANGED <<inputs, loads, requests, chain>>

EraseFails(op) ==
  /\ Quiet /\ op \in ops /\ op.at = "erase"
  /\ Finish(op, FALSE)
  /\ UNCHANGED <<inputs, loads, requests, saved>>

-----------------------------------------------------------------------------
(* Encrypted saves *)

SaveToggled ==
  /\ Quiet /\ panel.allowed /\ panel.state \notin {"listening", "paused"}
  /\ panel' = [panel EXCEPT !.save = ~@]
  /\ UNCHANGED <<inputs, calls, saved>>

\* persistSnapshot, on a final utterance of the running input, on an applied analysis
\* or on an edit of the map.
SaveQueued ==
  /\ Quiet /\ Len(chain) < MaxSaves
  /\ panel.save /\ ~panel.blocked /\ panel.consent /\ panel.id # 0
  /\ panel' = [panel EXCEPT !.mayExist = TRUE]
  /\ chain' = Append(chain, [id |-> panel.id, saving |-> FALSE])
  /\ UNCHANGED <<inputs, calls, store>>

\* Everyone who awaits the chain counts down when its head is done.
Popped ==
  /\ chain' = Tail(chain)
  /\ ops' = {IF op.at \in {"drain", "settle"} /\ op.wait > 0 THEN [op EXCEPT !.wait = @ - 1]
             ELSE op : op \in ops}

SaveStarts ==
  /\ SaveRunnable
  /\ IF panel.blocked \/ Head(chain).id # panel.id THEN Popped
     ELSE chain' = <<[Head(chain) EXCEPT !.saving = TRUE]>> \o Tail(chain) /\ UNCHANGED ops
  /\ UNCHANGED <<inputs, loads, requests, deleted, panel, store>>

\* The helper wrote the file, though its answer may be lost.
SaveEnds(written, answered) ==
  /\ Quiet /\ chain # <<>> /\ Head(chain).saving
  /\ store' = IF written THEN store \cup {Head(chain).id} ELSE store
  /\ panel' = IF written /\ answered THEN [panel EXCEPT !.persisted = TRUE]
              ELSE [panel EXCEPT !.save = FALSE]
  /\ Popped
  /\ UNCHANGED <<inputs, loads, requests, deleted>>

-----------------------------------------------------------------------------
(* Loading a stored session *)

LoadClicked(id) ==
  /\ Quiet /\ requests < MaxRequests /\ requests' = requests + 1
  /\ id \in store /\ panel.state \notin {"listening", "paused"}
  /\ loads' = loads \cup {id}
  /\ hasty' = hasty \cup ({gate.pending} \ {0}) /\ ops' = Disturbed
  /\ UNCHANGED <<gate, slots, open, adrift, starts, closing, resuming, deleted, panel, saved>>

Loaded(id) ==
  /\ Quiet /\ id \in loads
  /\ loads' = loads \ {id}
  /\ panel' = IF id \in store
              THEN [panel EXCEPT !.id = id, !.consent = TRUE, !.persisted = TRUE,
                                 !.mayExist = TRUE, !.blocked = FALSE]
              ELSE panel
  /\ UNCHANGED <<inputs, ops, requests, deleted, saved>>

-----------------------------------------------------------------------------

User ==
  \/ StartInput \/ StopClicked \/ DeleteClicked \/ ConsentRevoked \/ ConsentGiven
  \/ SaveToggled \/ Pauses \/ Resumes
  \/ \E id \in store : LoadClicked(id)

StartStep(s) == StoreChecked(s) \/ Opened(s) \/ OpenFails(s) \/ Cleaned(s)

EndingStep(op) ==
  SlotStopped(op) \/ StopRejected(op) \/ Drained(op) \/ Settled(op) \/ Erased(op) \/ EraseFails(op)

SaveStep == SaveStarts \/ \E written, answered \in BOOLEAN : SaveEnds(written, answered)

Next ==
  \/ User
  \/ \E s \in starts : StartStep(s)
  \/ \E r \in open : ClientFails(r[1])
  \/ \E attempt \in closing : ClosedAfterFailure(attempt)
  \/ Resumed \/ ResumeFails
  \/ \E op \in ops : EndingStep(op)
  \/ SaveQueued \/ SaveStep
  \/ \E id \in loads : Loaded(id)

Spec == Init /\ [][Next]_vars

-----------------------------------------------------------------------------
(* Properties *)

\* Nothing keeps recording by accident: a device or companion session that runs is held
\* by a ref of the panel, or its start procedure or failure handler is about to close it,
\* or a stop is at it.  (Attempts the user started in the midst of another call apart; the
\* sessions adrift are those whose requests were lost.)  The refs are of one attempt, and
\* what the live attempt holds runs.
NoOrphan ==
  /\ \A r \in open :
       \/ slots[r[2]] = r[1]
       \/ \E s \in starts : s.attempt = r[1] /\ s.at = "cleaning"
       \/ r[1] \in closing \cup hasty
       \/ AtIt(ops, r[1], r[2])
  /\ \A j, k \in SlotIds : slots[j] # 0 =>
       /\ slots[k] \in {0, slots[j]}
       /\ Owns(slots[j]) => <<slots[j], j>> \in open

\* Once the consent is revoked, and what was under way has ended, nothing records: every
\* device is closed, and every companion session whose stop was not lost.
RevokedStops ==
  ~panel.allowed /\ starts = {} /\ closing = {} /\ ops = {} => \A r \in open : r[1] \in hasty

\* privacy-boundary.md: immediate delete drains the pending writes, removes the
\* session and prevents it from being persisted again.
DeleteIsHonest == deleted \cap store = {}

\* What is captured belongs to the session on the screen and to its consent, and keeps
\* its stop control, which the panel shows while its state is busy.
CaptureIsShown ==
  \A a \in Attempts \ hasty :
    gate.active = a /\ slots[Client] = a => panel.id = a /\ panel.consent /\ Busy

=============================================================================
