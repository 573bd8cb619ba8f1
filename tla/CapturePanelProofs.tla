------------------------- MODULE CapturePanelProofs -------------------------
(***************************************************************************)
(* Theorems about CapturePanel, for any number of starts, calls and saves, *)
(* and whichever attempts start the microphone: nothing that records is    *)
(* left behind, also when the consent is revoked, what is captured is on   *)
(* the screen, and a session that was deleted stays so.                    *)
(***************************************************************************)
EXTENDS CapturePanel, SequenceTheorems, TLAPS

Start == [attempt : Nat \ {0}, at : {"checking", "opening", "cleaning"}, slot : SlotIds, cancelled : BOOLEAN]

Call == [at : {"slot", "drain", "settle", "erase"}, slot : {0} \cup SlotIds, input : Nat, late : BOOLEAN,
         wait : Nat, then : {"end", "settle", "delete"}, target : Nat, key : Nat, calm : BOOLEAN]

Save == [id : Nat \ {0}, saving : BOOLEAN]

Panel == [state : SessionStates, allowed : BOOLEAN, consent : BOOLEAN, id : Nat,
          blocked : BOOLEAN, save : BOOLEAN, persisted : BOOLEAN, mayExist : BOOLEAN]

Gate == [next : Nat \ {0}, pending : Nat, active : Nat]

Shapes ==
  /\ gate \in Gate /\ slots \in [SlotIds -> Nat]
  /\ open \subseteq (Nat \ {0}) \X SlotIds /\ closing \subseteq Nat \ {0}
  /\ starts \subseteq Start /\ ops \subseteq Call /\ panel \in Panel
  /\ chain \in Seq(Save) /\ store \subseteq Nat \ {0} /\ requests \in Nat

\* The attempts that are under way, hold a ref, are cleaned up or are stopped were started.
Numbered ==
  /\ \A k \in SlotIds : slots[k] < gate.next
  /\ \A s \in starts : s.attempt < gate.next
  /\ \A a \in closing : a < gate.next
  /\ \A op \in ops : op.at = "slot" => op.input < gate.next

\* One start procedure per attempt; the refs it has filled are those it has passed, and so
\* are those a stop has read.
Distinct == \A s, t \in starts : s.attempt = t.attempt => s = t

Filled == \A s \in starts, k \in SlotIds : slots[k] = s.attempt => s.at = "opening" /\ k < s.slot

Passed == \A s \in starts, op \in ops : op.at = "slot" /\ op.input = s.attempt =>
  s.at = "cleaning" \/ (s.at = "opening" /\ op.slot < s.slot)

\* Only a microphone has a device, and one that a ref holds is open.
Devices ==
  /\ \A s \in starts : s.slot = Device => s.attempt \in Microphones
  /\ slots[Device] # 0 => slots[Device] \in Microphones /\ <<slots[Device], Device>> \in open

\* What a failed client leaves behind is held by no ref, its start is over and it is closed.
Dropped == \A a \in closing :
  /\ \A k \in SlotIds : slots[k] # a
  /\ \A s \in starts : s.attempt # a
  /\ <<a, Client>> \notin open

\* At most one attempt is at the gate.  A stop, delete or revocation has emptied it, unless
\* an attempt was started in the midst of it, and nothing was loaded since either.
Gated ==
  /\ gate.pending # 0 => gate.active \in {0, gate.pending}
  /\ \A a \in {gate.pending, gate.active} : a = 0 \/ a \in hasty \/ ops = {}
  /\ \A op \in ops : op.calm => gate.pending = 0 /\ gate.active = 0 /\ loads = {}
  /\ \A op, other \in ops : op.calm = other.calm

\* A stop nulls a ref that still holds what it has read, or nothing; one that found its
\* resource closed has nothing to close, or another stop is closing it.
Halting == \A op \in ops : op.at = "slot" =>
  /\ op.slot \in SlotIds /\ op.input # 0
  /\ slots[op.slot] \in {0, op.input} \cup hasty
  /\ op.late /\ <<op.input, op.slot>> \in open =>
       \E other \in ops : other.at = "slot" /\ other.input = op.input /\ other.slot = op.slot /\ ~other.late

\* A stop that goes through the refs from the one it is at.
Reaches(op, k) == op.at = "slot" /\ op.slot <= k /\ ~(op.late /\ op.slot = Device)

\* What a ref holds is owned by the session, or a stop is going to reach it.
Carried == \A k \in SlotIds :
  slots[k] = 0 \/ slots[k] \in hasty \/ Owns(slots[k]) \/ \E op \in ops : Reaches(op, k)

Revoked == ~panel.allowed => gate.pending = 0 /\ gate.active = 0

Owned ==
  /\ Numbered /\ Distinct /\ Filled /\ Passed /\ Devices /\ Dropped /\ Gated /\ Halting /\ Carried
  /\ Revoked /\ NoOrphan

\* Where the screen is while the attempt at the gate opens its resources.
Following == \A s \in starts : gate.pending = s.attempt /\ s.attempt \notin hasty =>
  /\ loads = {} /\ ~resuming
  /\ s.at = "checking" => ~Busy
  /\ s.at # "checking" => /\ panel.id = s.attempt /\ panel.consent
                          /\ panel.state = IF s.slot = Client THEN "starting" ELSE "requesting"

\* Where it is while the session owns what a ref holds.
Showing == \A k \in SlotIds : slots[k] # 0 /\ Owns(slots[k]) /\ slots[k] \notin hasty =>
  /\ panel.id = slots[k] /\ panel.consent /\ Busy /\ loads = {}
  /\ gate.pending = 0 => panel.state \in {"listening", "paused"}
  /\ resuming => slots[k] \notin Microphones

Followed == Following /\ Showing

\* So were the sessions that are shown, queued, stored or deleted.
Known ==
  /\ \A a \in store \cup deleted : a < gate.next
  /\ \A op \in ops : op.target < gate.next
  /\ \A i \in DOMAIN chain : chain[i].id < gate.next
  /\ panel.id < gate.next

\* A start that waits for the privacy store has left no trace yet.
Unused == \A s \in starts : s.at = "checking" =>
  /\ s.attempt \notin deleted \cup store \cup {panel.id}
  /\ \A op \in ops : op.target # s.attempt
  /\ \A i \in DOMAIN chain : chain[i].id # s.attempt

\* What a delete under way relies on: saves are blocked and the chain it waited for is empty.
Faithful(op) == op.calm =>
  /\ op.then = "settle" \/ op.at \in {"settle", "erase"} => panel.blocked
  /\ op.at = "settle" => op.wait = Len(chain)
  /\ op.at = "erase" => chain = <<>> /\ op.input = op.target
  /\ panel.id \in {0, op.target}
  /\ panel.id = 0 /\ op.target # 0 => op.target \in deleted

Deleting == \A op \in ops : Faithful(op)

\* What was deleted is nowhere, and the panel knows of every file and queued save of its session.
Forgotten ==
  /\ deleted \subseteq Nat \ {0} /\ DeleteIsHonest /\ panel.id \notin deleted
  /\ \A i \in DOMAIN chain : chain[i].id \notin deleted /\ (chain[i].id = panel.id => panel.persisted \/ panel.mayExist)
  /\ panel.id \in store => panel.persisted \/ panel.mayExist

Honest == Known /\ Unused /\ Deleting /\ Forgotten

IInv == Shapes /\ Owned /\ Followed /\ Honest

-----------------------------------------------------------------------------
(* Shapes *)

LEMMA SlotNames == SlotIds = {1, 2} /\ Device = 1 /\ Client = 2
  BY DEF SlotIds, Device, Client

LEMMA DispatchTyped ==
  ASSUME NEW state \in SessionStates, NEW event PROVE Dispatch(state, event) \in SessionStates
  BY DEF Dispatch, SessionStates

\* The shapes that matter below.
LEMMA Plain ==
  ASSUME Shapes
  PROVE  /\ gate.next \in Nat \ {0} /\ gate.pending \in Nat /\ gate.active \in Nat
         /\ \A k \in SlotIds : slots[k] \in Nat
         /\ \A s \in starts : s \in Start /\ s.attempt \in Nat \ {0} /\ s.slot \in SlotIds
         /\ \A a \in closing : a \in Nat \ {0}
         /\ \A op \in ops : op \in Call /\ op.slot \in {0} \cup SlotIds /\ op.input \in Nat /\ op.target \in Nat
                            /\ op.late \in BOOLEAN /\ op.calm \in BOOLEAN
         /\ \A r \in open : r[1] \in Nat \ {0} /\ r[2] \in SlotIds /\ r = <<r[1], r[2]>>
         /\ panel.id \in Nat /\ panel.state \in SessionStates /\ chain \in Seq(Save)
<1>1. gate.next \in Nat \ {0} /\ gate.pending \in Nat /\ gate.active \in Nat
  BY DEF Shapes, Gate
<1>2. \A k \in SlotIds : slots[k] \in Nat
  BY DEF Shapes
<1>3. \A s \in starts : s \in Start /\ s.attempt \in Nat \ {0} /\ s.slot \in SlotIds
  BY DEF Shapes, Start
<1>4. \A op \in ops : op \in Call /\ op.slot \in {0} \cup SlotIds /\ op.input \in Nat /\ op.target \in Nat
                      /\ op.late \in BOOLEAN /\ op.calm \in BOOLEAN
  BY DEF Shapes, Call
<1>5. \A r \in open : r[1] \in Nat \ {0} /\ r[2] \in SlotIds /\ r = <<r[1], r[2]>>
  BY DEF Shapes
<1>6. \A a \in closing : a \in Nat \ {0}
  BY DEF Shapes
<1>7. panel.id \in Nat /\ panel.state \in SessionStates /\ chain \in Seq(Save)
  BY DEF Shapes, Panel
<1>8. QED BY <1>1, <1>2, <1>3, <1>4, <1>5, <1>6, <1>7

LEMMA ChainTyped ==
  ASSUME chain \in Seq(Save)
  PROVE  /\ Len(chain) \in Nat /\ DOMAIN chain = 1..Len(chain)
         /\ \A i \in DOMAIN chain : chain[i] \in Save
         /\ chain # <<>> => /\ Head(chain) \in Save /\ Tail(chain) \in Seq(Save)
                            /\ Len(Tail(chain)) = Len(chain) - 1 /\ 1 \in DOMAIN chain /\ Head(chain) = chain[1]
                            /\ \A i \in DOMAIN Tail(chain) : i + 1 \in DOMAIN chain /\ Tail(chain)[i] = chain[i + 1]
         /\ Len(chain) = 0 => chain = <<>>
<1>1. Len(chain) \in Nat /\ DOMAIN chain = 1..Len(chain) /\ (Len(chain) = 0 => chain = <<>>)
  BY LenProperties, EmptySeq
<1>2. \A i \in DOMAIN chain : chain[i] \in Save
  BY <1>1, ElementOfSeq
<1>3. ASSUME chain # <<>>
      PROVE  /\ Head(chain) \in Save /\ Tail(chain) \in Seq(Save)
             /\ Len(Tail(chain)) = Len(chain) - 1 /\ 1 \in DOMAIN chain /\ Head(chain) = chain[1]
             /\ \A i \in DOMAIN Tail(chain) : i + 1 \in DOMAIN chain /\ Tail(chain)[i] = chain[i + 1]
  <2>1. /\ Head(chain) \in Save /\ Tail(chain) \in Seq(Save) /\ Len(Tail(chain)) = Len(chain) - 1
        /\ \A i \in 1..Len(Tail(chain)) : Tail(chain)[i] = chain[i + 1]
    BY <1>3, HeadTailProperties
  <2>2. DOMAIN Tail(chain) = 1..Len(Tail(chain))
    BY <2>1, LenProperties
  <2>3. Len(chain) # 0 /\ Head(chain) = chain[1]
    BY <1>1, <1>3
  <2>4. QED BY <1>1, <2>1, <2>2, <2>3
<1>4. QED BY <1>1, <1>2, <1>3

\* A call that goes on to the first of the refs that holds something, or past them.
Proper(new, refs) ==
  /\ new \in Call /\ new.at # "erase"
  /\ new.at = "slot" => /\ new.slot \in refs /\ slots[new.slot] # 0 /\ new.input = slots[new.slot]
                        /\ \A k \in refs : slots[k] # 0 => new.slot <= k
                        /\ new.late => <<new.input, new.slot>> \notin open \/ AtIt(ops, new.input, new.slot)
  /\ new.at # "slot" => new.input = 0 /\ \A k \in refs : slots[k] = 0
  /\ new.at = "settle" => new.wait = Len(chain)

\* It is the same call.
Of(new, op) == new.target = op.target /\ new.then = op.then /\ new.calm = op.calm

LEMMA AtSlotTyped ==
  ASSUME Shapes, NEW op \in Call, NEW k \in SlotIds, slots[k] # 0, NEW refs, k \in refs,
         \A j \in refs : slots[j] # 0 => k <= j
  PROVE  Proper(AtSlot(op, k), refs) /\ Of(AtSlot(op, k), op) /\ AtSlot(op, k).at = "slot"
<1> DEFINE late == <<slots[k], k>> \notin open \/ AtIt(ops, slots[k], k)
           new == [op EXCEPT !.at = "slot", !.slot = k, !.input = slots[k], !.late = late]
<1>1. AtSlot(op, k) = new
  BY DEF AtSlot
<1>2. late \in BOOLEAN /\ slots[k] \in Nat
  BY Plain
<1>3. late => <<slots[k], k>> \notin open \/ AtIt(ops, slots[k], k)
  OBVIOUS
<1> HIDE DEF late
<1>4. /\ new \in Call /\ new.at = "slot" /\ new.slot = k /\ new.input = slots[k] /\ new.late = late
      /\ new.target = op.target /\ new.then = op.then /\ new.calm = op.calm
  BY <1>2 DEF Call
<1> HIDE DEF new
<1>5. QED BY <1>1, <1>3, <1>4 DEF Proper, Of

LEMMA PastSlots ==
  ASSUME Shapes, NEW op \in Call, NEW refs, \A k \in refs : slots[k] = 0
  PROVE  /\ Proper(Draining(op), refs) /\ Of(Draining(op), op) /\ Draining(op).at = "drain"
         /\ Proper(Settling(op), refs) /\ Of(Settling(op), op) /\ Settling(op).at = "settle"
<1> DEFINE n == Len(chain)
           d == [op EXCEPT !.at = "drain", !.slot = 0, !.input = 0, !.late = FALSE, !.wait = n]
           s == [op EXCEPT !.at = "settle", !.slot = 0, !.input = 0, !.late = FALSE, !.wait = n]
<1>1. n \in Nat
  BY ChainTyped DEF Shapes
<1>2. Draining(op) = d /\ Settling(op) = s
  BY DEF Draining, Settling
<1> HIDE DEF n
<1>3. /\ d \in Call /\ d.at = "drain" /\ d.input = 0 /\ d.target = op.target /\ d.then = op.then /\ d.calm = op.calm
  BY <1>1 DEF Call
<1>4. /\ s \in Call /\ s.at = "settle" /\ s.input = 0 /\ s.target = op.target /\ s.then = op.then /\ s.calm = op.calm
      /\ s.wait = n
  BY <1>1 DEF Call
<1> HIDE DEF d, s
<1>5. QED BY <1>2, <1>3, <1>4 DEF Proper, Of, n

LEMMA StoppingTyped ==
  ASSUME Shapes, NEW op \in Call, NEW refs \in SUBSET SlotIds
  PROVE  /\ Proper(Stopping(op, refs), refs) /\ Of(Stopping(op, refs), op)
         /\ Stopping(op, refs).at \in {"slot", "drain"}
<1>1. CASE Device \in refs /\ slots[Device] # 0
  <2>1. Stopping(op, refs) = AtSlot(op, Device) /\ Device \in SlotIds
    BY <1>1, SlotNames DEF Stopping
  <2>2. \A j \in refs : Device <= j
    BY SlotNames
  <2>3. QED BY <1>1, <2>1, <2>2, AtSlotTyped
<1>2. CASE (Device \notin refs \/ slots[Device] = 0) /\ Client \in refs /\ slots[Client] # 0
  <2>1. Stopping(op, refs) = AtSlot(op, Client) /\ Client \in SlotIds
    BY <1>2, SlotNames DEF Stopping
  <2>2. \A j \in refs : slots[j] # 0 => Client <= j
    BY <1>2, SlotNames
  <2>3. QED BY <1>2, <2>1, <2>2, AtSlotTyped
<1>3. CASE ~(Device \in refs /\ slots[Device] # 0) /\ ~(Client \in refs /\ slots[Client] # 0)
  <2>1. Stopping(op, refs) = Draining(op)
    BY <1>3 DEF Stopping
  <2>2. \A k \in refs : slots[k] = 0
    BY <1>3, SlotNames
  <2>3. QED BY <2>1, <2>2, PastSlots
<1>4. QED BY <1>1, <1>2, <1>3

LEMMA NewOpTyped ==
  ASSUME Shapes, NEW then \in {"end", "settle", "delete"}
  PROVE  /\ NewOp(then) \in Call /\ NewOp(then).target = panel.id /\ NewOp(then).then = then
         /\ NewOp(then).calm = (loads = {} /\ \A op \in ops : op.calm)
<1> DEFINE calm == loads = {} /\ \A op \in ops : op.calm
           n == requests + 1
<1>1. panel.id \in Nat /\ n \in Nat /\ calm \in BOOLEAN
  BY DEF Shapes, Panel
<1> HIDE DEF calm, n
<1>2. NewOp(then) = [at |-> "drain", slot |-> 0, input |-> 0, late |-> FALSE, wait |-> 0, then |-> then,
                     target |-> panel.id, key |-> n, calm |-> calm]
  BY DEF NewOp, calm, n
<1>3. NewOp(then) \in Call /\ NewOp(then).target = panel.id /\ NewOp(then).then = then /\ NewOp(then).calm = calm
  BY <1>1, <1>2 DEF Call
<1>4. QED BY <1>3 DEF calm

\* The same call as far as the refs and the session are concerned.
Same(new, old) ==
  /\ new.at = old.at /\ new.slot = old.slot /\ new.input = old.input /\ new.late = old.late
  /\ new.then = old.then /\ new.target = old.target

\* What a step of the saves or a load does to the calls.
Counted ==
  /\ ops' \subseteq Call
  /\ \A old \in ops : \E new \in ops' : Same(new, old)
  /\ \A new \in ops' : \E old \in ops :
       /\ Same(new, old)
       /\ new.calm => old.calm
       /\ old.at = "settle" /\ old.wait = Len(chain) => new.wait = Len(chain')
  /\ \A new, other \in ops' : new.calm # other.calm => \E op, third \in ops : op.calm # third.calm

LEMMA UncountedTyped == ASSUME Shapes, UNCHANGED ops, Len(chain') = Len(chain) PROVE Counted
<1>1. ops' = ops /\ ops \subseteq Call
  BY DEF Shapes
<1>2. \A op \in ops : Same(op, op)
  BY DEF Same
<1>3. QED BY <1>1, <1>2 DEF Counted

LEMMA DisturbedTyped ==
  ASSUME Shapes, ops' = Disturbed, Len(chain') = Len(chain) PROVE Counted /\ \A new \in ops' : ~new.calm
<1> DEFINE Noisy(op) == [op EXCEPT !.calm = FALSE]
<1>1. ops' = {Noisy(op) : op \in ops}
  BY DEF Disturbed
<1>2. \A op \in ops : Noisy(op) \in Call /\ Same(Noisy(op), op) /\ Noisy(op).calm = FALSE /\ Noisy(op).wait = op.wait
  <2> SUFFICES ASSUME NEW op \in ops
               PROVE  /\ Noisy(op) \in Call /\ Same(Noisy(op), op) /\ Noisy(op).calm = FALSE
                      /\ Noisy(op).wait = op.wait
    OBVIOUS
  <2>1. op \in Call
    BY DEF Shapes
  <2>2. QED BY <2>1 DEF Call, Same
<1> HIDE DEF Noisy
<1>3. QED BY <1>1, <1>2 DEF Counted

LEMMA PoppedTyped ==
  ASSUME Shapes, chain # <<>>, Popped PROVE Counted
<1> DEFINE One(op) == IF op.at \in {"drain", "settle"} /\ op.wait > 0 THEN [op EXCEPT !.wait = @ - 1] ELSE op
<1>1. ops' = {One(op) : op \in ops} /\ chain' = Tail(chain)
  BY DEF Popped
<1>2. /\ ops \subseteq Call /\ Tail(chain) \in Seq(Save) /\ Len(Tail(chain)) = Len(chain) - 1 /\ Len(chain) \in Nat
      /\ Len(Tail(chain)) \in Nat
  BY ChainTyped, LenProperties DEF Shapes
<1>3. ASSUME NEW op \in ops
      PROVE  /\ One(op) \in Call /\ Same(One(op), op) /\ One(op).calm = op.calm
             /\ op.at = "settle" /\ op.wait = Len(chain) => One(op).wait = Len(chain')
  <2>1. op \in Call /\ op.wait \in Nat
    BY <1>2 DEF Call
  <2>2. CASE op.at \in {"drain", "settle"} /\ op.wait > 0
    <3> DEFINE w == op.wait - 1
    <3>1. One(op) = [op EXCEPT !.wait = w] /\ w \in Nat
      BY <2>1, <2>2
    <3>2. op.wait = Len(chain) => w = Len(chain')
      BY <1>1, <1>2
    <3> HIDE DEF One, w
    <3>3. [op EXCEPT !.wait = w] \in Call
      BY <2>1, <3>1 DEF Call
    <3>4. QED BY <2>1, <3>1, <3>2, <3>3 DEF Call, Same
  <2>3. CASE ~(op.at \in {"drain", "settle"} /\ op.wait > 0)
    <3>1. One(op) = op
      BY <2>3
    <3>2. op.at = "settle" => op.wait # Len(chain)
      BY <1>1, <1>2, <2>1, <2>3
    <3> HIDE DEF One
    <3>3. QED BY <2>1, <3>1, <3>2 DEF Same
  <2>4. QED BY <2>2, <2>3
<1> HIDE DEF One
<1>4. QED BY <1>1, <1>3 DEF Counted

LEMMA ProceedTyped ==
  ASSUME Shapes, NEW attempt \in Nat \ {0}, NEW first \in SlotIds, Proceed(attempt, first)
  PROVE  /\ panel' \in Panel /\ panel'.id = attempt /\ panel'.consent /\ panel'.allowed = panel.allowed
         /\ ~panel'.persisted /\ ~panel'.mayExist
         /\ ~Busy => panel'.state = IF first = Client THEN "starting" ELSE "requesting"
         /\ \E new \in Start : /\ starts' = {s \in starts : s.attempt # attempt} \cup {new}
                               /\ new.attempt = attempt /\ new.at = "opening" /\ new.slot = first
<1>1. panel \in Panel /\ starts \subseteq Start
  BY DEF Shapes
<1> DEFINE asked == Dispatch(panel.state, "start-requested")
           state == IF first = Client THEN Dispatch(asked, "permission-granted") ELSE asked
           fresh == [panel EXCEPT !.consent = TRUE, !.blocked = FALSE, !.persisted = FALSE, !.mayExist = FALSE,
                                  !.id = attempt, !.state = asked]
<1>2. asked \in SessionStates /\ state \in SessionStates
  BY <1>1, DispatchTyped DEF Panel
<1>3. ~Busy => state = IF first = Client THEN "starting" ELSE "requesting"
  <2>1. ~Busy => asked = "requesting"
    BY <1>1 DEF Busy, Dispatch, Panel, SessionStates
  <2>2. asked = "requesting" => Dispatch(asked, "permission-granted") = "starting"
    BY DEF Dispatch
  <2> HIDE DEF asked
  <2>3. QED BY <2>1, <2>2
<1>4. panel' = [fresh EXCEPT !.state = state]
  <2>1. panel' = [fresh EXCEPT !.state = IF first = Client THEN Dispatch(@, "permission-granted") ELSE @]
    BY DEF Proceed, Fresh
  <2>2. fresh.state = asked
    BY <1>1 DEF Panel
  <2> HIDE DEF fresh, asked
  <2>3. QED BY <2>1, <2>2
<1> HIDE DEF asked, state
<1>5. /\ fresh \in Panel /\ fresh.id = attempt /\ fresh.consent /\ ~fresh.persisted /\ ~fresh.mayExist
      /\ fresh.allowed = panel.allowed
  BY <1>1, <1>2 DEF Panel
<1> HIDE DEF fresh
<1> DEFINE p == [fresh EXCEPT !.state = state]
<1>6. /\ p \in Panel /\ p.id = attempt /\ p.consent /\ ~p.persisted /\ ~p.mayExist /\ p.allowed = panel.allowed
      /\ p.state = state
  BY <1>2, <1>5 DEF Panel
<1> HIDE DEF p
<1>7. panel' = p
  BY <1>4 DEF p
<1>8. \E new \in Start : /\ starts' = {s \in starts : s.attempt # attempt} \cup {new}
                         /\ new.attempt = attempt /\ new.at = "opening" /\ new.slot = first
  <2> DEFINE new == [attempt |-> attempt, at |-> "opening", slot |-> first, cancelled |-> FALSE]
  <2>1. starts' = {s \in starts : s.attempt # attempt} \cup {new}
    BY DEF Proceed
  <2>2. new \in Start /\ new.attempt = attempt /\ new.at = "opening" /\ new.slot = first
    BY DEF Start
  <2> HIDE DEF new
  <2>3. QED BY <2>1, <2>2
<1>9. QED BY <1>3, <1>6, <1>7, <1>8

\* What the panel knows of the session, apart from its state.
Knows(p) ==
  /\ panel' \in Panel /\ panel'.id = p.id /\ panel'.consent = p.consent /\ panel'.blocked = p.blocked
  /\ panel'.allowed = p.allowed
  /\ p.persisted \/ p.mayExist => panel'.persisted \/ panel'.mayExist

\* Only the state changes.
LEMMA StateTyped ==
  ASSUME panel \in Panel, NEW state \in SessionStates, panel' = [panel EXCEPT !.state = state]
  PROVE  Knows(panel) /\ panel'.state = state
<1> DEFINE p == [panel EXCEPT !.state = state]
<1>1. /\ p \in Panel /\ p.state = state /\ p.id = panel.id /\ p.consent = panel.consent /\ p.blocked = panel.blocked
      /\ p.allowed = panel.allowed /\ p.persisted = panel.persisted /\ p.mayExist = panel.mayExist
  BY DEF Panel
<1> HIDE DEF p
<1>2. panel' = p
  BY DEF p
<1>3. QED BY <1>1, <1>2 DEF Knows

LEMMA DispatchedTyped ==
  ASSUME panel \in Panel, NEW event, Dispatched(event)
  PROVE  Knows(panel) /\ panel'.state = Dispatch(panel.state, event)
<1> DEFINE state == Dispatch(panel.state, event)
<1>1. panel' = [panel EXCEPT !.state = state]
  BY DEF Dispatched
<1>2. state \in SessionStates
  BY DispatchTyped DEF Panel
<1> HIDE DEF state
<1>3. Knows(panel) /\ panel'.state = state
  BY <1>1, <1>2, StateTyped
<1>4. QED BY <1>3 DEF state

LEMMA SilentTyped == ASSUME panel \in Panel, UNCHANGED panel PROVE Knows(panel) /\ panel'.state = panel.state
  BY DEF Knows

\* Only what is asked of the saves changes.
LEMMA FlagsTyped ==
  ASSUME panel \in Panel, NEW flag \in BOOLEAN,
         \/ panel' = [panel EXCEPT !.save = flag]
         \/ panel' = [panel EXCEPT !.mayExist = TRUE] \/ panel' = [panel EXCEPT !.persisted = TRUE]
  PROVE  Knows(panel) /\ panel'.state = panel.state
<1>1. CASE panel' = [panel EXCEPT !.save = flag]
  <2>1. [panel EXCEPT !.save = flag] \in Panel
    BY DEF Panel
  <2>2. QED BY <1>1, <2>1 DEF Panel, Knows
<1>2. CASE panel' = [panel EXCEPT !.mayExist = TRUE]
  <2>1. [panel EXCEPT !.mayExist = TRUE] \in Panel
    BY DEF Panel
  <2>2. QED BY <1>2, <2>1 DEF Panel, Knows
<1>3. CASE panel' = [panel EXCEPT !.persisted = TRUE]
  <2>1. [panel EXCEPT !.persisted = TRUE] \in Panel
    BY DEF Panel
  <2>2. QED BY <1>3, <2>1 DEF Panel, Knows
<1>4. QED BY <1>1, <1>2, <1>3

LEMMA FinishTyped ==
  ASSUME Shapes, NEW op \in Call, NEW verified \in BOOLEAN, Finish(op, verified)
  PROVE  /\ ops' = ops \ {op} /\ panel' \in Panel /\ panel'.state = panel.state
         /\ panel'.blocked = panel.blocked /\ panel'.allowed = panel.allowed
         /\ verified => panel'.id = 0 /\ deleted' = IF op.calm THEN deleted \cup ({op.target} \ {0}) ELSE deleted
         /\ ~verified => panel' = panel /\ deleted' = deleted
<1>1. panel \in Panel
  BY DEF Shapes
<1> DEFINE none == [panel EXCEPT !.persisted = FALSE, !.mayExist = FALSE, !.id = 0, !.consent = FALSE,
                                 !.save = FALSE]
<1>2. /\ none \in Panel /\ none.state = panel.state /\ none.blocked = panel.blocked /\ none.id = 0
      /\ none.allowed = panel.allowed
  BY <1>1 DEF Panel
<1>3. /\ ops' = ops \ {op} /\ panel' = IF verified THEN none ELSE panel
      /\ deleted' = IF verified /\ op.calm THEN deleted \cup ({op.target} \ {0}) ELSE deleted
  BY DEF Finish
<1> HIDE DEF none
<1>4. QED BY <1>1, <1>2, <1>3

\* A delete that begins, after the call of which it is the end or on a click.
LEMMA DeleteFromTyped ==
  ASSUME Shapes, NEW op \in Call, NEW others, NEW p \in Panel, DeleteFrom(op, others, p)
  PROVE  /\ panel' \in Panel /\ panel'.state = p.state /\ panel'.id = p.id /\ panel'.blocked
         /\ panel'.consent = p.consent /\ panel'.allowed = p.allowed
         /\ p.persisted \/ p.mayExist => panel'.persisted \/ panel'.mayExist
         /\ gate' = Cancelled \/ (gate' = gate /\ gate.pending = 0 /\ gate.active = 0)
         /\ \E new : /\ ops' = others \cup {new} /\ Proper(new, SlotIds)
                     /\ new.target = op.target /\ new.calm = op.calm
<1>1. /\ panel' \in Panel /\ panel'.state = p.state /\ panel'.id = p.id /\ panel'.blocked
      /\ panel'.consent = p.consent /\ panel'.allowed = p.allowed
      /\ p.persisted \/ p.mayExist => panel'.persisted \/ panel'.mayExist
  <2> DEFINE new == [p EXCEPT !.blocked = TRUE, !.save = FALSE]
  <2>1. /\ new \in Panel /\ new.state = p.state /\ new.id = p.id /\ new.blocked
        /\ new.consent = p.consent /\ new.allowed = p.allowed
        /\ new.persisted = p.persisted /\ new.mayExist = p.mayExist
    BY DEF Panel
  <2> HIDE DEF new
  <2>2. panel' = new
    BY DEF DeleteFrom, new
  <2>3. QED BY <2>1, <2>2
<1>2. CASE gate.pending # 0 \/ gate.active # 0 \/ HasActiveInput
  <2> DEFINE mid == [op EXCEPT !.then = "settle"]
  <2>1. gate' = Cancelled /\ ops' = others \cup {Stopping(mid, SlotIds)}
    BY <1>2 DEF DeleteFrom
  <2>2. mid \in Call /\ mid.target = op.target /\ mid.calm = op.calm
    BY DEF Call
  <2> HIDE DEF mid
  <2>3. Proper(Stopping(mid, SlotIds), SlotIds) /\ Of(Stopping(mid, SlotIds), mid)
    BY <2>2, StoppingTyped
  <2>4. QED BY <1>1, <2>1, <2>2, <2>3 DEF Of
<1>3. CASE ~(gate.pending # 0 \/ gate.active # 0 \/ HasActiveInput)
  <2>1. gate' = gate /\ ops' = others \cup {Settling(op)} /\ \A k \in SlotIds : slots[k] = 0
    BY <1>3 DEF DeleteFrom, HasActiveInput
  <2>2. Proper(Settling(op), SlotIds) /\ Of(Settling(op), op)
    BY <2>1, PastSlots
  <2>3. QED BY <1>1, <1>3, <2>1, <2>2 DEF Of
<1>4. QED BY <1>2, <1>3

LEMMA GateTyped ==
  ASSUME Shapes
  PROVE  /\ Cancelled \in Gate
         /\ Cancelled.next = gate.next /\ Cancelled.pending = 0 /\ Cancelled.active = 0
         /\ \A a : /\ Without(gate, a) \in Gate
                   /\ Without(gate, a).next = gate.next
                   /\ Without(gate, a).pending = IF gate.pending = a THEN 0 ELSE gate.pending
                   /\ Without(gate, a).active = IF gate.active = a THEN 0 ELSE gate.active
<1>1. gate \in [next : Nat \ {0}, pending : Nat, active : Nat]
  BY DEF Shapes, Gate
<1>2. QED BY <1>1 DEF Cancelled, Without, Gate

\* A click ends what is under way and adds a call.
Clicked ==
  /\ gate' \in Gate /\ gate'.next = gate.next /\ gate'.pending = 0 /\ gate'.active = 0
  /\ panel' \in Panel /\ panel'.id = panel.id /\ (panel.blocked => panel'.blocked)
  /\ panel.persisted \/ panel.mayExist => panel'.persisted \/ panel'.mayExist
  /\ requests' \in Nat /\ UNCHANGED <<slots, open, starts, closing, resuming, hasty, loads, chain, store, deleted>>
  /\ \/ ops' = ops /\ panel.state \in {"idle", "stopped"}
     \/ \E new : /\ ops' = ops \cup {new} /\ Proper(new, SlotIds) /\ new.target = panel.id
                 /\ new.calm = (loads = {} /\ \A op \in ops : op.calm)
                 /\ new.then = "settle" \/ new.at = "settle" => panel'.blocked

LEMMA ClickedHolds == ASSUME Shapes, StopClicked \/ DeleteClicked \/ ConsentRevoked PROVE Clicked
<1>1. /\ requests' = requests + 1
      /\ UNCHANGED <<slots, open, starts, closing, resuming, hasty, loads, chain, store, deleted>>
  BY DEF StopClicked, DeleteClicked, ConsentRevoked, Asked, untouched, saved
<1>2. requests' \in Nat /\ panel \in Panel
  BY <1>1 DEF Shapes
<1>3. /\ Cancelled \in Gate /\ Cancelled.next = gate.next /\ Cancelled.pending = 0 /\ Cancelled.active = 0
      /\ gate \in Gate
  BY GateTyped DEF Shapes
<1>4. CASE StopClicked
  <2>1. gate' = Cancelled /\ ops' = ops \cup {Stopping(NewOp("end"), SlotIds)} /\ UNCHANGED panel
    BY <1>4 DEF StopClicked
  <2> DEFINE new == Stopping(NewOp("end"), SlotIds)
  <2>2. /\ NewOp("end") \in Call /\ NewOp("end").target = panel.id /\ NewOp("end").then = "end"
        /\ NewOp("end").calm = (loads = {} /\ \A op \in ops : op.calm)
    BY NewOpTyped
  <2>3. Proper(new, SlotIds) /\ Of(new, NewOp("end")) /\ new.at \in {"slot", "drain"}
    BY <2>2, StoppingTyped
  <2>4. ops' = ops \cup {new}
    BY <2>1
  <2> HIDE DEF new
  <2>5. /\ new.target = panel.id /\ new.then = "end" /\ new.at # "settle"
        /\ new.calm = (loads = {} /\ \A op \in ops : op.calm)
    BY <2>2, <2>3 DEF Of
  <2>6. QED BY <1>1, <1>2, <1>3, <2>1, <2>3, <2>4, <2>5 DEF Clicked
<1>5. CASE DeleteClicked
  <2>1. DeleteFrom(NewOp("settle"), ops, panel)
    BY <1>5 DEF DeleteClicked
  <2>2. /\ NewOp("settle") \in Call /\ NewOp("settle").target = panel.id
        /\ NewOp("settle").calm = (loads = {} /\ \A op \in ops : op.calm)
    BY NewOpTyped
  <2>3. /\ panel' \in Panel /\ panel'.id = panel.id /\ panel'.blocked
        /\ panel.persisted \/ panel.mayExist => panel'.persisted \/ panel'.mayExist
        /\ gate' = Cancelled \/ (gate' = gate /\ gate.pending = 0 /\ gate.active = 0)
    BY <1>2, <2>1, <2>2, DeleteFromTyped
  <2>4. PICK new : /\ ops' = ops \cup {new} /\ Proper(new, SlotIds)
                   /\ new.target = NewOp("settle").target /\ new.calm = NewOp("settle").calm
    BY <1>2, <2>1, <2>2, DeleteFromTyped
  <2>5. QED BY <1>1, <1>2, <1>3, <2>2, <2>3, <2>4 DEF Clicked
<1>6. CASE ConsentRevoked
  <2>1. gate' = Cancelled
    BY <1>6 DEF ConsentRevoked
  <2>2. CASE panel.state \notin {"idle", "stopped"}
    <3> DEFINE p == [panel EXCEPT !.allowed = FALSE, !.consent = FALSE]
               new == Stopping(NewOp("delete"), SlotIds)
    <3>1. panel' = p /\ ops' = ops \cup {new}
      BY <1>6, <2>2 DEF ConsentRevoked
    <3>2. p \in Panel /\ p.id = panel.id /\ p.persisted = panel.persisted /\ p.mayExist = panel.mayExist
          /\ p.blocked = panel.blocked
      BY <1>2 DEF Panel
    <3>3. /\ NewOp("delete") \in Call /\ NewOp("delete").target = panel.id /\ NewOp("delete").then = "delete"
          /\ NewOp("delete").calm = (loads = {} /\ \A op \in ops : op.calm)
      BY NewOpTyped
    <3>4. Proper(new, SlotIds) /\ Of(new, NewOp("delete")) /\ new.at \in {"slot", "drain"}
      BY <3>3, StoppingTyped
    <3> HIDE DEF new, p
    <3>5. /\ new.target = panel.id /\ new.then = "delete" /\ new.at # "settle"
          /\ new.calm = (loads = {} /\ \A op \in ops : op.calm)
      BY <3>3, <3>4 DEF Of
    <3>6. QED BY <1>1, <1>2, <1>3, <2>1, <3>1, <3>2, <3>4, <3>5 DEF Clicked
  <2>3. CASE panel.state \in {"idle", "stopped"}
    <3> DEFINE p == [panel EXCEPT !.allowed = FALSE]
    <3>1. panel' = p /\ ops' = ops
      BY <1>6, <2>3 DEF ConsentRevoked
    <3>2. p \in Panel /\ p.id = panel.id /\ p.persisted = panel.persisted /\ p.mayExist = panel.mayExist
          /\ p.blocked = panel.blocked
      BY <1>2 DEF Panel
    <3> HIDE DEF p
    <3>3. QED BY <1>1, <1>2, <1>3, <2>1, <2>3, <3>1, <3>2 DEF Clicked
  <2>4. QED BY <2>2, <2>3
<1>7. QED BY <1>4, <1>5, <1>6

\* A call goes on without the companion: a microphone that is closed already, the end of stop.
GoesOn(op) ==
  /\ op.at = "drain" \/ (op.at = "slot" /\ op.late /\ op.slot = Device)
  /\ gate' \in Gate /\ gate'.next = gate.next
  /\ gate' = gate \/ (gate'.pending = 0 /\ gate'.active = 0)
  /\ panel' \in Panel /\ panel'.id = panel.id /\ panel'.allowed = panel.allowed
  /\ panel.blocked => panel'.blocked
  /\ panel.persisted \/ panel.mayExist => panel'.persisted \/ panel'.mayExist
  /\ UNCHANGED <<slots, open, starts, closing, resuming, hasty, loads, chain, store, requests, deleted>>
  /\ \/ ops' = ops \ {op} /\ gate' = gate
     \/ \E new, refs : /\ ops' = (ops \ {op}) \cup {new} /\ Proper(new, refs) /\ refs \subseteq SlotIds
                       /\ gate' = gate \/ refs = SlotIds
                       /\ new.target = op.target /\ new.calm = op.calm
                       /\ new.then = "settle" \/ new.at = "settle" => panel'.blocked \/ op.then = "settle"

LEMMA GoesOnHolds == ASSUME Shapes, NEW op \in ops, StopRejected(op) \/ Drained(op) PROVE GoesOn(op)
<1>1. op \in Call /\ panel \in Panel /\ gate \in Gate
  BY DEF Shapes
<1>2. CASE StopRejected(op)
  BY <1>1, <1>2 DEF StopRejected, GoesOn, inputs, saved
<1>3. CASE Drained(op)
  <2> DEFINE state == Dispatch(panel.state, "stop")
             over == [panel EXCEPT !.state = state]
  <2>1. /\ op.at = "drain"
        /\ UNCHANGED <<slots, open, starts, closing, resuming, hasty, loads, chain, store, requests, deleted>>
        /\ \/ op.then = "end" /\ ops' = ops \ {op} /\ panel' = over /\ UNCHANGED gate
           \/ op.then = "settle" /\ ops' = (ops \ {op}) \cup {Settling(op)} /\ panel' = over /\ UNCHANGED gate
           \/ op.then = "delete" /\ DeleteFrom(op, ops \ {op}, over)
    BY <1>1, <1>3 DEF Drained, Call, untouched, saved
  <2>2. state \in SessionStates
    BY <1>1, DispatchTyped DEF Panel
  <2> HIDE DEF state
  <2>3. /\ over \in Panel /\ over.id = panel.id /\ over.persisted = panel.persisted
        /\ over.mayExist = panel.mayExist /\ over.blocked = panel.blocked /\ over.allowed = panel.allowed
    BY <1>1, <2>2 DEF Panel
  <2> HIDE DEF over
  <2>4. CASE op.then = "end" /\ ops' = ops \ {op} /\ panel' = over /\ UNCHANGED gate
    BY <1>1, <2>1, <2>3, <2>4 DEF GoesOn
  <2>5. CASE op.then = "settle" /\ ops' = (ops \ {op}) \cup {Settling(op)} /\ panel' = over /\ UNCHANGED gate
    <3> DEFINE new == Settling(op)
    <3>1. Proper(new, {}) /\ Of(new, op)
      BY <1>1, PastSlots
    <3>2. ops' = (ops \ {op}) \cup {new}
      BY <2>5
    <3> HIDE DEF new
    <3>3. QED BY <1>1, <2>1, <2>3, <2>5, <3>1, <3>2 DEF GoesOn, Of
  <2>6. CASE op.then = "delete" /\ DeleteFrom(op, ops \ {op}, over)
    <3>1. /\ panel' \in Panel /\ panel'.id = over.id /\ panel'.blocked /\ panel'.allowed = over.allowed
          /\ over.persisted \/ over.mayExist => panel'.persisted \/ panel'.mayExist
          /\ gate' = Cancelled \/ (gate' = gate /\ gate.pending = 0 /\ gate.active = 0)
      BY <1>1, <2>3, <2>6, DeleteFromTyped
    <3>2. PICK new : /\ ops' = (ops \ {op}) \cup {new} /\ Proper(new, SlotIds)
                     /\ new.target = op.target /\ new.calm = op.calm
      BY <1>1, <2>3, <2>6, DeleteFromTyped
    <3>3. gate' \in Gate /\ gate'.next = gate.next /\ (gate' = gate \/ (gate'.pending = 0 /\ gate'.active = 0))
      BY <1>1, <3>1, GateTyped
    <3>4. QED BY <2>1, <2>3, <3>1, <3>2, <3>3 DEF GoesOn
  <2>7. QED BY <2>1, <2>4, <2>5, <2>6
<1>4. QED BY <1>2, <1>3

\* The saves are done: the companion is asked to remove the session, or there is nothing to ask.
Settles(op) ==
  /\ UNCHANGED <<gate, slots, open, starts, closing, resuming, hasty, loads, chain, store, requests>>
  /\ op.at = "settle" /\ op.wait = 0
  /\ \/ /\ panel.id # 0 /\ UNCHANGED <<panel, deleted>>
        /\ \E new \in Call : /\ ops' = (ops \ {op}) \cup {new} /\ new.target = op.target /\ new.calm = op.calm
                             /\ new.at = "erase" /\ new.input = panel.id
     \/ panel.id = 0 /\ Finish(op, FALSE)
     \/ ~panel.persisted /\ ~panel.mayExist /\ Finish(op, TRUE)

LEMMA SettlesHolds == ASSUME Shapes, NEW op \in ops, Settled(op) PROVE Settles(op)
<1>1. op \in Call /\ panel \in Panel /\ panel.id \in Nat
  BY DEF Shapes, Panel
<1>2. /\ op.at = "settle" /\ op.wait = 0
      /\ UNCHANGED <<gate, slots, open, starts, closing, resuming, hasty, loads, chain, store, requests>>
  BY DEF Settled, inputs, saved
<1> DEFINE required == panel.persisted \/ panel.mayExist
<1>3. CASE required /\ panel.id # 0
  <2> DEFINE new == [op EXCEPT !.at = "erase", !.input = panel.id]
  <2>1. ops' = (ops \ {op}) \cup {new} /\ UNCHANGED <<panel, deleted>>
    BY <1>3 DEF Settled
  <2>2. new \in Call /\ new.target = op.target /\ new.calm = op.calm /\ new.at = "erase" /\ new.input = panel.id
    BY <1>1 DEF Call
  <2> HIDE DEF new
  <2>3. QED BY <1>2, <1>3, <2>1, <2>2 DEF Settles
<1>4. CASE ~(required /\ panel.id # 0)
  <2>1. Finish(op, ~required)
    BY <1>4 DEF Settled
  <2>2. CASE required
    <3>1. (~required) = FALSE
      BY <2>2
    <3> HIDE DEF required
    <3>2. Finish(op, FALSE)
      BY <2>1, <3>1
    <3>3. QED BY <1>2, <1>4, <2>2, <3>2 DEF Settles
  <2>3. CASE ~required
    <3>1. (~required) = TRUE
      BY <2>3
    <3>2. ~panel.persisted /\ ~panel.mayExist
      BY <2>3
    <3> HIDE DEF required
    <3>3. Finish(op, TRUE)
      BY <2>1, <3>1
    <3>4. QED BY <1>2, <3>2, <3>3 DEF Settles
  <2>4. QED BY <2>2, <2>3
<1>5. QED BY <1>3, <1>4

Erases(op) ==
  /\ UNCHANGED <<gate, slots, open, starts, closing, resuming, hasty, loads, chain, requests>>
  /\ op.at = "erase"
  /\ \/ store' = store \ {op.input} /\ Finish(op, TRUE)
     \/ store' = store /\ Finish(op, FALSE)

LEMMA ErasesHolds == ASSUME NEW op \in ops, Erased(op) \/ EraseFails(op) PROVE Erases(op)
  BY DEF Erased, EraseFails, Erases, inputs, saved

\* The stop of one resource.
Stops(op) ==
  /\ op.at = "slot" /\ ~(op.late /\ op.slot = Device)
  /\ open' = IF op.late THEN open ELSE open \ {<<op.input, op.slot>>}
  /\ slots' = [slots EXCEPT ![op.slot] = 0]
  /\ UNCHANGED <<gate, starts, closing, resuming, hasty, loads, panel, chain, store, requests, deleted>>
  /\ \E new : /\ ops' = (ops \ {op}) \cup {new} /\ Proper(new, {Client} \ {op.slot}) /\ Of(new, op)
              /\ new.at \in {"slot", "drain"}

LEMMA StopsHolds == ASSUME Shapes, NEW op \in ops, SlotStopped(op) PROVE Stops(op)
<1>1. op \in Call /\ {Client} \ {op.slot} \in SUBSET SlotIds
  BY SlotNames DEF Shapes
<1>2. /\ op.at = "slot" /\ ~(op.late /\ op.slot = Device) /\ slots' = [slots EXCEPT ![op.slot] = 0]
      /\ open' = IF op.late THEN open ELSE open \ {<<op.input, op.slot>>}
      /\ UNCHANGED <<gate, starts, closing, resuming, hasty, loads, panel, chain, store, requests, deleted>>
  BY DEF SlotStopped, Closes, saved
<1> DEFINE new == Stopping(op, {Client} \ {op.slot})
<1>3. ops' = (ops \ {op}) \cup {new}
  BY DEF SlotStopped
<1>4. Proper(new, {Client} \ {op.slot}) /\ Of(new, op) /\ new.at \in {"slot", "drain"}
  BY <1>1, StoppingTyped
<1> HIDE DEF new
<1>5. QED BY <1>2, <1>3, <1>4 DEF Stops

\* A save that goes on: no session is added to the chain.
Thinner == chain' \in Seq(Save) /\ \A i \in DOMAIN chain' : \E j \in DOMAIN chain : chain'[i].id = chain[j].id

LEMMA MarkedTyped ==
  ASSUME Shapes, chain # <<>>, chain' = <<[Head(chain) EXCEPT !.saving = TRUE]>> \o Tail(chain)
  PROVE  Thinner /\ Len(chain') = Len(chain) /\ chain' # <<>>
<1>1. /\ Head(chain) \in Save /\ Tail(chain) \in Seq(Save) /\ Len(Tail(chain)) = Len(chain) - 1
      /\ Len(chain) \in Nat /\ DOMAIN chain = 1..Len(chain) /\ 1 \in DOMAIN chain /\ Head(chain) = chain[1]
      /\ \A i \in DOMAIN Tail(chain) : i + 1 \in DOMAIN chain /\ Tail(chain)[i] = chain[i + 1]
  BY ChainTyped DEF Shapes
<1> DEFINE head == [Head(chain) EXCEPT !.saving = TRUE]
<1>2. head \in Save /\ head.id = Head(chain).id
  BY <1>1 DEF Save
<1> HIDE DEF head
<1> DEFINE one == <<head>>
           rest == Tail(chain)
<1>3. one \in Seq(Save) /\ Len(one) = 1 /\ one[1] = head
  BY <1>2
<1>4. chain' = one \o rest
  BY DEF head
<1>5. /\ chain' \in Seq(Save) /\ Len(chain') = Len(chain)
      /\ chain'[1] = head
      /\ \A i \in 1..Len(chain') : i # 1 => chain'[i] = rest[i - 1]
  <2>1. rest \in Seq(Save) /\ Len(rest) = Len(chain) - 1 /\ Len(rest) \in Nat /\ Len(chain) \in Nat
    BY <1>1, LenProperties
  <2> HIDE DEF one, rest
  <2>2. /\ one \o rest \in Seq(Save) /\ Len(one \o rest) = Len(one) + Len(rest)
        /\ \A i \in 1..Len(one) + Len(rest) :
             (one \o rest)[i] = IF i <= Len(one) THEN one[i] ELSE rest[i - Len(one)]
    BY <1>3, <2>1, ConcatProperties
  <2>3. Len(chain') = Len(chain) /\ 1 \in 1..Len(chain')
    BY <1>3, <1>4, <2>1, <2>2
  <2>4. chain'[1] = head
    BY <1>3, <1>4, <2>2, <2>3
  <2>5. ASSUME NEW i \in 1..Len(chain'), i # 1 PROVE chain'[i] = rest[i - 1]
    <3>1. i \in 1..Len(one) + Len(rest) /\ ~(i <= Len(one))
      BY <1>3, <2>1, <2>3, <2>5
    <3>2. (one \o rest)[i] = rest[i - Len(one)]
      BY <2>2, <3>1
    <3>3. QED BY <1>3, <1>4, <3>2
  <2>6. QED BY <1>4, <2>2, <2>3, <2>4, <2>5
<1> HIDE DEF one
<1>6. DOMAIN chain' = 1..Len(chain') /\ DOMAIN Tail(chain) = 1..Len(Tail(chain))
  BY <1>1, <1>5, LenProperties
<1>7. ASSUME NEW i \in DOMAIN chain' PROVE \E j \in DOMAIN chain : chain'[i].id = chain[j].id
  <2>1. CASE i = 1
    <3>1. chain'[i].id = chain[1].id /\ 1 \in DOMAIN chain
      BY <1>1, <1>2, <1>5, <2>1
    <3>2. QED BY <3>1
  <2>2. CASE i # 1
    <3>1. i - 1 \in DOMAIN Tail(chain) /\ i - 1 + 1 = i
      BY <1>1, <1>5, <1>6, <2>2
    <3>2. chain'[i] = Tail(chain)[i - 1]
      BY <1>5, <1>6, <2>2
    <3>3. Tail(chain)[i - 1] = chain[i] /\ i \in DOMAIN chain
      BY <1>1, <3>1
    <3>4. QED BY <3>2, <3>3
  <2>3. QED BY <2>1, <2>2
<1>8. chain' # <<>>
  BY <1>1, <1>5
<1>9. QED BY <1>5, <1>7, <1>8 DEF Thinner

LEMMA PoppedThinner == ASSUME Shapes, chain # <<>>, chain' = Tail(chain) PROVE Thinner
<1>1. /\ Tail(chain) \in Seq(Save)
      /\ \A i \in DOMAIN Tail(chain) : i + 1 \in DOMAIN chain /\ Tail(chain)[i] = chain[i + 1]
  BY ChainTyped DEF Shapes
<1>2. QED BY <1>1 DEF Thinner


\* One save is dropped, sent to the companion, or done.
Saves ==
  /\ chain # <<>> /\ Thinner /\ Counted /\ Knows(panel) /\ panel'.state = panel.state
  /\ UNCHANGED <<gate, slots, open, starts, closing, resuming, hasty, loads, requests, deleted>>
  /\ store' = store \/ store' = store \cup {chain[1].id}

LEMMA SavesHolds == ASSUME Shapes, SaveStep PROVE Saves
<1>1. panel \in Panel
  BY DEF Shapes
<1>2. CASE SaveStarts
  <2>1. /\ chain # <<>> /\ UNCHANGED panel
        /\ UNCHANGED <<gate, slots, open, starts, closing, resuming, hasty, loads, requests, deleted, store>>
        /\ \/ Popped
           \/ chain' = <<[Head(chain) EXCEPT !.saving = TRUE]>> \o Tail(chain) /\ UNCHANGED ops
    BY <1>2 DEF SaveStarts, SaveRunnable, inputs
  <2>2. Thinner /\ Counted
    <3>1. CASE Popped
      <4>1. chain' = Tail(chain)
        BY <3>1 DEF Popped
      <4>2. QED BY <2>1, <3>1, <4>1, PoppedTyped, PoppedThinner
    <3>2. CASE chain' = <<[Head(chain) EXCEPT !.saving = TRUE]>> \o Tail(chain) /\ UNCHANGED ops
      <4>1. Thinner /\ Len(chain') = Len(chain)
        BY <2>1, <3>2, MarkedTyped
      <4>2. QED BY <3>2, <4>1, UncountedTyped
    <3>3. QED BY <2>1, <3>1, <3>2
  <2>3. QED BY <1>1, <2>1, <2>2, SilentTyped DEF Saves
<1>3. CASE \E written, answered \in BOOLEAN : SaveEnds(written, answered)
  <2>1. PICK written \in BOOLEAN, answered \in BOOLEAN : SaveEnds(written, answered)
    BY <1>3
  <2>2. /\ chain # <<>> /\ Popped
        /\ UNCHANGED <<gate, slots, open, starts, closing, resuming, hasty, loads, requests, deleted>>
        /\ store' = store \/ store' = store \cup {Head(chain).id}
        /\ \/ panel' = [panel EXCEPT !.persisted = TRUE]
           \/ panel' = [panel EXCEPT !.save = FALSE]
    BY <2>1 DEF SaveEnds, inputs
  <2>3. Head(chain) = chain[1]
    BY <2>2, ChainTyped DEF Shapes
  <2>4. Knows(panel) /\ panel'.state = panel.state
    BY <1>1, <2>2, FlagsTyped
  <2>5. chain' = Tail(chain)
    BY <2>2 DEF Popped
  <2>6. Thinner /\ Counted
    BY <2>2, <2>5, PoppedTyped, PoppedThinner
  <2>7. QED BY <2>2, <2>3, <2>4, <2>6 DEF Saves
<1>4. QED BY <1>2, <1>3 DEF SaveStep

\* A snapshot is queued for the session on the screen.
Queues ==
  /\ ~panel.blocked /\ panel.id # 0 /\ Knows(panel) /\ panel'.state = panel.state /\ panel'.mayExist
  /\ chain' \in Seq(Save)
  /\ \A i \in DOMAIN chain' : chain'[i].id = panel.id \/ \E j \in DOMAIN chain : chain'[i].id = chain[j].id
  /\ UNCHANGED <<gate, slots, open, starts, closing, resuming, hasty, ops, loads, requests, deleted, store>>

LEMMA QueuesHolds == ASSUME Shapes, SaveQueued PROVE Queues
<1>1. panel \in Panel /\ panel.id \in Nat \ {0} /\ chain \in Seq(Save)
  BY DEF Shapes, Panel, SaveQueued
<1> DEFINE new == [id |-> panel.id, saving |-> FALSE]
<1>2. new \in Save /\ new.id = panel.id
  BY <1>1 DEF Save
<1>3. /\ chain' = Append(chain, new) /\ panel' = [panel EXCEPT !.mayExist = TRUE] /\ ~panel.blocked
      /\ UNCHANGED <<gate, slots, open, starts, closing, resuming, hasty, ops, loads, requests, deleted, store>>
  BY DEF SaveQueued, inputs, calls
<1> HIDE DEF new
<1>4. /\ chain' \in Seq(Save) /\ Len(chain') = Len(chain) + 1
      /\ \A i \in 1..Len(chain) : chain'[i] = chain[i]
      /\ chain'[Len(chain) + 1] = new
  BY <1>1, <1>2, <1>3, AppendProperties
<1>5. Len(chain) \in Nat /\ DOMAIN chain = 1..Len(chain) /\ DOMAIN chain' = 1..Len(chain')
  BY <1>1, <1>4, LenProperties
<1>6. \A i \in DOMAIN chain' : chain'[i].id = panel.id \/ \E j \in DOMAIN chain : chain'[i].id = chain[j].id
  BY <1>2, <1>4, <1>5
<1>7. panel'.mayExist
  BY <1>1, <1>3 DEF Panel
<1>8. Knows(panel) /\ panel'.state = panel.state
  BY <1>1, <1>3, FlagsTyped
<1>9. QED BY <1>1, <1>3, <1>4, <1>6, <1>7, <1>8 DEF Queues

\* The user turns a switch, pauses or resumes.
Switches ==
  /\ UNCHANGED <<gate, slots, open, starts, closing, hasty, ops, loads, chain, store, requests, deleted>>
  /\ panel' \in Panel /\ panel'.id = panel.id /\ panel'.consent = panel.consent
  /\ panel'.blocked = panel.blocked /\ panel'.allowed \in {TRUE, panel.allowed}
  /\ panel.persisted \/ panel.mayExist => panel'.persisted \/ panel'.mayExist
  /\ \/ panel'.state = panel.state
     \/ panel.state \in {"listening", "paused"} /\ panel'.state \in {"listening", "paused"}
  /\ \/ resuming' => resuming
     \/ panel.state = "paused" /\ HoldsCaptions /\ UNCHANGED panel

LEMMA SwitchesHolds ==
  ASSUME Shapes, ConsentGiven \/ SaveToggled \/ Pauses \/ Resumes \/ Resumed PROVE Switches
<1>1. panel \in Panel /\ panel.state \in SessionStates /\ panel.save \in BOOLEAN
  BY DEF Shapes, Panel
<1>2. CASE ConsentGiven
  <2> DEFINE p == [panel EXCEPT !.allowed = TRUE]
  <2>1. /\ panel' = p
        /\ UNCHANGED <<gate, slots, open, starts, closing, resuming, hasty, ops, loads, chain, store, requests, deleted>>
    BY <1>2 DEF ConsentGiven, inputs, calls, saved
  <2>2. /\ p \in Panel /\ p.id = panel.id /\ p.consent = panel.consent /\ p.blocked = panel.blocked
        /\ p.allowed = TRUE /\ p.persisted = panel.persisted /\ p.mayExist = panel.mayExist
        /\ p.state = panel.state
    BY <1>1 DEF Panel
  <2> HIDE DEF p
  <2>3. QED BY <2>1, <2>2 DEF Switches
<1>3. CASE SaveToggled
  <2> DEFINE flag == ~panel.save
  <2>1. /\ panel' = [panel EXCEPT !.save = flag] /\ flag \in BOOLEAN
        /\ UNCHANGED <<gate, slots, open, starts, closing, resuming, hasty, ops, loads, chain, store, requests, deleted>>
    BY <1>1, <1>3 DEF SaveToggled, inputs, calls, saved
  <2> HIDE DEF flag
  <2>2. Knows(panel) /\ panel'.state = panel.state
    BY <1>1, <2>1, FlagsTyped
  <2>3. QED BY <2>1, <2>2 DEF Switches, Knows
<1>4. CASE Pauses
  <2>1. /\ panel.state = "listening" /\ Dispatched("pause")
        /\ UNCHANGED <<gate, slots, open, starts, closing, resuming, hasty, ops, loads, chain, store, requests, deleted>>
    BY <1>4 DEF Pauses, inputs, calls, saved
  <2>2. Knows(panel) /\ panel'.state = Dispatch(panel.state, "pause")
    BY <1>1, <2>1, DispatchedTyped
  <2>3. panel'.state = "paused"
    BY <2>1, <2>2 DEF Dispatch
  <2>4. QED BY <2>1, <2>2, <2>3 DEF Switches, Knows
<1>5. CASE (Resumes \/ Resumed) /\ Dispatched("resume")
  <2>1. /\ resuming' => resuming
        /\ UNCHANGED <<gate, slots, open, starts, closing, hasty, ops, loads, chain, store, requests, deleted>>
    <3>1. UNCHANGED <<gate, slots, open, starts, closing, hasty, ops, loads, chain, store, requests, deleted>>
      BY <1>5 DEF Resumes, Resumed, calls, saved
    <3>2. CASE Resumed
      BY <3>1, <3>2 DEF Resumed
    <3>3. CASE Resumes
      <4>1. panel.state = "paused" /\ (UNCHANGED resuming \/ UNCHANGED panel)
        BY <3>3 DEF Resumes
      <4>2. panel'.state = Dispatch(panel.state, "resume")
        BY <1>1, <1>5, DispatchedTyped
      <4>3. panel'.state = "listening"
        BY <4>1, <4>2 DEF Dispatch
      <4>4. UNCHANGED resuming
        BY <4>1, <4>3
      <4>5. QED BY <3>1, <4>4
    <3>4. QED BY <1>5, <3>2, <3>3
  <2>2. Knows(panel) /\ panel'.state = Dispatch(panel.state, "resume")
    BY <1>1, <1>5, DispatchedTyped
  <2>3. panel'.state = panel.state \/ (panel.state = "paused" /\ panel'.state = "listening")
    BY <2>2 DEF Dispatch
  <2>4. QED BY <2>1, <2>2, <2>3 DEF Switches, Knows
<1>6. CASE Resumes /\ ~Dispatched("resume")
  <2>1. /\ panel.state = "paused" /\ HoldsCaptions /\ UNCHANGED panel
        /\ UNCHANGED <<gate, slots, open, starts, closing, hasty, ops, loads, chain, store, requests, deleted>>
    BY <1>6 DEF Resumes, calls, saved
  <2>2. QED BY <1>1, <2>1 DEF Switches
<1>7. Resumed => Dispatched("resume")
  BY DEF Resumed
<1>8. QED BY <1>2, <1>3, <1>4, <1>5, <1>6, <1>7

\* A stored session is shown.
Shows(id) ==
  /\ UNCHANGED <<gate, slots, open, starts, closing, resuming, hasty, ops, chain, store, requests, deleted>>
  /\ id \in loads /\ loads' \subseteq loads /\ panel' \in Panel /\ panel'.allowed = panel.allowed
  /\ UNCHANGED panel \/ (id \in store /\ panel'.id = id /\ panel'.persisted)

LEMMA ShowsHolds == ASSUME Shapes, NEW id \in loads, Loaded(id) PROVE Shows(id)
<1>1. panel \in Panel /\ (id \in store => id \in Nat)
  BY DEF Shapes
<1> DEFINE p == [panel EXCEPT !.id = id, !.consent = TRUE, !.persisted = TRUE, !.mayExist = TRUE, !.blocked = FALSE]
<1>2. panel' = IF id \in store THEN p ELSE panel
  BY DEF Loaded
<1>3. id \in store => p \in Panel /\ p.id = id /\ p.persisted /\ p.allowed = panel.allowed
  BY <1>1 DEF Panel
<1> HIDE DEF p
<1>4. /\ UNCHANGED <<gate, slots, open, starts, closing, resuming, hasty, ops, chain, store, requests, deleted>>
      /\ loads' \subseteq loads
  BY DEF Loaded, inputs, saved
<1>5. QED BY <1>1, <1>2, <1>3, <1>4 DEF Shows

\* A load that is asked for disturbs what is under way.
Loading ==
  /\ UNCHANGED <<gate, slots, open, starts, closing, resuming, panel, chain, store, deleted>>
  /\ hasty' = hasty \cup ({gate.pending} \ {0}) /\ requests' \in Nat /\ panel.state \notin {"listening", "paused"}
  /\ Counted /\ \A new \in ops' : ~new.calm

LEMMA LoadingHolds == ASSUME Shapes, \E id \in store : LoadClicked(id) PROVE Loading
<1>1. /\ UNCHANGED <<gate, slots, open, starts, closing, resuming, panel, chain, store, deleted>>
      /\ hasty' = hasty \cup ({gate.pending} \ {0}) /\ requests' = requests + 1 /\ ops' = Disturbed
      /\ panel.state \notin {"listening", "paused"}
  BY DEF LoadClicked, saved
<1>2. requests' \in Nat /\ Len(chain') = Len(chain)
  BY <1>1 DEF Shapes
<1>3. QED BY <1>1, <1>2, DisturbedTyped DEF Loading

\* The panel shows the attempt.
Shown(new) ==
  /\ panel' \in Panel /\ panel'.id = new.attempt /\ panel'.consent /\ panel'.allowed = panel.allowed
  /\ ~panel'.persisted /\ ~panel'.mayExist
  /\ ~Busy => panel'.state = IF new.slot = Client THEN "starting" ELSE "requesting"

\* An input is started.
Begins ==
  /\ gate.pending = 0 /\ gate.active = 0 /\ \A k \in SlotIds : slots[k] = 0
  /\ ~Busy /\ panel.allowed
  /\ gate' \in Gate /\ gate'.next = gate.next + 1 /\ gate'.pending = gate.next /\ gate'.active = 0
  /\ hasty' \in {hasty, hasty \cup {gate.next}}
  /\ gate.next \in hasty' \/ (ops = {} /\ loads = {} /\ ~resuming)
  /\ Counted /\ \A new \in ops' : ~new.calm
  /\ UNCHANGED <<slots, open, closing, resuming, loads, requests, deleted, chain, store>>
  /\ \E new \in Start : /\ starts' = starts \cup {new} /\ new.attempt = gate.next /\ new.slot = First(gate.next)
                        /\ \/ new.at = "checking" /\ UNCHANGED panel
                           \/ new.at = "opening" /\ Shown(new)

LEMMA BeginsHolds == ASSUME Shapes, Numbered, StartInput PROVE Begins
<1>1. /\ gate' = [gate EXCEPT !.pending = gate.next, !.next = @ + 1]
      /\ gate.pending = 0 /\ gate.active = 0 /\ ~HasActiveInput /\ ~Busy /\ panel.allowed /\ ops' = Disturbed
      /\ UNCHANGED <<slots, open, closing, resuming, loads, requests, deleted, chain, store>>
      /\ hasty' = IF ops = {} /\ loads = {} /\ ~resuming THEN hasty ELSE hasty \cup {gate.next}
  BY DEF StartInput, saved
<1>2. gate' \in Gate /\ gate'.next = gate.next + 1 /\ gate'.pending = gate.next /\ gate'.active = 0
  <2> DEFINE n == gate.next
             m == n + 1
  <2>1. gate \in Gate /\ n \in Nat /\ m \in Nat \ {0} /\ gate' = [gate EXCEPT !.pending = n, !.next = m]
    BY <1>1 DEF Shapes, Gate
  <2>2. gate'.next = m /\ gate'.pending = n /\ gate'.active = 0 /\ gate' \in Gate
    <3> HIDE DEF n, m
    <3>1. QED BY <1>1, <2>1 DEF Gate
  <2>3. QED BY <2>2
<1>3. Counted /\ \A new \in ops' : ~new.calm
  BY <1>1, DisturbedTyped
<1>4. \A k \in SlotIds : slots[k] = 0
  BY <1>1 DEF HasActiveInput
<1>5. hasty' \in {hasty, hasty \cup {gate.next}} /\ (gate.next \in hasty' \/ (ops = {} /\ loads = {} /\ ~resuming))
  BY <1>1
<1>6. gate.next \in Nat \ {0} /\ First(gate.next) \in SlotIds /\ \A s \in starts : s.attempt # gate.next
  BY SlotNames, Plain DEF First, Numbered
<1>7. \E new \in Start : /\ starts' = starts \cup {new} /\ new.attempt = gate.next /\ new.slot = First(gate.next)
                         /\ \/ new.at = "checking" /\ UNCHANGED panel
                            \/ new.at = "opening" /\ Shown(new)
  <2>1. CASE panel.save
    <3> DEFINE first == First(gate.next)
    <3> DEFINE new == [attempt |-> gate.next, at |-> "checking", slot |-> first, cancelled |-> FALSE]
    <3>1. starts' = starts \cup {new} /\ UNCHANGED panel
      BY <2>1 DEF StartInput
    <3>2. first \in SlotIds
      BY <1>6
    <3> HIDE DEF first
    <3>3. new \in Start /\ new.attempt = gate.next /\ new.slot = first /\ new.at = "checking"
      BY <1>6, <3>2 DEF Start
    <3> HIDE DEF new
    <3>4. QED BY <3>1, <3>3 DEF first
  <2>2. CASE ~panel.save
    <3>1. Proceed(gate.next, First(gate.next))
      BY <2>2 DEF StartInput
    <3>2. PICK new \in Start : /\ starts' = {s \in starts : s.attempt # gate.next} \cup {new}
                               /\ new.attempt = gate.next /\ new.at = "opening" /\ new.slot = First(gate.next)
      BY <1>6, <3>1, ProceedTyped
    <3>3. Shown(new)
      BY <1>6, <3>1, <3>2, ProceedTyped DEF Shown
    <3>4. starts' = starts \cup {new}
      BY <1>6, <3>2
    <3>5. QED BY <3>2, <3>3, <3>4
  <2>3. QED BY <2>1, <2>2
<1>8. QED BY <1>1, <1>2, <1>3, <1>4, <1>5, <1>7 DEF Begins

\* The privacy store is ready and the attempt current, or not.
Checks(s) ==
  /\ s.at = "checking"
  /\ UNCHANGED <<slots, open, closing, resuming, hasty, ops, loads, requests, deleted, chain, store>>
  /\ \/ /\ gate.pending = s.attempt /\ UNCHANGED gate /\ panel.allowed
        /\ \E new \in Start : /\ starts' = (starts \ {s}) \cup {new} /\ new.attempt = s.attempt
                              /\ new.slot = s.slot /\ new.at = "opening" /\ Shown(new)
     \/ /\ starts' = starts \ {s} /\ UNCHANGED panel
        /\ gate' \in Gate /\ gate'.next = gate.next /\ gate'.active = gate.active
        /\ gate'.pending = IF gate.pending = s.attempt THEN 0 ELSE gate.pending

LEMMA ChecksHolds == ASSUME Shapes, Distinct, NEW s \in starts, StoreChecked(s) PROVE Checks(s)
<1>1. /\ s.at = "checking"
      /\ UNCHANGED <<slots, open, closing, resuming, hasty, ops, loads, requests, deleted, chain, store>>
  BY DEF StoreChecked, calls, saved
<1>2. CASE /\ gate.pending = s.attempt /\ panel.allowed
           /\ Proceed(s.attempt, s.slot) /\ UNCHANGED gate
  <2>1. s.attempt \in Nat \ {0} /\ s.slot \in SlotIds
    BY Plain
  <2>2. PICK new \in Start : /\ starts' = {t \in starts : t.attempt # s.attempt} \cup {new}
                             /\ new.attempt = s.attempt /\ new.at = "opening" /\ new.slot = s.slot
    BY <1>2, <2>1, ProceedTyped
  <2>3. Shown(new)
    BY <1>2, <2>1, <2>2, ProceedTyped DEF Shown
  <2>4. starts' = (starts \ {s}) \cup {new}
    BY <2>2 DEF Distinct
  <2>5. QED BY <1>1, <1>2, <2>2, <2>3, <2>4 DEF Checks
<1>3. CASE /\ starts' = starts \ {s} /\ UNCHANGED panel
           /\ gate' = [gate EXCEPT !.pending = IF @ = s.attempt THEN 0 ELSE @]
  <2> DEFINE n == IF gate.pending = s.attempt THEN 0 ELSE gate.pending
  <2>1. gate \in Gate /\ n \in Nat /\ gate' = [gate EXCEPT !.pending = n]
    BY <1>3 DEF Shapes, Gate
  <2>2. gate' \in Gate /\ gate'.next = gate.next /\ gate'.active = gate.active /\ gate'.pending = n
    <3> HIDE DEF n
    <3>1. QED BY <2>1 DEF Gate
  <2>3. QED BY <1>1, <1>3, <2>2 DEF Checks
<1>4. QED BY <1>2, <1>3 DEF StoreChecked, IsCurrent

\* An attempt takes what was opened.
Adopts(s) ==
  /\ s.at = "opening" /\ gate.pending = s.attempt /\ panel.allowed
  /\ \A k \in SlotIds : slots[k] = IF First(s.attempt) <= k /\ k < s.slot THEN s.attempt ELSE 0
  /\ slots' \in [SlotIds -> Nat] /\ \A k \in SlotIds : slots'[k] = IF k = s.slot THEN s.attempt ELSE slots[k]
  /\ open' = open \cup {<<s.attempt, s.slot>>}
  /\ gate' \in Gate /\ gate'.next = gate.next /\ gate'.active = s.attempt
  /\ Knows(panel)
  /\ UNCHANGED <<closing, resuming, hasty, ops, loads, requests, deleted, chain, store>>
  /\ \/ /\ s.slot = Device /\ gate'.pending = s.attempt
        /\ panel'.state = Dispatch(panel.state, "permission-granted")
        /\ \E new \in Start : /\ starts' = (starts \ {s}) \cup {new} /\ new.attempt = s.attempt
                              /\ new.slot = Client /\ new.at = "opening"
     \/ /\ s.slot = Client /\ gate'.pending = 0 /\ panel'.state = Dispatch(panel.state, "started")
        /\ starts' = starts \ {s}

LEMMA AdoptsHolds ==
  ASSUME Shapes, NEW s \in starts, s.at = "opening", Adopt(s), open' = open \cup {<<s.attempt, s.slot>>},
         UNCHANGED <<closing, resuming, hasty, ops, loads, requests, deleted, chain, store>>
  PROVE  Adopts(s)
<1>1. s \in Start /\ s.attempt \in Nat \ {0} /\ s.slot \in SlotIds /\ slots \in [SlotIds -> Nat] /\ gate \in Gate
      /\ panel \in Panel
  BY DEF Shapes, Start
<1>2. /\ gate.pending = s.attempt /\ panel.allowed
      /\ \A k \in SlotIds : slots[k] = IF First(s.attempt) <= k /\ k < s.slot THEN s.attempt ELSE 0
  BY DEF Adopt, IsCurrent, SlotAvailable
<1>3. slots' = [slots EXCEPT ![s.slot] = s.attempt]
  BY DEF Adopt
<1>4. slots' \in [SlotIds -> Nat] /\ \A k \in SlotIds : slots'[k] = IF k = s.slot THEN s.attempt ELSE slots[k]
  BY <1>1, <1>3
<1>5. CASE s.slot = Device
  <2> DEFINE new == [s EXCEPT !.slot = Client]
             a == s.attempt
  <2>1. starts' = (starts \ {s}) \cup {new} /\ gate' = [gate EXCEPT !.active = a]
        /\ Dispatched("permission-granted")
    BY <1>5 DEF Adopt
  <2>2. new \in Start /\ new.attempt = a /\ new.at = "opening" /\ new.slot = Client
    BY <1>1, SlotNames DEF Start
  <2> HIDE DEF new
  <2>3. gate' \in Gate /\ gate'.next = gate.next /\ gate'.active = a /\ gate'.pending = gate.pending
    <3>1. a \in Nat
      BY <1>1
    <3> HIDE DEF a
    <3>2. QED BY <1>1, <2>1, <3>1 DEF Gate
  <2>4. Knows(panel) /\ panel'.state = Dispatch(panel.state, "permission-granted")
    BY <1>1, <2>1, DispatchedTyped
  <2>5. QED BY <1>2, <1>4, <1>5, <2>1, <2>2, <2>3, <2>4 DEF Adopts
<1>6. CASE s.slot # Device
  <2> DEFINE a == s.attempt
  <2>1. s.slot = Client
    BY <1>1, <1>6, SlotNames
  <2>2. starts' = starts \ {s} /\ gate' = [gate EXCEPT !.active = a, !.pending = 0] /\ Dispatched("started")
    BY <1>6 DEF Adopt
  <2>3. gate' \in Gate /\ gate'.next = gate.next /\ gate'.active = a /\ gate'.pending = 0
    <3>1. a \in Nat
      BY <1>1
    <3> HIDE DEF a
    <3>2. QED BY <1>1, <2>2, <3>1 DEF Gate
  <2>4. Knows(panel) /\ panel'.state = Dispatch(panel.state, "started")
    BY <1>1, <2>2, DispatchedTyped
  <2>5. QED BY <1>2, <1>4, <2>1, <2>2, <2>3, <2>4 DEF Adopts
<1>7. QED BY <1>5, <1>6

\* An attempt lets go of its refs.
Abandons(s) ==
  /\ s.at = "opening"
  /\ slots' \in [SlotIds -> Nat] /\ \A k \in SlotIds : slots'[k] = IF slots[k] = s.attempt THEN 0 ELSE slots[k]
  /\ open' \in {open, open \cup {<<s.attempt, s.slot>>}}
  /\ UNCHANGED <<gate, closing, resuming, hasty, ops, loads, panel, requests, deleted, chain, store>>
  /\ \E new \in Start : /\ starts' = (starts \ {s}) \cup {new} /\ new.attempt = s.attempt
                        /\ new.slot = s.slot /\ new.at = "cleaning"

LEMMA AbandonsHolds ==
  ASSUME Shapes, NEW s \in starts, s.at = "opening", NEW cancelled \in BOOLEAN, Abandon(s, cancelled),
         open' \in {open, open \cup {<<s.attempt, s.slot>>}},
         UNCHANGED <<gate, closing, resuming, hasty, ops, loads, panel, requests, deleted, chain, store>>
  PROVE  Abandons(s)
<1>1. s \in Start /\ slots \in [SlotIds -> Nat]
  BY DEF Shapes
<1>2. slots' = [k \in SlotIds |-> IF slots[k] = s.attempt THEN 0 ELSE slots[k]]
  BY DEF Abandon
<1>3. slots' \in [SlotIds -> Nat] /\ \A k \in SlotIds : slots'[k] = IF slots[k] = s.attempt THEN 0 ELSE slots[k]
  BY <1>1, <1>2
<1> DEFINE new == [s EXCEPT !.at = "cleaning", !.cancelled = cancelled]
<1>4. starts' = (starts \ {s}) \cup {new}
  BY DEF Abandon
<1>5. new \in Start /\ new.attempt = s.attempt /\ new.at = "cleaning" /\ new.slot = s.slot
  BY <1>1 DEF Start
<1> HIDE DEF new
<1>6. QED BY <1>3, <1>4, <1>5 DEF Abandons

LEMMA OpensHolds ==
  ASSUME Shapes, NEW s \in starts, Opened(s) \/ OpenFails(s) PROVE Adopts(s) \/ Abandons(s)
<1>1. s.at = "opening" /\ UNCHANGED <<closing, resuming, hasty, ops, loads, requests, deleted, chain, store>>
  BY DEF Opened, OpenFails, calls, saved
<1>2. CASE Opened(s)
  BY <1>1, <1>2, AdoptsHolds, AbandonsHolds DEF Opened
<1>3. CASE OpenFails(s)
  BY <1>1, <1>3, AbandonsHolds DEF OpenFails
<1>4. QED BY <1>2, <1>3

\* What an attempt has opened is closed.
Cleans(s) ==
  /\ s.at = "cleaning" /\ starts' = starts \ {s}
  /\ open' = {r \in open : r[1] # s.attempt}
  /\ gate' = Without(gate, s.attempt)
  /\ UNCHANGED <<slots, closing, resuming, hasty, ops, loads, requests, deleted, chain, store>>
  /\ Knows(panel) /\ (panel'.state = panel.state \/ Controls(s.attempt))

LEMMA CleansHolds == ASSUME Shapes, NEW s \in starts, Cleaned(s) PROVE Cleans(s)
<1>1. panel \in Panel
  BY DEF Shapes
<1>2. /\ s.at = "cleaning" /\ starts' = starts \ {s}
      /\ open' = {r \in open : r[1] # s.attempt}
      /\ gate' = Without(gate, s.attempt)
      /\ UNCHANGED <<slots, closing, resuming, hasty, ops, loads, requests, deleted, chain, store>>
  BY DEF Cleaned, CleansUp, calls, saved
<1> DEFINE event == IF s.cancelled THEN "stop" ELSE "unavailable"
<1>3. IF Controls(s.attempt) THEN Dispatched(event) ELSE UNCHANGED panel
  BY DEF Cleaned
<1> HIDE DEF event
<1>4. Knows(panel) /\ (panel'.state = panel.state \/ Controls(s.attempt))
  BY <1>1, <1>3, DispatchedTyped, SilentTyped
<1>5. QED BY <1>2, <1>4 DEF Cleans

\* A client fails: one that the session does not own, or the one it captures with.
Fails(a) ==
  /\ <<a, Client>> \in open /\ ~AtIt(ops, a, Client) /\ open' = open \ {<<a, Client>>}
  /\ UNCHANGED <<starts, resuming, hasty, ops, loads, requests, deleted, chain, store>>
  /\ \/ UNCHANGED <<gate, slots, closing, panel>> /\ (gate.active # a \/ slots[Client] # a)
     \/ /\ gate.active = a /\ slots[Client] = a /\ Knows(panel)
        /\ slots' \in [SlotIds -> Nat]
        /\ \A k \in SlotIds : slots'[k] = IF k = Client \/ a \in Microphones THEN 0 ELSE slots[k]
        /\ \/ a \in Microphones /\ slots[Device] # 0 /\ closing' = closing \cup {a} /\ UNCHANGED gate
           \/ ~(a \in Microphones /\ slots[Device] # 0) /\ gate' = Without(gate, a) /\ UNCHANGED closing

LEMMA FailsHolds == ASSUME Shapes, NEW a, ClientFails(a) PROVE Fails(a)
<1>1. panel \in Panel /\ slots \in [SlotIds -> Nat]
  BY DEF Shapes
<1>2. /\ <<a, Client>> \in open /\ ~AtIt(ops, a, Client) /\ open' = open \ {<<a, Client>>}
      /\ UNCHANGED <<starts, resuming, hasty, ops, loads, requests, deleted, chain, store>>
  BY DEF ClientFails, Closes, calls, saved
<1>3. CASE ~Owns(a) \/ slots[Client] # a
  BY <1>2, <1>3 DEF ClientFails, Owns, Fails
<1>4. CASE Owns(a) /\ slots[Client] = a
  <2>1. /\ Dispatched("unavailable")
        /\ slots' = [k \in SlotIds |-> IF k = Client \/ a \in Microphones THEN 0 ELSE slots[k]]
        /\ IF a \in Microphones /\ slots[Device] # 0 THEN closing' = closing \cup {a} /\ UNCHANGED gate
           ELSE gate' = Without(gate, a) /\ UNCHANGED closing
    BY <1>4 DEF ClientFails
  <2>2. Knows(panel)
    BY <1>1, <2>1, DispatchedTyped
  <2>3. /\ slots' \in [SlotIds -> Nat]
        /\ \A k \in SlotIds : slots'[k] = IF k = Client \/ a \in Microphones THEN 0 ELSE slots[k]
    BY <1>1, <2>1
  <2>4. QED BY <1>2, <1>4, <2>1, <2>2, <2>3 DEF Owns, Fails
<1>5. QED BY <1>3, <1>4

\* The device of an attempt whose client failed is closed.
Shuts(a) ==
  /\ a \in closing /\ closing' = closing \ {a} /\ open' = open \ {<<a, Device>>} /\ gate' = Without(gate, a)
  /\ UNCHANGED <<slots, starts, resuming, hasty, ops, loads, panel, requests, deleted, chain, store>>

LEMMA ShutsHolds == ASSUME NEW a, ClosedAfterFailure(a) PROVE Shuts(a)
  BY DEF ClosedAfterFailure, Shuts, calls, saved

\* A resume of captions fails.
Breaks ==
  /\ resuming /\ ~resuming' /\ gate' = Cancelled /\ Knows(panel)
  /\ UNCHANGED <<starts, closing, hasty, ops, loads, requests, deleted, chain, store>>
  /\ \/ /\ HoldsCaptions /\ slots' \in [SlotIds -> Nat]
        /\ \A k \in SlotIds : slots'[k] = IF k = Client THEN 0 ELSE slots[k]
        /\ open' = IF AtIt(ops, slots[Client], Client) THEN open ELSE open \ {<<slots[Client], Client>>}
     \/ ~HoldsCaptions /\ UNCHANGED <<slots, open>>

LEMMA BreaksHolds == ASSUME Shapes, ResumeFails PROVE Breaks
<1>1. panel \in Panel /\ slots \in [SlotIds -> Nat]
  BY DEF Shapes
<1>2. /\ resuming /\ ~resuming' /\ gate' = Cancelled /\ Dispatched("unavailable")
      /\ UNCHANGED <<starts, closing, hasty, ops, loads, requests, deleted, chain, store>>
  BY DEF ResumeFails, calls, saved
<1>3. Knows(panel)
  BY <1>1, <1>2, DispatchedTyped
<1>4. CASE HoldsCaptions
  <2>1. /\ slots' = [slots EXCEPT ![Client] = 0]
        /\ open' = IF AtIt(ops, slots[Client], Client) THEN open ELSE open \ {<<slots[Client], Client>>}
    BY <1>4 DEF ResumeFails, Closes
  <2>2. slots' \in [SlotIds -> Nat] /\ \A k \in SlotIds : slots'[k] = IF k = Client THEN 0 ELSE slots[k]
    BY <1>1, <2>1
  <2>3. QED BY <1>2, <1>3, <1>4, <2>1, <2>2 DEF Breaks
<1>5. CASE ~HoldsCaptions
  BY <1>2, <1>3, <1>5 DEF ResumeFails, Breaks
<1>6. QED BY <1>4, <1>5

LEMMA OpeningShapes ==
  ASSUME Shapes, Distinct, NEW s \in starts, StoreChecked(s) \/ Opened(s) \/ OpenFails(s) \/ Cleaned(s)
  PROVE  Shapes'
<1>1. /\ s.attempt \in Nat \ {0} /\ s.slot \in SlotIds /\ open \subseteq (Nat \ {0}) \X SlotIds
      /\ gate \in Gate /\ panel \in Panel /\ starts \subseteq Start
  BY Plain DEF Shapes
<1>2. CASE StoreChecked(s)
  <2>1. Checks(s)
    BY <1>2, ChecksHolds
  <2>2. starts' \subseteq Start /\ gate' \in Gate /\ panel' \in Panel
    BY <1>1, <2>1 DEF Checks, Shown
  <2>3. QED BY <2>1, <2>2 DEF Checks, Shapes
<1>3. CASE Adopts(s)
  <2>1. starts' \subseteq Start /\ open' \subseteq (Nat \ {0}) \X SlotIds
    BY <1>1, <1>3 DEF Adopts
  <2>2. QED BY <1>3, <2>1 DEF Adopts, Knows, Shapes
<1>4. CASE Abandons(s)
  <2>1. starts' \subseteq Start /\ open' \subseteq (Nat \ {0}) \X SlotIds
    BY <1>1, <1>4 DEF Abandons
  <2>2. QED BY <1>4, <2>1 DEF Abandons, Shapes
<1>5. CASE Cleaned(s)
  <2>1. Cleans(s)
    BY <1>5, CleansHolds
  <2>2. starts' \subseteq Start /\ open' \subseteq (Nat \ {0}) \X SlotIds /\ gate' \in Gate
    BY <1>1, <2>1, GateTyped DEF Cleans
  <2>3. QED BY <2>1, <2>2 DEF Cleans, Knows, Shapes
<1>6. QED BY <1>2, <1>3, <1>4, <1>5, OpensHolds

LEMMA FailureShapes ==
  ASSUME Shapes, (\E r \in open : ClientFails(r[1])) \/ (\E a \in closing : ClosedAfterFailure(a)) \/ ResumeFails
  PROVE  Shapes'
<1>1. gate \in Gate /\ closing \subseteq Nat \ {0} /\ open \subseteq (Nat \ {0}) \X SlotIds
  BY DEF Shapes
<1>2. CASE \E r \in open : ClientFails(r[1])
  <2>1. PICK r \in open : ClientFails(r[1])
    BY <1>2
  <2>2. Fails(r[1]) /\ r[1] \in Nat \ {0}
    BY <2>1, FailsHolds, Plain
  <2>3. open' \subseteq (Nat \ {0}) \X SlotIds /\ closing' \subseteq Nat \ {0} /\ gate' \in Gate
    BY <1>1, <2>2, GateTyped DEF Fails
  <2>4. QED BY <2>2, <2>3 DEF Fails, Knows, Shapes
<1>3. CASE \E a \in closing : ClosedAfterFailure(a)
  <2>1. PICK a \in closing : Shuts(a)
    BY <1>3, ShutsHolds
  <2>2. open' \subseteq (Nat \ {0}) \X SlotIds /\ closing' \subseteq Nat \ {0} /\ gate' \in Gate
    BY <1>1, <2>1, GateTyped DEF Shuts
  <2>3. QED BY <2>1, <2>2 DEF Shuts, Shapes
<1>4. CASE ResumeFails
  <2>1. Breaks
    BY <1>4, BreaksHolds
  <2>2. open' \subseteq (Nat \ {0}) \X SlotIds /\ gate' \in Gate
    BY <1>1, <2>1, GateTyped DEF Breaks
  <2>3. QED BY <2>1, <2>2 DEF Breaks, Knows, Shapes
<1>5. QED BY <1>2, <1>3, <1>4

LEMMA EndingShapes == ASSUME Shapes, \E op \in ops : EndingStep(op) PROVE Shapes'
<1>1. PICK op \in ops : EndingStep(op)
  OBVIOUS
<1>2. op \in Call /\ ops \subseteq Call /\ open \subseteq (Nat \ {0}) \X SlotIds
  BY DEF Shapes
<1>3. CASE StopRejected(op) \/ Drained(op)
  <2>1. GoesOn(op)
    BY <1>3, GoesOnHolds
  <2>2. ops' \subseteq Call
    BY <1>2, <2>1 DEF GoesOn, Proper
  <2>3. QED BY <2>1, <2>2 DEF GoesOn, Shapes
<1>4. CASE Settled(op)
  <2>1. Settles(op)
    BY <1>4, SettlesHolds
  <2>2. CASE Finish(op, FALSE) \/ Finish(op, TRUE)
    BY <1>2, <2>1, <2>2, FinishTyped DEF Settles, Shapes
  <2>3. QED BY <1>2, <2>1, <2>2 DEF Settles, Shapes
<1>5. CASE Erased(op) \/ EraseFails(op)
  <2>1. Erases(op)
    BY <1>5, ErasesHolds
  <2>2. QED BY <1>2, <2>1, FinishTyped DEF Erases, Shapes
<1>6. CASE SlotStopped(op)
  <2>1. Stops(op)
    BY <1>6, StopsHolds
  <2>2. open' \subseteq open
    BY <2>1 DEF Stops
  <2>3. ops' \subseteq Call
    BY <1>2, <2>1 DEF Stops, Proper
  <2>4. slots' \in [SlotIds -> Nat]
    BY <2>1 DEF Stops, Shapes
  <2>5. QED BY <1>2, <2>1, <2>2, <2>3, <2>4 DEF Stops, Shapes
<1>7. QED BY <1>1, <1>3, <1>4, <1>5, <1>6 DEF EndingStep

LEMMA ShapesHold == ASSUME Shapes, Owned, Next PROVE Shapes'
<1>1. CASE StopClicked \/ DeleteClicked \/ ConsentRevoked
  BY <1>1, ClickedHolds DEF Clicked, Proper, Shapes
<1>2. CASE ConsentGiven \/ SaveToggled \/ Pauses \/ Resumes \/ Resumed
  BY <1>2, SwitchesHolds DEF Switches, Shapes
<1>3. CASE \E id \in store : LoadClicked(id)
  BY <1>3, LoadingHolds DEF Loading, Counted, Shapes
<1>4. CASE \E s \in starts : StartStep(s)
  BY <1>4, OpeningShapes DEF Owned, StartStep
<1>5. CASE SaveStep
  <2>1. Saves /\ chain[1] \in Save
    BY <1>5, SavesHolds, ChainTyped DEF Saves, Shapes
  <2>2. chain[1].id \in Nat \ {0}
    BY <2>1 DEF Save
  <2>3. QED BY <2>1, <2>2 DEF Saves, Thinner, Counted, Knows, Shapes
<1>6. CASE SaveQueued
  BY <1>6, QueuesHolds DEF Queues, Knows, Shapes
<1>7. CASE \E id \in loads : Loaded(id)
  BY <1>7, ShowsHolds DEF Shows, Shapes
<1>8. CASE StartInput
  <2>1. Begins
    BY <1>8, BeginsHolds DEF Owned
  <2>2. panel' \in Panel /\ starts' \subseteq Start
    BY <2>1 DEF Begins, Shown, Shapes
  <2>3. QED BY <2>1, <2>2 DEF Begins, Counted, Shapes
<1>9. QED BY <1>1, <1>2, <1>3, <1>4, <1>5, <1>6, <1>7, <1>8, FailureShapes, EndingShapes DEF Next, User

-----------------------------------------------------------------------------
(* What runs is owned *)

\* What covers a resource that runs.
Covered(r) ==
  \/ slots[r[2]] = r[1]
  \/ \E s \in starts : s.attempt = r[1] /\ s.at = "cleaning"
  \/ r[1] \in closing \cup hasty
  \/ AtIt(ops, r[1], r[2])

Refs == \A j, k \in SlotIds : slots[j] # 0 =>
  /\ slots[k] \in {0, slots[j]}
  /\ Owns(slots[j]) => <<slots[j], j>> \in open

LEMMA NoOrphanParts == NoOrphan <=> (\A r \in open : Covered(r)) /\ Refs
  BY DEF NoOrphan, Covered, Refs

\* A late stop that finds its resource open: another one is at it.
LEMMA OtherStop ==
  ASSUME Halting, NEW attempt, NEW k, <<attempt, k>> \in open, AtIt(ops, attempt, k)
  PROVE  \E op \in ops : op.at = "slot" /\ op.input = attempt /\ op.slot = k /\ ~op.late
<1>1. PICK op \in ops : op.at = "slot" /\ op.input = attempt /\ op.slot = k
  BY DEF AtIt
<1>2. CASE op.late
  BY <1>1, <1>2 DEF Halting
<1>3. QED BY <1>1, <1>2

\* The gate stays or is emptied, and no call gets calmer.
LEMMA GatedKept ==
  ASSUME Gated, gate' = gate \/ (gate'.pending = 0 /\ gate'.active = 0), hasty \subseteq hasty', loads' \subseteq loads,
         ops = {} => ops' = {}, \A new \in ops' : \E old \in ops : new.calm => old.calm,
         \A new, other \in ops' : new.calm # other.calm => \E op, third \in ops : op.calm # third.calm
  PROVE  Gated'
<1>1. gate'.pending # 0 => gate'.active \in {0, gate'.pending}
  BY DEF Gated
<1>2. \A a \in {gate'.pending, gate'.active} : a = 0 \/ a \in hasty' \/ ops' = {}
  BY DEF Gated
<1>3. \A op \in ops' : op.calm => gate'.pending = 0 /\ gate'.active = 0 /\ loads' = {}
  BY DEF Gated
<1>4. \A op, other \in ops' : op.calm = other.calm
  BY DEF Gated
<1>5. QED BY <1>1, <1>2, <1>3, <1>4 DEF Gated

\* The stops that close something are still there.
Kept == \A old \in ops : old.at = "slot" /\ ~(old.late /\ old.slot = Device) => \E new \in ops' : Same(new, old)

\* A call that begins with the first ref reaches them all.
LEMMA AllReached ==
  ASSUME Shapes, Owned, Kept, UNCHANGED slots, NEW new \in ops', Proper(new, SlotIds), NEW k \in SlotIds, slots[k] # 0
  PROVE  \E op \in ops' : Reaches(op, k)
<1>1. /\ new.at = "slot" /\ new.slot \in SlotIds /\ new.slot <= k /\ new.input = slots[new.slot]
      /\ new.late => <<new.input, new.slot>> \notin open \/ AtIt(ops, new.input, new.slot)
      /\ slots[new.slot] # 0
  BY DEF Proper
<1>2. CASE ~(new.late /\ new.slot = Device)
  BY <1>1, <1>2 DEF Reaches
<1>3. CASE new.late /\ new.slot = Device
  <2>1. <<new.input, Device>> \in open
    BY <1>1, <1>3 DEF Owned, Devices
  <2>2. PICK op \in ops : op.at = "slot" /\ op.input = new.input /\ op.slot = Device /\ ~op.late
    BY <1>1, <1>3, <2>1, OtherStop DEF Owned
  <2>3. PICK other \in ops' : Same(other, op)
    BY <2>2 DEF Kept
  <2>4. QED BY <2>2, <2>3, <1>1, <1>3 DEF Same, Reaches
<1>4. QED BY <1>2, <1>3

\* A step that touches the calls, and perhaps empties the gate.
LEMMA CallsOwned ==
  ASSUME Shapes, Owned, Kept, UNCHANGED <<slots, open, starts, closing>>, hasty \subseteq hasty',
         gate'.next = gate.next, gate'.active \in {0, gate.active}, gate' = gate \/ Carried', Gated', Revoked',
         \A new \in ops' : new.at = "slot" =>
           (\E old \in ops : Same(new, old)) \/ \E refs : refs \subseteq SlotIds /\ Proper(new, refs)
  PROVE  Owned'
<1> USE DEF Owned
<1>1. ASSUME NEW new \in ops', new.at = "slot", NEW refs, refs \subseteq SlotIds, Proper(new, refs)
      PROVE  /\ new.slot \in SlotIds /\ slots[new.slot] # 0 /\ new.input = slots[new.slot]
             /\ new.late => <<new.input, new.slot>> \notin open \/ AtIt(ops, new.input, new.slot)
  BY <1>1 DEF Proper
<1>2. Numbered'
  <2>1. ASSUME NEW new \in ops', new.at = "slot" PROVE new.input < gate.next
    <3>1. CASE \E old \in ops : Same(new, old)
      BY <2>1, <3>1 DEF Same, Numbered
    <3>2. CASE \E refs : refs \subseteq SlotIds /\ Proper(new, refs)
      BY <1>1, <2>1, <3>2 DEF Numbered
    <3>3. QED BY <2>1, <3>1, <3>2
  <2>2. QED BY <2>1 DEF Numbered
<1>3. Distinct' /\ Filled' /\ Devices' /\ Dropped'
  BY DEF Distinct, Filled, Devices, Dropped
<1>4. Passed'
  <2> SUFFICES ASSUME NEW s \in starts, NEW new \in ops', new.at = "slot", new.input = s.attempt
               PROVE  s.at = "cleaning" \/ (s.at = "opening" /\ new.slot < s.slot)
    BY DEF Passed
  <2>1. CASE \E old \in ops : Same(new, old)
    BY <2>1 DEF Same, Passed
  <2>2. CASE \E refs : refs \subseteq SlotIds /\ Proper(new, refs)
    BY <1>1, <2>2 DEF Filled
  <2>3. QED BY <2>1, <2>2
<1>5. ASSUME NEW attempt, NEW k, <<attempt, k>> \in open, AtIt(ops, attempt, k)
      PROVE  \E new \in ops' : new.at = "slot" /\ new.input = attempt /\ new.slot = k /\ ~new.late
  <2>1. PICK op \in ops : op.at = "slot" /\ op.input = attempt /\ op.slot = k /\ ~op.late
    BY <1>5, OtherStop
  <2>2. PICK new \in ops' : Same(new, op)
    BY <2>1 DEF Kept
  <2>3. QED BY <2>1, <2>2 DEF Same
<1>6. Halting'
  <2> SUFFICES ASSUME NEW new \in ops', new.at = "slot"
               PROVE  /\ new.slot \in SlotIds /\ new.input # 0
                      /\ slots[new.slot] \in {0, new.input} \cup hasty'
                      /\ new.late /\ <<new.input, new.slot>> \in open =>
                           \E other \in ops' : /\ other.at = "slot" /\ other.input = new.input
                                               /\ other.slot = new.slot /\ ~other.late
    BY DEF Halting
  <2>1. CASE \E old \in ops : Same(new, old)
    <3>1. PICK old \in ops : Same(new, old)
      BY <2>1
    <3>2. old.at = "slot" /\ old.slot = new.slot /\ old.input = new.input
      BY <3>1 DEF Same
    <3>3. AtIt(ops, new.input, new.slot)
      BY <3>2 DEF AtIt
    <3>4. new.slot \in SlotIds /\ new.input # 0 /\ slots[new.slot] \in {0, new.input} \cup hasty'
      BY <3>2 DEF Halting
    <3>5. QED BY <1>5, <3>3, <3>4
  <2>2. CASE \E refs : refs \subseteq SlotIds /\ Proper(new, refs)
    <3>1. /\ new.slot \in SlotIds /\ slots[new.slot] # 0 /\ new.input = slots[new.slot]
          /\ new.late => <<new.input, new.slot>> \notin open \/ AtIt(ops, new.input, new.slot)
      BY <1>1, <2>2
    <3>2. QED BY <1>5, <3>1
  <2>3. QED BY <2>1, <2>2
<1>7. Carried'
  <2>1. CASE gate' = gate
    <3> SUFFICES ASSUME NEW k \in SlotIds, slots[k] # 0, slots[k] \notin hasty, ~Owns(slots[k])
                 PROVE  \E op \in ops' : Reaches(op, k)
      BY <2>1 DEF Carried, Owns
    <3>1. PICK op \in ops : Reaches(op, k)
      BY DEF Carried
    <3>2. PICK new \in ops' : Same(new, op)
      BY <3>1 DEF Kept, Reaches
    <3>3. QED BY <3>1, <3>2 DEF Same, Reaches
  <2>2. QED BY <2>1
<1>8. ASSUME NEW r \in open PROVE Covered(r)'
  <2>1. Covered(r) /\ r = <<r[1], r[2]>>
    BY Plain, NoOrphanParts
  <2>2. CASE AtIt(ops, r[1], r[2])
    <3>1. AtIt(ops', r[1], r[2])
      BY <1>5, <2>1, <2>2 DEF AtIt
    <3>2. QED BY <3>1 DEF Covered
  <2>3. QED BY <2>1, <2>2 DEF Covered
<1>9. Refs'
  <2>1. \A j \in SlotIds : slots[j] # 0 /\ gate'.active = slots[j] => gate.active = slots[j]
    OBVIOUS
  <2>2. QED BY <2>1, NoOrphanParts DEF Refs, Owns
<1>10. NoOrphan'
  BY <1>8, <1>9 DEF NoOrphan, Covered, Refs
<1>11. QED BY <1>2, <1>3, <1>4, <1>6, <1>7, <1>10

LEMMA ClickedOwned == ASSUME Shapes, Owned, Followed, Clicked PROVE Owned'
<1>1. /\ UNCHANGED <<slots, open, starts, closing, resuming, hasty, loads>> /\ gate'.next = gate.next
      /\ gate'.pending = 0 /\ gate'.active = 0
  BY DEF Clicked
<1>2. \A op \in ops : op \in ops' /\ Same(op, op) /\ op.calm \in BOOLEAN
  BY Plain DEF Clicked, Same
<1>3. Kept
  BY <1>2 DEF Kept
<1>4. Revoked'
  BY <1>1 DEF Revoked
<1>5. CASE ops' = ops /\ panel.state \in {"idle", "stopped"}
  <2>1. Gated'
    BY <1>1, <1>5, GatedKept DEF Owned
  <2>2. Carried'
    <3> SUFFICES ASSUME NEW k \in SlotIds, slots[k] # 0, slots[k] \notin hasty
                 PROVE  \E op \in ops : Reaches(op, k)
      BY <1>1, <1>5 DEF Carried
    <3>1. ~Owns(slots[k])
      BY <1>5 DEF Followed, Showing, Busy
    <3>2. QED BY <3>1 DEF Owned, Carried
  <2>3. QED BY <1>1, <1>2, <1>3, <1>4, <1>5, <2>1, <2>2, CallsOwned
<1>6. CASE \E new : /\ ops' = ops \cup {new} /\ Proper(new, SlotIds)
                    /\ new.calm = (loads = {} /\ \A op \in ops : op.calm)
  <2>1. PICK new : /\ ops' = ops \cup {new} /\ Proper(new, SlotIds)
                   /\ new.calm = (loads = {} /\ \A op \in ops : op.calm)
    BY <1>6
  <2>2. Gated'
    <3>1. \A op, other \in ops' : op.calm = other.calm
      <4>1. \A op \in ops : op.calm = new.calm
        BY <1>2, <2>1 DEF Owned, Gated
      <4>2. QED BY <2>1, <4>1
    <3>2. \A op \in ops' : op.calm => loads = {}
      BY <2>1 DEF Owned, Gated
    <3>3. QED BY <1>1, <3>1, <3>2 DEF Gated
  <2>3. \A k \in SlotIds : slots[k] = 0 \/ \E op \in ops' : Reaches(op, k)
    BY <1>1, <1>3, <2>1, AllReached
  <2>4. Carried'
    BY <1>1, <2>3 DEF Carried, Reaches
  <2>5. \A op \in ops' : (\E old \in ops : Same(op, old)) \/ \E refs : refs \subseteq SlotIds /\ Proper(op, refs)
    BY <1>2, <2>1
  <2>6. QED BY <1>1, <1>3, <1>4, <2>2, <2>4, <2>5, CallsOwned
<1>7. QED BY <1>5, <1>6 DEF Clicked

\* A step that leaves the inputs and the gate alone.
LEMMA CountedOwned ==
  ASSUME Shapes, Owned, Counted, UNCHANGED <<gate, slots, open, starts, closing>>, hasty \subseteq hasty', Gated',
         panel'.allowed \in {TRUE, panel.allowed}
  PROVE  Owned'
<1>1. Kept /\ \A new \in ops' : \E old \in ops : Same(new, old)
  BY DEF Kept, Counted
<1>2. Revoked'
  BY DEF Owned, Revoked
<1>3. QED BY <1>1, <1>2, CallsOwned

LEMMA QuietOwned ==
  ASSUME Shapes, Owned, UNCHANGED <<gate, slots, open, starts, closing, hasty, ops>>, loads' \subseteq loads,
         panel'.allowed \in {TRUE, panel.allowed}
  PROVE  Owned'
<1>1. Kept /\ \A new \in ops' : \E old \in ops : Same(new, old)
  BY DEF Kept, Same
<1>2. Revoked'
  BY DEF Owned, Revoked
<1>3. Gated'
  BY GatedKept DEF Owned
<1>4. QED BY <1>1, <1>2, <1>3, CallsOwned

LEMMA SavesOwned ==
  ASSUME Shapes, Owned, SaveStep \/ SaveQueued \/ ConsentGiven \/ SaveToggled \/ Pauses \/ Resumes \/ Resumed
                        \/ (\E id \in loads : Loaded(id)) \/ \E id \in store : LoadClicked(id)
  PROVE  Owned'
<1>1. CASE SaveStep
  <2>1. Saves
    BY <1>1, SavesHolds
  <2>2. Counted /\ UNCHANGED <<gate, slots, open, starts, closing, hasty, loads>> /\ panel'.allowed = panel.allowed
    BY <2>1 DEF Saves, Knows
  <2>3. Gated'
    BY <2>2, GatedKept DEF Owned, Counted
  <2>4. QED BY <2>2, <2>3, CountedOwned
<1>2. CASE SaveQueued
  BY <1>2, QueuesHolds, QuietOwned DEF Queues, Knows
<1>3. CASE ConsentGiven \/ SaveToggled \/ Pauses \/ Resumes \/ Resumed
  BY <1>3, SwitchesHolds, QuietOwned DEF Switches
<1>4. CASE \E id \in loads : Loaded(id)
  BY <1>4, ShowsHolds, QuietOwned DEF Shows
<1>5. CASE \E id \in store : LoadClicked(id)
  <2>1. Loading
    BY <1>5, LoadingHolds
  <2>2. /\ Counted /\ UNCHANGED <<gate, slots, open, starts, closing>> /\ hasty' = hasty \cup ({gate.pending} \ {0})
        /\ panel'.allowed = panel.allowed /\ \A new \in ops' : ~new.calm /\ new.calm \in BOOLEAN
    BY <2>1 DEF Loading, Counted, Call
  <2>3. Gated'
    <3>1. ops = {} => ops' = {}
      BY <2>2 DEF Counted
    <3>2. gate.pending # 0 => gate.pending \in hasty'
      BY <2>2
    <3>3. \A a \in {gate.pending, gate.active} : a = 0 \/ a \in hasty' \/ ops' = {}
      BY <2>2, <3>1, <3>2 DEF Owned, Gated
    <3>4. \A op, other \in ops' : op.calm = other.calm
      BY <2>2
    <3>5. QED BY <2>2, <3>3, <3>4 DEF Owned, Gated
  <2>4. QED BY <2>2, <2>3, CountedOwned
<1>6. QED BY <1>1, <1>2, <1>3, <1>4, <1>5

\* A call is replaced by another of the same calm, or is over.
LEMMA ReplacedGated ==
  ASSUME Owned, Shapes, NEW op \in ops, gate' = gate \/ (gate'.pending = 0 /\ gate'.active = 0), UNCHANGED <<hasty, loads>>,
         \/ ops' = ops \ {op}
         \/ \E new : ops' = (ops \ {op}) \cup {new} /\ new.calm = op.calm
  PROVE  Gated'
<1>1. \A new \in ops' : \E old \in ops : new.calm = old.calm
  OBVIOUS
<1>2. QED BY <1>1, GatedKept DEF Owned

LEMMA GoesOnOwned == ASSUME Shapes, Owned, NEW op \in ops, GoesOn(op) PROVE Owned'
<1>1. /\ UNCHANGED <<slots, open, starts, closing, hasty, loads>> /\ gate'.next = gate.next
      /\ gate' = gate \/ (gate'.pending = 0 /\ gate'.active = 0)
      /\ op.at = "drain" \/ (op.at = "slot" /\ op.late /\ op.slot = Device)
      /\ panel'.allowed = panel.allowed
  BY DEF GoesOn
<1>2. \A old \in ops : Same(old, old)
  BY DEF Same
<1>3. \A old \in ops \ {op} : old \in ops'
  BY DEF GoesOn
<1>4. Kept
  BY <1>1, <1>2, <1>3 DEF Kept
<1>5. Revoked'
  BY <1>1 DEF Owned, Revoked
<1>6. Gated'
  BY <1>1, ReplacedGated DEF GoesOn
<1>7. CASE ops' = ops \ {op} /\ gate' = gate
  BY <1>1, <1>2, <1>4, <1>5, <1>6, <1>7, CallsOwned
<1>8. CASE \E new, refs : /\ ops' = (ops \ {op}) \cup {new} /\ Proper(new, refs) /\ refs \subseteq SlotIds
                          /\ gate' = gate \/ refs = SlotIds
  <2>1. PICK new, refs : /\ ops' = (ops \ {op}) \cup {new} /\ Proper(new, refs) /\ refs \subseteq SlotIds
                         /\ gate' = gate \/ refs = SlotIds
    BY <1>8
  <2>2. gate' = gate \/ Carried'
    <3>1. CASE refs = SlotIds
      <4>1. \A k \in SlotIds : slots[k] = 0 \/ \E other \in ops' : Reaches(other, k)
        BY <1>1, <1>4, <2>1, <3>1, AllReached
      <4>2. QED BY <1>1, <4>1 DEF Carried, Reaches
    <3>2. QED BY <2>1, <3>1
  <2>3. QED BY <1>1, <1>2, <1>4, <1>5, <1>6, <2>1, <2>2, CallsOwned
<1>9. QED BY <1>7, <1>8 DEF GoesOn

\* A delete settles or ends.
LEMMA SettlesOwned == ASSUME Shapes, Owned, NEW op \in ops, Settles(op) \/ Erases(op) PROVE Owned'
<1>1. UNCHANGED <<gate, slots, open, starts, closing, hasty, loads>> /\ op.at \in {"settle", "erase"} /\ op \in Call
  BY DEF Settles, Erases, Shapes
<1>2. /\ panel'.allowed = panel.allowed
      /\ \/ ops' = ops \ {op}
         \/ \E new : ops' = (ops \ {op}) \cup {new} /\ new.calm = op.calm /\ new.at = "erase"
  <2>1. CASE Finish(op, TRUE) \/ Finish(op, FALSE)
    BY <1>1, <2>1, FinishTyped
  <2>2. QED BY <2>1 DEF Settles, Erases
<1>3. \A old \in ops : Same(old, old)
  BY DEF Same
<1>4. Kept
  BY <1>1, <1>2, <1>3 DEF Kept
<1>5. Revoked'
  BY <1>1, <1>2 DEF Owned, Revoked
<1>6. Gated'
  BY <1>1, <1>2, ReplacedGated
<1>7. \A new \in ops' : new.at = "slot" => \E old \in ops : Same(new, old)
  BY <1>2, <1>3
<1>8. QED BY <1>1, <1>4, <1>5, <1>6, <1>7, CallsOwned

LEMMA StopsOwned == ASSUME Shapes, Owned, NEW op \in ops, Stops(op) PROVE Owned'
<1> USE DEF Owned
<1>1. /\ op.at = "slot" /\ ~(op.late /\ op.slot = Device) /\ op.slot \in SlotIds /\ op.input # 0
      /\ slots[op.slot] \in {0, op.input} \cup hasty
      /\ UNCHANGED <<gate, starts, closing, hasty, loads, panel>>
      /\ \A k \in SlotIds : slots'[k] = IF k = op.slot THEN 0 ELSE slots[k]
      /\ open' = IF op.late THEN open ELSE open \ {<<op.input, op.slot>>}
  BY DEF Stops, Shapes, Halting
<1>2. PICK new : /\ ops' = (ops \ {op}) \cup {new} /\ Proper(new, {Client} \ {op.slot}) /\ Of(new, op)
  BY DEF Stops
<1>3. new.at = "slot" => /\ op.slot = Device /\ new.slot = Client /\ slots[Client] # 0 /\ new.input = slots[Client]
                         /\ new.late => <<new.input, Client>> \notin open \/ AtIt(ops, new.input, Client)
  BY <1>1, <1>2, SlotNames DEF Proper
<1>4. open' \subseteq open /\ \A k \in SlotIds : slots'[k] \in {0, slots[k]}
  BY <1>1
<1>5. Numbered'
  <2>1. \A k \in SlotIds : slots'[k] < gate.next
    BY <1>1, <1>4, Plain DEF Numbered
  <2>2. \A other \in ops' : other.at = "slot" => other.input < gate.next
    BY <1>2, <1>3, SlotNames DEF Numbered
  <2>3. QED BY <1>1, <2>1, <2>2 DEF Numbered
<1>6. Distinct' /\ Filled' /\ Dropped'
  <2>1. Distinct'
    BY <1>1 DEF Distinct
  <2>2. Filled'
    BY <1>1, <1>4, Plain DEF Filled
  <2>3. Dropped'
    BY <1>1, <1>4, Plain DEF Dropped
  <2>4. QED BY <2>1, <2>2, <2>3
<1>7. Passed'
  <2> SUFFICES ASSUME NEW s \in starts, NEW other \in ops', other.at = "slot", other.input = s.attempt
               PROVE  s.at = "cleaning" \/ (s.at = "opening" /\ other.slot < s.slot)
    BY <1>1 DEF Passed
  <2>1. CASE other \in ops
    BY <2>1 DEF Passed
  <2>2. CASE other = new
    BY <1>3, <2>2, SlotNames DEF Filled
  <2>3. QED BY <1>2, <2>1, <2>2
<1>8. Devices'
  <2>1. slots'[Device] # 0 => op.slot # Device /\ slots'[Device] = slots[Device]
    BY <1>1, SlotNames
  <2>2. \A a : op.slot # Device /\ <<a, Device>> \in open => <<a, Device>> \in open'
    BY <1>1
  <2>3. QED BY <1>1, <2>1, <2>2 DEF Devices
<1>9. Gated' /\ Revoked'
  <2>1. Gated'
    BY <1>1, <1>2, ReplacedGated DEF Of
  <2>2. QED BY <1>1, <2>1 DEF Revoked
\* A stop that another one relies on does not end before it.
<1>10. ASSUME NEW a, NEW k, <<a, k>> \in open', AtIt(ops, a, k)
       PROVE  \E other \in ops' : other.at = "slot" /\ other.input = a /\ other.slot = k /\ ~other.late
  <2>1. PICK other \in ops : other.at = "slot" /\ other.input = a /\ other.slot = k /\ ~other.late
    BY <1>4, <1>10, OtherStop
  <2>2. other # op
    BY <1>1, <1>10, <2>1
  <2>3. QED BY <1>2, <2>1, <2>2
<1>11. Halting'
  <2> SUFFICES ASSUME NEW other \in ops', other.at = "slot"
               PROVE  /\ other.slot \in SlotIds /\ other.input # 0
                      /\ slots'[other.slot] \in {0, other.input} \cup hasty
                      /\ other.late /\ <<other.input, other.slot>> \in open' =>
                           \E third \in ops' : /\ third.at = "slot" /\ third.input = other.input
                                               /\ third.slot = other.slot /\ ~third.late
    BY <1>1 DEF Halting
  <2>1. CASE other \in ops
    <3>1. other.slot \in SlotIds /\ other.input # 0 /\ slots[other.slot] \in {0, other.input} \cup hasty
      BY <2>1 DEF Halting
    <3>2. AtIt(ops, other.input, other.slot)
      BY <2>1 DEF AtIt
    <3>3. QED BY <1>4, <1>10, <3>1, <3>2
  <2>2. CASE other = new
    <3>1. other.slot \in SlotIds /\ other.input # 0 /\ slots'[other.slot] \in {0, other.input}
      BY <1>3, <1>4, <2>2, SlotNames
    <3>2. other.late /\ <<other.input, other.slot>> \in open' => AtIt(ops, other.input, other.slot)
      BY <1>3, <1>4, <2>2
    <3>3. QED BY <1>10, <3>1, <3>2
  <2>3. QED BY <1>2, <2>1, <2>2
<1>12. Carried'
  <2> SUFFICES ASSUME NEW k \in SlotIds, slots'[k] # 0, slots'[k] \notin hasty, ~Owns(slots'[k])
               PROVE  \E other \in ops' : Reaches(other, k)
    BY <1>1 DEF Carried, Owns
  <2>1. k # op.slot /\ slots'[k] = slots[k]
    BY <1>1
  <2>2. PICK other \in ops : Reaches(other, k)
    BY <2>1 DEF Carried
  <2>3. CASE other # op
    BY <1>2, <2>2, <2>3
  <2>4. CASE other = op
    <3>1. op.slot = Device /\ k = Client
      BY <1>1, <2>1, <2>2, <2>4, SlotNames DEF Reaches
    <3>2. new.at = "slot" /\ new.slot = Client
      BY <1>2, <2>1, <3>1, SlotNames DEF Proper
    <3>3. Reaches(new, k)
      BY <3>1, <3>2, SlotNames DEF Reaches
    <3>4. QED BY <1>2, <3>3
  <2>5. QED BY <2>3, <2>4
<1>13. ASSUME NEW r \in open' PROVE Covered(r)'
  <2>1. Covered(r) /\ r = <<r[1], r[2]>> /\ r[1] # 0 /\ r[2] \in SlotIds
    BY <1>4, Plain, NoOrphanParts
  <2>2. CASE AtIt(ops, r[1], r[2])
    <3>1. AtIt(ops', r[1], r[2])
      BY <1>10, <2>1, <2>2 DEF AtIt
    <3>2. QED BY <3>1 DEF Covered
  <2>3. CASE slots[r[2]] = r[1]
    <3>1. CASE r[2] # op.slot
      BY <1>1, <2>1, <2>3, <3>1 DEF Covered
    <3>2. CASE r[2] = op.slot
      <4>1. CASE r[1] \in hasty
        BY <1>1, <4>1 DEF Covered
      <4>2. CASE r[1] = op.input
        <5>1. AtIt(ops, r[1], r[2])
          BY <1>1, <3>2, <4>2 DEF AtIt
        <5>2. QED BY <2>2, <5>1
      <4>3. QED BY <1>1, <2>1, <2>3, <3>2, <4>1, <4>2
    <3>3. QED BY <3>1, <3>2
  <2>4. QED BY <1>1, <2>1, <2>2, <2>3 DEF Covered
<1>14. Refs'
  <2> SUFFICES ASSUME NEW j \in SlotIds, NEW k \in SlotIds, slots'[j] # 0
               PROVE  slots'[k] \in {0, slots'[j]} /\ (Owns(slots'[j]) => <<slots'[j], j>> \in open')
    BY <1>1 DEF Refs, Owns
  <2>1. j # op.slot /\ slots'[j] = slots[j]
    BY <1>1
  <2>2. slots[k] \in {0, slots[j]} /\ (Owns(slots[j]) => <<slots[j], j>> \in open)
    BY <2>1, NoOrphanParts DEF Refs
  <2>3. <<slots[j], j>> \in open => <<slots[j], j>> \in open'
    BY <1>1, <2>1
  <2>4. QED BY <1>4, <2>1, <2>2, <2>3
<1>15. NoOrphan'
  BY <1>13, <1>14 DEF NoOrphan, Covered, Refs
<1>16. QED BY <1>5, <1>6, <1>7, <1>8, <1>9, <1>11, <1>12, <1>15

LEMMA EndingOwned == ASSUME Shapes, Owned, \E op \in ops : EndingStep(op) PROVE Owned'
<1>1. PICK op \in ops : EndingStep(op)
  OBVIOUS
<1>2. GoesOn(op) \/ Settles(op) \/ Erases(op) \/ Stops(op)
  BY <1>1, GoesOnHolds, SettlesHolds, ErasesHolds, StopsHolds DEF EndingStep
<1>3. QED BY <1>2, GoesOnOwned, SettlesOwned, StopsOwned

\* The calls, the resources and the requests are as before.
LEMMA SameCalls ==
  ASSUME Owned, UNCHANGED <<ops, hasty>>, open' \subseteq open, \A k \in SlotIds : slots'[k] \in {0, slots[k]}
  PROVE  Halting'
  BY DEF Owned, Halting

LEMMA BeginsOwned == ASSUME Shapes, Owned, Begins PROVE Owned'
<1> USE DEF Owned
<1>1. /\ \A k \in SlotIds : slots[k] = 0
      /\ gate'.next = gate.next + 1 /\ gate'.pending = gate.next /\ gate'.active = 0
      /\ hasty \subseteq hasty' /\ (gate.next \in hasty' \/ ops = {})
      /\ Counted /\ \A new \in ops' : ~new.calm /\ new.calm \in BOOLEAN
      /\ UNCHANGED <<slots, open, closing>>
  BY DEF Begins, Counted, Call
<1>2. PICK new \in Start : /\ starts' = starts \cup {new} /\ new.attempt = gate.next /\ new.slot = First(gate.next)
                           /\ panel'.allowed = panel.allowed
  BY DEF Begins, Shown
<1>3. panel.allowed
  BY DEF Begins
<1>4. \A op \in ops' : \E old \in ops : Same(op, old)
  BY <1>1 DEF Counted
<1>5. Numbered'
  <2>1. \A op \in ops' : op.at = "slot" => op.input < gate.next /\ op.input \in Nat
    BY <1>4, Plain DEF Same, Numbered
  <2>2. QED BY <1>1, <1>2, <2>1, Plain DEF Numbered
<1>6. \A s \in starts : s.attempt # new.attempt
  BY <1>2, Plain DEF Numbered
<1>7. Distinct'
  BY <1>2, <1>6 DEF Distinct
<1>8. Filled' /\ Carried' /\ Refs'
  BY <1>1, <1>2, Plain DEF Filled, Carried, Refs
<1>9. Passed'
  <2> SUFFICES ASSUME NEW s \in starts', NEW op \in ops', op.at = "slot", op.input = s.attempt
               PROVE  s.at = "cleaning" \/ (s.at = "opening" /\ op.slot < s.slot)
    BY DEF Passed
  <2>1. PICK old \in ops : Same(op, old)
    BY <1>4
  <2>2. s # new
    <3>1. gate.next \in Nat /\ op.input \in Nat /\ op.input < gate.next
      BY <2>1, Plain DEF Same, Numbered
    <3>2. QED BY <1>2, <3>1
  <2>3. QED BY <1>2, <2>1, <2>2 DEF Same, Passed
<1>10. Devices'
  <2>1. new.slot = Device => new.attempt \in Microphones
    BY <1>2, SlotNames DEF First
  <2>2. slots'[Device] = 0
    BY <1>1, SlotNames
  <2>3. QED BY <1>2, <2>1, <2>2 DEF Devices
<1>11. Dropped'
  <2>1. \A a \in closing : a # new.attempt
    BY <1>2, Plain DEF Numbered
  <2>2. QED BY <1>1, <1>2, <2>1 DEF Dropped
<1>12. Gated' /\ Revoked'
  <2>1. ops = {} => ops' = {}
    BY <1>4
  <2>2. \A op, other \in ops' : op.calm = other.calm
    BY <1>1
  <2>3. QED BY <1>1, <1>2, <1>3, <2>1, <2>2 DEF Gated, Revoked
<1>13. ASSUME NEW a, NEW k, <<a, k>> \in open, AtIt(ops, a, k)
       PROVE  \E op \in ops' : op.at = "slot" /\ op.input = a /\ op.slot = k /\ ~op.late
  <2>1. PICK op \in ops : op.at = "slot" /\ op.input = a /\ op.slot = k /\ ~op.late
    BY <1>13, OtherStop
  <2>2. PICK other \in ops' : Same(other, op)
    BY <1>1 DEF Counted
  <2>3. QED BY <2>1, <2>2 DEF Same
<1>14. Halting'
  <2> SUFFICES ASSUME NEW op \in ops', op.at = "slot"
               PROVE  /\ op.slot \in SlotIds /\ op.input # 0 /\ slots'[op.slot] \in {0, op.input} \cup hasty'
                      /\ op.late /\ <<op.input, op.slot>> \in open =>
                           \E third \in ops' : /\ third.at = "slot" /\ third.input = op.input
                                               /\ third.slot = op.slot /\ ~third.late
    BY <1>1 DEF Halting
  <2>1. PICK old \in ops : Same(op, old)
    BY <1>4
  <2>2. op.slot \in SlotIds /\ op.input # 0 /\ AtIt(ops, op.input, op.slot)
    BY <2>1 DEF Same, Halting, AtIt
  <2>3. QED BY <1>1, <1>13, <2>2
<1>15. ASSUME NEW r \in open' PROVE Covered(r)'
  <2>1. Covered(r) /\ r = <<r[1], r[2]>> /\ r \in open
    BY <1>1, Plain, NoOrphanParts
  <2>2. CASE AtIt(ops, r[1], r[2])
    <3>1. AtIt(ops', r[1], r[2])
      BY <1>13, <2>1, <2>2 DEF AtIt
    <3>2. QED BY <3>1 DEF Covered
  <2>3. QED BY <1>1, <1>2, <2>1, <2>2 DEF Covered
<1>16. NoOrphan'
  BY <1>8, <1>15 DEF NoOrphan, Covered, Refs
<1>17. QED BY <1>5, <1>7, <1>8, <1>9, <1>10, <1>11, <1>12, <1>14, <1>16

\* A start procedure whose record is replaced by one of the same attempt.
LEMMA ReplacedStart ==
  ASSUME Distinct, NEW s \in starts, NEW new, new.attempt = s.attempt, starts' = (starts \ {s}) \cup {new}
  PROVE  Distinct' /\ \A t \in starts' : t = new \/ (t \in starts /\ t.attempt # s.attempt)
<1>1. \A t \in starts' : t = new \/ (t \in starts /\ t.attempt # s.attempt)
  BY DEF Distinct
<1>2. QED BY <1>1 DEF Distinct

LEMMA ChecksOwned == ASSUME Shapes, Owned, NEW s \in starts, Checks(s) PROVE Owned'
<1> USE DEF Owned
<1>1. s.at = "checking" /\ UNCHANGED <<slots, open, closing, hasty, ops, loads>> /\ s.attempt \in Nat \ {0}
  BY Plain DEF Checks
<1>2. CASE /\ gate.pending = s.attempt /\ UNCHANGED gate
           /\ \E new \in Start : /\ starts' = (starts \ {s}) \cup {new} /\ new.attempt = s.attempt
                                 /\ new.slot = s.slot /\ new.at = "opening" /\ Shown(new)
  <2>1. PICK new \in Start : /\ starts' = (starts \ {s}) \cup {new} /\ new.attempt = s.attempt
                             /\ new.slot = s.slot /\ new.at = "opening" /\ Shown(new)
    BY <1>2
  <2>2. Distinct' /\ \A t \in starts' : t = new \/ (t \in starts /\ t.attempt # s.attempt)
    BY <2>1, ReplacedStart
  <2>3. \A k \in SlotIds : slots[k] # s.attempt
    BY <1>1 DEF Filled
  <2>4. \A op \in ops : op.at = "slot" => op.input # s.attempt
    BY <1>1 DEF Passed
  <2>5. Numbered' /\ Filled' /\ Dropped'
    BY <1>1, <1>2, <2>1, <2>2, <2>3 DEF Numbered, Filled, Dropped
  <2>6. Passed' /\ Devices'
    BY <1>1, <2>1, <2>2, <2>4 DEF Passed, Devices
  <2>7. Gated' /\ Halting' /\ Carried' /\ Revoked'
    <3>1. panel'.allowed = panel.allowed
      BY <2>1 DEF Shown
    <3>2. QED BY <1>1, <1>2, <3>1 DEF Gated, Halting, Carried, Revoked, Owns, Reaches
  <2>8. NoOrphan'
    <3>1. \A t \in starts : t.at = "cleaning" => t \in starts'
      BY <1>1, <2>1
    <3>2. \A r \in open : Covered(r)'
      BY <1>1, <3>1, NoOrphanParts DEF Covered
    <3>3. QED BY <1>1, <1>2, <3>2, NoOrphanParts DEF NoOrphan, Covered, Refs, Owns
  <2>9. QED BY <2>2, <2>5, <2>6, <2>7, <2>8
<1>3. CASE /\ starts' = starts \ {s} /\ UNCHANGED panel
           /\ gate' \in Gate /\ gate'.next = gate.next /\ gate'.active = gate.active
           /\ gate'.pending = IF gate.pending = s.attempt THEN 0 ELSE gate.pending
  <2>1. Numbered' /\ Distinct' /\ Filled' /\ Dropped'
    BY <1>1, <1>3 DEF Numbered, Distinct, Filled, Dropped
  <2>2. Passed' /\ Devices'
    BY <1>1, <1>3 DEF Passed, Devices
  <2>3. Gated' /\ Revoked'
    BY <1>1, <1>3 DEF Gated, Revoked
  <2>4. Halting' /\ Carried'
    BY <1>1, <1>3 DEF Halting, Carried, Owns, Reaches
  <2>5. NoOrphan'
    <3>1. \A t \in starts : t.at = "cleaning" => t \in starts'
      BY <1>1, <1>3
    <3>2. \A r \in open : Covered(r)'
      BY <1>1, <3>1, NoOrphanParts DEF Covered
    <3>3. QED BY <1>1, <1>3, <3>2, NoOrphanParts DEF NoOrphan, Covered, Refs, Owns
  <2>6. QED BY <2>1, <2>2, <2>3, <2>4, <2>5
<1>4. QED BY <1>2, <1>3 DEF Checks

LEMMA AdoptsOwned == ASSUME Shapes, Owned, NEW s \in starts, Adopts(s) PROVE Owned'
<1> USE DEF Owned
<1> DEFINE a == s.attempt
<1>1. /\ s.at = "opening" /\ gate.pending = a /\ panel.allowed /\ panel'.allowed = panel.allowed
      /\ a \in Nat \ {0} /\ s.slot \in SlotIds /\ s \in Start
      /\ \A k \in SlotIds : slots[k] = IF First(a) <= k /\ k < s.slot THEN a ELSE 0
      /\ \A k \in SlotIds : slots'[k] = IF k = s.slot THEN a ELSE slots[k]
      /\ open' = open \cup {<<a, s.slot>>}
      /\ gate'.next = gate.next /\ gate'.active = a /\ gate'.pending \in {0, a}
      /\ UNCHANGED <<closing, hasty, ops, loads>>
  BY Plain DEF Adopts, Knows
<1>2. \/ /\ s.slot = Device
         /\ \E new \in Start : /\ starts' = (starts \ {s}) \cup {new} /\ new.attempt = s.attempt
                               /\ new.slot = Client /\ new.at = "opening"
      \/ s.slot = Client /\ starts' = starts \ {s}
  BY DEF Adopts
<1>3. /\ \A t \in starts' : \/ t \in starts /\ t.attempt # a
                            \/ s.slot = Device /\ t.attempt = a /\ t.at = "opening" /\ t.slot = Client
      /\ Distinct'
  <2>1. CASE s.slot = Device
    <3>1. PICK new \in Start : /\ starts' = (starts \ {s}) \cup {new} /\ new.attempt = s.attempt
                               /\ new.slot = Client /\ new.at = "opening"
      BY <1>2, <2>1, SlotNames
    <3>2. Distinct' /\ \A t \in starts' : t = new \/ (t \in starts /\ t.attempt # s.attempt)
      BY <3>1, ReplacedStart
    <3>3. QED BY <2>1, <3>1, <3>2
  <2>2. CASE s.slot # Device
    <3>1. starts' = starts \ {s}
      BY <1>2, <2>2
    <3>2. QED BY <3>1 DEF Distinct
  <2>3. QED BY <2>1, <2>2
<1>4. \A k \in SlotIds : slots'[k] \in {0, a} /\ slots[k] \in {0, a}
  BY <1>1
<1>5. a \in hasty \/ ops = {}
  BY <1>1 DEF Gated
<1>6. ASSUME NEW op \in ops, op.at = "slot", op.input = a PROVE s.slot = Client /\ op.slot = Device
  <2>1. op.slot < s.slot /\ op.slot \in SlotIds
    BY <1>1, <1>6 DEF Passed, Halting
  <2>2. QED BY <1>1, <2>1, SlotNames
<1>7. Numbered'
  BY <1>1, <1>3, <1>4 DEF Numbered
<1>8. Filled'
  <2> SUFFICES ASSUME NEW t \in starts', NEW k \in SlotIds, slots'[k] = t.attempt
               PROVE  t.at = "opening" /\ k < t.slot
    BY DEF Filled
  <2>1. CASE t \in starts /\ t.attempt # a
    BY <1>4, <2>1, Plain
  <2>2. CASE s.slot = Device /\ t.attempt = a /\ t.at = "opening" /\ t.slot = Client
    <3>1. k = Device
      BY <1>1, <2>2, SlotNames
    <3>2. QED BY <2>2, <3>1, SlotNames
  <2>3. QED BY <1>3, <2>1, <2>2
<1>9. Passed'
  <2> SUFFICES ASSUME NEW t \in starts', NEW op \in ops, op.at = "slot", op.input = t.attempt
               PROVE  t.at = "cleaning" \/ (t.at = "opening" /\ op.slot < t.slot)
    BY <1>1 DEF Passed
  <2>1. CASE t \in starts /\ t.attempt # a
    BY <2>1 DEF Passed
  <2>2. CASE s.slot = Device /\ t.attempt = a
    BY <1>6, <2>2, SlotNames
  <2>3. QED BY <1>3, <2>1, <2>2
<1>10. Devices'
  <2>1. \A t \in starts' : t.slot = Device => t.attempt \in Microphones
    BY <1>3, SlotNames DEF Devices
  <2>2. CASE s.slot = Device
    BY <1>1, <2>1, <2>2, SlotNames DEF Devices
  <2>3. CASE s.slot # Device
    <3>1. slots'[Device] = slots[Device]
      BY <1>1, <2>3, SlotNames
    <3>2. QED BY <1>1, <2>1, <3>1 DEF Devices
  <2>4. QED BY <2>2, <2>3
<1>11. Dropped'
  <2>1. \A c \in closing : c # a /\ c # 0
    BY Plain DEF Dropped
  <2>2. QED BY <1>1, <1>3, <1>4, <2>1 DEF Dropped
<1>12. Gated' /\ Revoked'
  <2>1. \A op \in ops : ~op.calm
    BY <1>1 DEF Gated
  <2>2. QED BY <1>1, <1>5, <2>1 DEF Gated, Revoked
<1>13. Halting'
  <2> SUFFICES ASSUME NEW op \in ops, op.at = "slot"
               PROVE  /\ op.slot \in SlotIds /\ op.input # 0 /\ slots'[op.slot] \in {0, op.input} \cup hasty
                      /\ op.late /\ <<op.input, op.slot>> \in open' =>
                           \E third \in ops : /\ third.at = "slot" /\ third.input = op.input
                                              /\ third.slot = op.slot /\ ~third.late
    BY <1>1 DEF Halting
  <2>1. op.slot \in SlotIds /\ op.input # 0 /\ slots'[op.slot] \in {0, a} /\ a \in hasty
    BY <1>4, <1>5 DEF Halting
  <2>2. <<op.input, op.slot>> # <<a, s.slot>>
    BY <1>6, SlotNames
  <2>3. QED BY <1>1, <2>1, <2>2 DEF Halting
<1>14. Carried'
  BY <1>1, <1>4 DEF Carried, Owns
<1>15. ASSUME NEW r \in open' PROVE Covered(r)'
  <2>1. CASE r = <<a, s.slot>>
    BY <1>1, <2>1 DEF Covered
  <2>2. CASE r \in open
    <3>1. Covered(r) /\ r[1] # 0 /\ r[2] \in SlotIds
      BY <2>2, Plain, NoOrphanParts
    <3>2. CASE slots[r[2]] = r[1]
      BY <1>1, <3>1, <3>2 DEF Covered
    <3>3. CASE \E t \in starts : t.attempt = r[1] /\ t.at = "cleaning"
      <4>1. PICK t \in starts : t.attempt = r[1] /\ t.at = "cleaning"
        BY <3>3
      <4>2. t \in starts'
        BY <1>1, <1>2, <4>1
      <4>3. QED BY <4>1, <4>2 DEF Covered
    <3>4. QED BY <1>1, <3>1, <3>2, <3>3 DEF Covered
  <2>3. QED BY <1>1, <2>1, <2>2
<1>16. Refs'
  <2> SUFFICES ASSUME NEW j \in SlotIds, slots'[j] # 0
               PROVE  <<slots'[j], j>> \in open'
    BY <1>4 DEF Refs
  <2>1. CASE j = s.slot
    BY <1>1, <2>1
  <2>2. CASE j # s.slot
    <3>1. slots[j] = a /\ slots'[j] = a /\ j = Device
      BY <1>1, <2>2, SlotNames
    <3>2. QED BY <1>1, <3>1 DEF Devices
  <2>3. QED BY <2>1, <2>2
<1>17. NoOrphan'
  BY <1>15, <1>16, <1>4 DEF NoOrphan, Covered, Refs
<1>18. QED BY <1>3, <1>7, <1>8, <1>9, <1>10, <1>11, <1>12, <1>13, <1>14, <1>17

LEMMA AbandonsOwned == ASSUME Shapes, Owned, NEW s \in starts, Abandons(s) PROVE Owned'
<1> USE DEF Owned
<1> DEFINE a == s.attempt
<1>1. /\ s.at = "opening" /\ a \in Nat \ {0} /\ s.slot \in SlotIds
      /\ \A k \in SlotIds : slots'[k] = IF slots[k] = a THEN 0 ELSE slots[k]
      /\ open' \in {open, open \cup {<<a, s.slot>>}}
      /\ UNCHANGED <<gate, closing, hasty, ops, loads, panel>>
  BY Plain DEF Abandons
<1>2. PICK new \in Start : /\ starts' = (starts \ {s}) \cup {new} /\ new.attempt = s.attempt
                           /\ new.slot = s.slot /\ new.at = "cleaning"
  BY DEF Abandons
<1>3. Distinct' /\ \A t \in starts' : t = new \/ (t \in starts /\ t.attempt # a)
  BY <1>2, ReplacedStart
<1>4. \A k \in SlotIds : slots'[k] # a /\ slots'[k] \in {0, slots[k]}
  BY <1>1
<1>5. \A op \in ops : op.at = "slot" /\ op.input = a => op.slot # s.slot
  <2> SUFFICES ASSUME NEW op \in ops, op.at = "slot", op.input = a PROVE op.slot # s.slot
    OBVIOUS
  <2>1. op.slot < s.slot /\ op.slot \in SlotIds
    BY <1>1 DEF Passed, Halting
  <2>2. QED BY <1>1, <2>1, SlotNames
<1>6. Numbered'
  BY <1>1, <1>2, <1>3, <1>4, Plain DEF Numbered
<1>7. Filled'
  BY <1>1, <1>2, <1>3, <1>4, Plain DEF Filled
<1>8. Passed' /\ Devices'
  <2>1. Passed'
    BY <1>1, <1>2, <1>3 DEF Passed
  <2>2. Devices'
    <3>1. \A t \in starts' : t.slot = Device => t.attempt \in Microphones
      BY <1>2, <1>3 DEF Devices
    <3>2. slots'[Device] # 0 => slots'[Device] = slots[Device]
      BY <1>4, SlotNames
    <3>3. QED BY <1>1, <3>1, <3>2 DEF Devices
  <2>3. QED BY <2>1, <2>2
<1>9. Dropped'
  <2> SUFFICES ASSUME NEW c \in closing
               PROVE  /\ \A k \in SlotIds : slots'[k] # c
                      /\ \A t \in starts' : t.attempt # c
                      /\ <<c, Client>> \notin open'
    BY <1>1 DEF Dropped
  <2>1. c # a /\ c # 0
    BY Plain DEF Dropped
  <2>2. QED BY <1>1, <1>2, <1>3, <1>4, <2>1 DEF Dropped
<1>10. Gated' /\ Revoked'
  BY <1>1 DEF Gated, Revoked
<1>11. Halting'
  <2> SUFFICES ASSUME NEW op \in ops, op.at = "slot"
               PROVE  /\ op.slot \in SlotIds /\ op.input # 0 /\ slots'[op.slot] \in {0, op.input} \cup hasty
                      /\ op.late /\ <<op.input, op.slot>> \in open' =>
                           \E third \in ops : /\ third.at = "slot" /\ third.input = op.input
                                              /\ third.slot = op.slot /\ ~third.late
    BY <1>1 DEF Halting
  <2>1. op.slot \in SlotIds /\ op.input # 0 /\ slots'[op.slot] \in {0, op.input} \cup hasty
    BY <1>4 DEF Halting
  <2>2. <<op.input, op.slot>> \in open' => <<op.input, op.slot>> \in open
    BY <1>1, <1>5
  <2>3. QED BY <2>1, <2>2 DEF Halting
<1>12. Carried'
  <2> SUFFICES ASSUME NEW k \in SlotIds, slots'[k] # 0, slots'[k] \notin hasty, ~Owns(slots'[k])
               PROVE  \E op \in ops : Reaches(op, k)
    BY <1>1 DEF Carried, Owns
  <2>1. slots'[k] = slots[k]
    BY <1>4
  <2>2. QED BY <2>1 DEF Carried
<1>13. ASSUME NEW r \in open' PROVE Covered(r)'
  <2>1. CASE r[1] = a
    BY <1>2, <2>1 DEF Covered
  <2>2. CASE r[1] # a
    <3>1. r \in open /\ Covered(r) /\ r[2] \in SlotIds
      BY <1>1, <2>2, Plain, NoOrphanParts
    <3>2. \A t \in starts : t.attempt = r[1] => t \in starts'
      BY <1>2, <2>2
    <3>3. QED BY <1>1, <2>2, <3>1, <3>2 DEF Covered
  <2>3. QED BY <2>1, <2>2
<1>14. Refs'
  BY <1>1, <1>4, NoOrphanParts DEF Refs, Owns
<1>15. NoOrphan'
  BY <1>13, <1>14 DEF NoOrphan, Covered, Refs
<1>16. QED BY <1>3, <1>6, <1>7, <1>8, <1>9, <1>10, <1>11, <1>12, <1>15

LEMMA CleansOwned == ASSUME Shapes, Owned, NEW s \in starts, Cleans(s) PROVE Owned'
<1> USE DEF Owned
<1> DEFINE a == s.attempt
<1>1. /\ s.at = "cleaning" /\ a \in Nat \ {0} /\ starts' = starts \ {s}
      /\ open' = {r \in open : r[1] # a} /\ panel'.allowed = panel.allowed
      /\ gate'.next = gate.next
      /\ gate'.pending = IF gate.pending = a THEN 0 ELSE gate.pending
      /\ gate'.active = IF gate.active = a THEN 0 ELSE gate.active
      /\ UNCHANGED <<slots, closing, hasty, ops, loads>>
  BY Plain, GateTyped DEF Cleans, Knows
<1>2. \A k \in SlotIds : slots[k] # a
  BY <1>1 DEF Filled
<1>3. \A c, k : c # a /\ <<c, k>> \in open => <<c, k>> \in open'
  BY <1>1
<1>4. Numbered' /\ Distinct' /\ Filled'
  BY <1>1 DEF Numbered, Distinct, Filled
<1>5. Passed' /\ Devices' /\ Dropped'
  <2>1. Passed' /\ Dropped'
    BY <1>1 DEF Passed, Dropped
  <2>2. Devices'
    BY <1>1, <1>2, <1>3, SlotNames DEF Devices
  <2>3. QED BY <2>1, <2>2
<1>6. Gated' /\ Revoked'
  BY <1>1 DEF Gated, Revoked
<1>7. Halting'
  BY <1>1, SameCalls
<1>8. Carried'
  BY <1>1, <1>2 DEF Carried, Owns, Reaches
<1>9. ASSUME NEW r \in open' PROVE Covered(r)'
  <2>1. r \in open /\ r[1] # a /\ Covered(r)
    BY <1>1, NoOrphanParts
  <2>2. \A t \in starts : t.attempt = r[1] => t \in starts'
    BY <1>1, <2>1
  <2>3. QED BY <1>1, <2>1, <2>2 DEF Covered
<1>10. Refs'
  BY <1>1, <1>2, <1>3, NoOrphanParts DEF Refs, Owns
<1>11. NoOrphan'
  BY <1>9, <1>10 DEF NoOrphan, Covered, Refs
<1>12. QED BY <1>4, <1>5, <1>6, <1>7, <1>8, <1>11

\* No ref holds anything any more.
LEMMA EmptiedOwned ==
  ASSUME Shapes, Owned, \A k \in SlotIds : slots'[k] = 0, open' \subseteq open, UNCHANGED <<starts, ops, hasty>>,
         gate'.next = gate.next, Gated', Revoked', \A a \in closing' : a < gate.next, Dropped',
         \A r \in open' : Covered(r)'
  PROVE  Owned'
<1> USE DEF Owned
<1>1. Numbered' /\ Distinct'
  BY Plain DEF Numbered, Distinct
<1>2. Filled' /\ Carried' /\ Refs'
  BY Plain DEF Filled, Carried, Refs
<1>3. Passed' /\ Devices'
  BY SlotNames DEF Passed, Devices
<1>4. Halting'
  BY SameCalls
<1>5. NoOrphan'
  BY <1>2 DEF NoOrphan, Covered, Refs
<1>6. QED BY <1>1, <1>2, <1>3, <1>4, <1>5

LEMMA FailsOwned == ASSUME Shapes, Owned, NEW a \in Nat \ {0}, Fails(a) PROVE Owned'
<1> USE DEF Owned
<1>1. /\ <<a, Client>> \in open /\ ~AtIt(ops, a, Client) /\ open' = open \ {<<a, Client>>}
      /\ UNCHANGED <<starts, hasty, ops, loads>>
  BY DEF Fails
<1>2. CASE UNCHANGED <<gate, slots, closing, panel>> /\ (gate.active # a \/ slots[Client] # a)
  <2>1. Numbered' /\ Distinct' /\ Filled'
    BY <1>1, <1>2 DEF Numbered, Distinct, Filled
  <2>2. Passed' /\ Devices' /\ Dropped'
    <3>1. Device # Client
      BY SlotNames
    <3>2. QED BY <1>1, <1>2, <3>1 DEF Passed, Devices, Dropped
  <2>3. Gated' /\ Revoked' /\ Carried'
    BY <1>1, <1>2 DEF Gated, Revoked, Carried, Owns, Reaches
  <2>4. Halting'
    BY <1>1, <1>2, SameCalls
  <2>5. \A r \in open' : Covered(r)'
    BY <1>1, <1>2, NoOrphanParts DEF Covered
  <2>6. Refs'
    BY <1>1, <1>2, NoOrphanParts DEF Refs, Owns
  <2>7. NoOrphan'
    BY <2>5, <2>6 DEF NoOrphan, Covered, Refs
  <2>8. QED BY <2>1, <2>2, <2>3, <2>4, <2>7
<1>3. CASE /\ gate.active = a /\ slots[Client] = a /\ Knows(panel)
           /\ \A k \in SlotIds : slots'[k] = IF k = Client \/ a \in Microphones THEN 0 ELSE slots[k]
           /\ \/ a \in Microphones /\ slots[Device] # 0 /\ closing' = closing \cup {a} /\ UNCHANGED gate
              \/ ~(a \in Microphones /\ slots[Device] # 0) /\ gate' = Without(gate, a) /\ UNCHANGED closing
  <2>1. slots[Device] \in {0, a} /\ (slots[Device] # 0 => a \in Microphones) /\ Client \in SlotIds
    BY <1>3, SlotNames, NoOrphanParts DEF Refs, Devices
  <2>2. \A k \in SlotIds : slots'[k] = 0
    BY <1>3, <2>1, SlotNames
  <2>3. /\ gate'.next = gate.next
        /\ gate'.pending \in {0, gate.pending} /\ gate'.active \in {0, gate.active}
        /\ gate'.pending # 0 => gate'.active \in {0, gate'.pending}
    BY <1>3, GateTyped DEF Gated
  <2>4. \A c \in closing' : c < gate.next
    BY <1>3, <2>1 DEF Numbered
  <2>5. \A s \in starts : s.attempt # a
    <3> SUFFICES ASSUME NEW s \in starts, s.attempt = a PROVE FALSE
      OBVIOUS
    <3>1. Client < s.slot /\ s.slot \in SlotIds
      BY <1>3, <2>1, Plain DEF Filled
    <3>2. QED BY <3>1, SlotNames
  <2>6. Dropped'
    <3> SUFFICES ASSUME NEW c \in closing'
                 PROVE  (\A k \in SlotIds : slots'[k] # c) /\ (\A s \in starts : s.attempt # c) /\ <<c, Client>> \notin open'
      BY <1>1 DEF Dropped
    <3>1. c \in closing \/ c = a
      BY <1>3
    <3>2. c # 0
      BY <3>1, Plain
    <3>3. QED BY <1>1, <2>2, <2>5, <3>1, <3>2 DEF Dropped
  <2>7. Gated' /\ Revoked'
    BY <1>1, <1>3, <2>3 DEF Gated, Revoked, Knows
  <2>8. ASSUME NEW r \in open' PROVE Covered(r)'
    <3>1. Covered(r) /\ r = <<r[1], r[2]>> /\ r[1] # 0 /\ r[2] \in SlotIds /\ r # <<a, Client>>
      BY <1>1, Plain, NoOrphanParts
    <3>2. CASE slots[r[2]] = r[1]
      <4>1. r[2] = Device /\ r[1] = a /\ slots[Device] # 0
        BY <1>3, <2>1, <3>1, <3>2, SlotNames
      <4>2. a \in closing'
        BY <1>3, <2>1, <4>1
      <4>3. QED BY <4>1, <4>2 DEF Covered
    <3>3. closing \subseteq closing'
      BY <1>3
    <3>4. QED BY <1>1, <3>1, <3>2, <3>3 DEF Covered
  <2>9. QED BY <1>1, <2>2, <2>3, <2>4, <2>6, <2>7, <2>8, EmptiedOwned
<1>4. QED BY <1>2, <1>3 DEF Fails

LEMMA ShutsOwned == ASSUME Shapes, Owned, NEW a \in closing, Shuts(a) PROVE Owned'
<1> USE DEF Owned
<1>1. /\ closing' = closing \ {a} /\ open' = open \ {<<a, Device>>}
      /\ gate'.next = gate.next
      /\ gate'.pending = IF gate.pending = a THEN 0 ELSE gate.pending
      /\ gate'.active = IF gate.active = a THEN 0 ELSE gate.active
      /\ UNCHANGED <<slots, starts, hasty, ops, loads, panel>>
  BY GateTyped DEF Shuts
<1>2. /\ \A k \in SlotIds : slots[k] # a
      /\ \A s \in starts : s.attempt # a
      /\ <<a, Client>> \notin open
  BY DEF Dropped
<1>3. \A c, k : c # a /\ <<c, k>> \in open => <<c, k>> \in open'
  BY <1>1
<1>4. Numbered' /\ Distinct' /\ Filled' /\ Passed'
  BY <1>1 DEF Numbered, Distinct, Filled, Passed
<1>5. Devices' /\ Dropped'
  BY <1>1, <1>2, <1>3, SlotNames DEF Devices, Dropped
<1>6. Gated' /\ Revoked'
  BY <1>1 DEF Gated, Revoked
<1>7. Halting'
  BY <1>1, SameCalls
<1>8. Carried'
  BY <1>1, <1>2 DEF Carried, Owns, Reaches
<1>9. ASSUME NEW r \in open' PROVE Covered(r)'
  <2>1. r \in open /\ Covered(r) /\ r = <<r[1], r[2]>> /\ r[2] \in SlotIds
    BY <1>1, Plain, NoOrphanParts
  <2>2. r[1] # a
    <3>1. r # <<a, Device>> /\ r # <<a, Client>>
      BY <1>1, <1>2
    <3>2. QED BY <2>1, <3>1, SlotNames
  <2>3. QED BY <1>1, <2>1, <2>2 DEF Covered
<1>10. Refs'
  BY <1>1, <1>2, <1>3, NoOrphanParts DEF Refs, Owns
<1>11. NoOrphan'
  BY <1>9, <1>10 DEF NoOrphan, Covered, Refs
<1>12. QED BY <1>4, <1>5, <1>6, <1>7, <1>8, <1>11

LEMMA BreaksOwned == ASSUME Shapes, Owned, Followed, Breaks PROVE Owned'
<1> USE DEF Owned
<1>1. /\ resuming /\ UNCHANGED <<starts, closing, hasty, ops, loads>> /\ panel'.allowed = panel.allowed
      /\ gate'.next = gate.next /\ gate'.pending = 0 /\ gate'.active = 0
  BY GateTyped DEF Breaks, Knows
<1>2. Gated' /\ Revoked'
  <2>1. Gated'
    BY <1>1 DEF Gated
  <2>2. QED BY <1>1, <2>1 DEF Revoked
<1>3. CASE /\ HoldsCaptions
           /\ \A k \in SlotIds : slots'[k] = IF k = Client THEN 0 ELSE slots[k]
           /\ open' = IF AtIt(ops, slots[Client], Client) THEN open ELSE open \ {<<slots[Client], Client>>}
  <2>1. slots[Client] # 0 /\ slots[Client] \notin Microphones /\ Client \in SlotIds /\ Device \in SlotIds
    BY <1>3, SlotNames DEF HoldsCaptions
  <2>2. slots[Device] = 0
    BY <2>1, NoOrphanParts DEF Refs, Devices
  <2>3. \A k \in SlotIds : slots'[k] = 0
    BY <1>3, <2>2, SlotNames
  <2>4. Dropped' /\ open' \subseteq open
    BY <1>1, <1>3, <2>3, Plain DEF Dropped
  <2>5. ASSUME NEW r \in open' PROVE Covered(r)'
    <3>1. Covered(r) /\ r = <<r[1], r[2]>> /\ r[1] # 0 /\ r[2] \in SlotIds
      BY <2>4, Plain, NoOrphanParts
    <3>2. CASE slots[r[2]] = r[1]
      <4>1. r[2] = Client /\ r = <<slots[Client], Client>>
        BY <2>2, <3>1, <3>2, SlotNames
      <4>2. AtIt(ops, r[1], r[2])
        BY <1>3, <3>2, <4>1
      <4>3. QED BY <1>1, <4>2 DEF Covered
    <3>3. QED BY <1>1, <3>1, <3>2 DEF Covered
  <2>6. \A c \in closing' : c < gate.next
    BY <1>1 DEF Numbered
  <2>7. QED BY <1>1, <1>2, <2>3, <2>4, <2>5, <2>6, EmptiedOwned
<1>4. CASE ~HoldsCaptions /\ UNCHANGED <<slots, open>>
  <2>1. Kept /\ \A new \in ops' : \E old \in ops : Same(new, old)
    BY <1>1 DEF Kept, Same
  <2>2. Carried'
    <3> SUFFICES ASSUME NEW k \in SlotIds, slots[k] # 0, slots[k] \notin hasty
                 PROVE  \E op \in ops : Reaches(op, k)
      BY <1>1, <1>4 DEF Carried
    <3>1. ~Owns(slots[k])
      <4> SUFFICES ASSUME Owns(slots[k]) PROVE FALSE
        OBVIOUS
      <4>1. slots[k] \notin Microphones
        BY <1>1 DEF Followed, Showing
      <4>2. k = Client
        BY <4>1, SlotNames DEF Devices
      <4>3. QED BY <1>4, <4>1, <4>2 DEF HoldsCaptions
    <3>2. QED BY <3>1 DEF Carried
  <2>3. QED BY <1>1, <1>2, <1>4, <2>1, <2>2, CallsOwned
<1>5. QED BY <1>3, <1>4 DEF Breaks

LEMMA OwnedHolds == ASSUME Shapes, Owned, Followed, Next PROVE Owned'
<1>1. CASE StopClicked \/ DeleteClicked \/ ConsentRevoked
  BY <1>1, ClickedHolds, ClickedOwned
<1>2. CASE StartInput
  <2>1. Begins
    BY <1>2, BeginsHolds DEF Owned
  <2>2. QED BY <2>1, BeginsOwned
<1>3. CASE \E s \in starts : StartStep(s)
  <2>1. PICK s \in starts : StartStep(s)
    BY <1>3
  <2>2. Checks(s) \/ Adopts(s) \/ Abandons(s) \/ Cleans(s)
    BY <2>1, ChecksHolds, OpensHolds, CleansHolds DEF StartStep, Owned
  <2>3. QED BY <2>2, ChecksOwned, AdoptsOwned, AbandonsOwned, CleansOwned
<1>4. CASE \E r \in open : ClientFails(r[1])
  BY <1>4, FailsHolds, FailsOwned, Plain
<1>5. CASE \E a \in closing : ClosedAfterFailure(a)
  BY <1>5, ShutsHolds, ShutsOwned
<1>6. CASE ResumeFails
  BY <1>6, BreaksHolds, BreaksOwned
<1>7. QED BY <1>1, <1>2, <1>3, <1>4, <1>5, <1>6, EndingOwned, SavesOwned DEF Next, User

-----------------------------------------------------------------------------
(* What is captured is on the screen *)

\* The attempts at the gate, if any, were disturbed.
LEMMA ExemptFollowed ==
  ASSUME Shapes', \A a \in {gate'.pending, gate'.active} : a = 0 \/ a \in hasty' PROVE Followed'
<1>1. \A s \in starts' : s.attempt # 0
  BY DEF Shapes, Start
<1>2. Following'
  BY <1>1 DEF Following
<1>3. Showing'
  BY DEF Showing, Owns
<1>4. QED BY <1>2, <1>3 DEF Followed

\* Nothing new is at the gate, in a ref or on the screen.
LEMMA SameFollowed ==
  ASSUME Followed, gate'.pending = gate.pending, gate'.active = gate.active, starts' \subseteq starts,
         \A k \in SlotIds : slots'[k] \in {0, slots[k]}, hasty \subseteq hasty', loads' \subseteq loads,
         resuming' => resuming, panel'.id = panel.id, panel'.consent = panel.consent,
         \/ panel'.state = panel.state
         \/ panel.state \in {"listening", "paused"} /\ panel'.state \in {"listening", "paused"}
  PROVE  Followed'
<1>1. Following'
  <2> SUFFICES ASSUME NEW s \in starts', gate'.pending = s.attempt, s.attempt \notin hasty'
               PROVE  /\ loads' = {} /\ ~resuming'
                      /\ s.at = "checking" => ~Busy'
                      /\ s.at # "checking" => /\ panel'.id = s.attempt /\ panel'.consent
                                              /\ panel'.state = IF s.slot = Client THEN "starting" ELSE "requesting"
    BY DEF Following
  <2>1. /\ loads = {} /\ ~resuming
        /\ s.at = "checking" => ~Busy
        /\ s.at # "checking" => /\ panel.id = s.attempt /\ panel.consent
                                /\ panel.state = IF s.slot = Client THEN "starting" ELSE "requesting"
    BY DEF Followed, Following
  <2>2. panel.state \notin {"listening", "paused"}
    BY <2>1 DEF Busy
  <2>3. QED BY <2>1, <2>2 DEF Busy
<1>2. Showing'
  <2> SUFFICES ASSUME NEW k \in SlotIds, slots'[k] # 0, gate'.active = slots'[k], slots'[k] \notin hasty'
               PROVE  /\ panel'.id = slots'[k] /\ panel'.consent /\ Busy' /\ loads' = {}
                      /\ gate'.pending = 0 => panel'.state \in {"listening", "paused"}
                      /\ resuming' => slots'[k] \notin Microphones
    BY DEF Showing, Owns
  <2>1. slots'[k] = slots[k]
    OBVIOUS
  <2>2. /\ panel.id = slots[k] /\ panel.consent /\ Busy /\ loads = {}
        /\ gate.pending = 0 => panel.state \in {"listening", "paused"}
        /\ resuming => slots[k] \notin Microphones
    BY <2>1 DEF Followed, Showing, Owns
  <2>3. QED BY <2>1, <2>2 DEF Busy
<1>3. QED BY <1>1, <1>2 DEF Followed

LEMMA BeginsFollowed == ASSUME Shapes, Shapes', Owned, Begins PROVE Followed'
<1>1. /\ \A k \in SlotIds : slots'[k] = 0
      /\ gate'.pending = gate.next /\ gate'.active = 0 /\ ~Busy /\ UNCHANGED <<loads, resuming>>
      /\ gate.next \in hasty' \/ (loads = {} /\ ~resuming)
  BY DEF Begins
<1>2. CASE gate.next \in hasty'
  BY <1>1, <1>2, ExemptFollowed
<1>3. CASE gate.next \notin hasty'
  <2>1. PICK new \in Start : /\ starts' = starts \cup {new} /\ new.attempt = gate.next /\ new.slot = First(gate.next)
                             /\ \/ new.at = "checking" /\ UNCHANGED panel
                                \/ new.at = "opening" /\ Shown(new)
    BY DEF Begins
  <2>2. \A s \in starts : s.attempt # gate.next
    BY Plain DEF Owned, Numbered
  <2>3. Following'
    <3> SUFFICES ASSUME NEW s \in starts', gate'.pending = s.attempt
                 PROVE  /\ loads' = {} /\ ~resuming'
                        /\ s.at = "checking" => ~Busy'
                        /\ s.at # "checking" => /\ panel'.id = s.attempt /\ panel'.consent
                                                /\ panel'.state = IF s.slot = Client THEN "starting" ELSE "requesting"
      BY DEF Following
    <3>1. s = new
      BY <1>1, <2>1, <2>2
    <3>2. QED BY <1>1, <1>3, <2>1, <3>1 DEF Shown, Busy
  <2>4. Showing'
    BY <1>1 DEF Showing
  <2>5. QED BY <2>3, <2>4 DEF Followed
<1>4. QED BY <1>2, <1>3

LEMMA ChecksFollowed == ASSUME Shapes, Shapes', Owned, Followed, NEW s \in starts, Checks(s) PROVE Followed'
<1>1. s.at = "checking" /\ UNCHANGED <<slots, hasty, loads, resuming>> /\ s.attempt \in Nat \ {0}
  BY Plain DEF Checks
<1>2. \A k \in SlotIds : slots[k] # s.attempt
  BY <1>1 DEF Owned, Filled
<1>3. gate.pending # 0 => gate.active \in {0, gate.pending}
  BY DEF Owned, Gated
<1>4. CASE /\ gate.pending = s.attempt /\ UNCHANGED gate
           /\ \E new \in Start : /\ starts' = (starts \ {s}) \cup {new} /\ new.attempt = s.attempt
                                 /\ new.slot = s.slot /\ new.at = "opening" /\ Shown(new)
  <2>1. CASE s.attempt \in hasty
    BY <1>1, <1>3, <1>4, <2>1, ExemptFollowed
  <2>2. CASE s.attempt \notin hasty
    <3>1. PICK new \in Start : /\ starts' = (starts \ {s}) \cup {new} /\ new.attempt = s.attempt
                               /\ new.slot = s.slot /\ new.at = "opening" /\ Shown(new)
      BY <1>4
    <3>2. \A t \in starts' : t = new \/ (t \in starts /\ t.attempt # s.attempt)
      BY <3>1, ReplacedStart DEF Owned
    <3>3. loads = {} /\ ~resuming /\ ~Busy
      BY <1>1, <1>4, <2>2 DEF Followed, Following
    <3>4. Following'
      BY <1>1, <1>4, <3>1, <3>2, <3>3 DEF Following, Shown
    <3>5. Showing'
      BY <1>1, <1>2, <1>3, <1>4 DEF Showing, Owns
    <3>6. QED BY <3>4, <3>5 DEF Followed
  <2>3. QED BY <2>1, <2>2
<1>5. CASE /\ starts' = starts \ {s} /\ UNCHANGED panel
           /\ gate'.active = gate.active
           /\ gate'.pending = IF gate.pending = s.attempt THEN 0 ELSE gate.pending
  <2>1. CASE gate.pending # s.attempt
    BY <1>1, <1>5, <2>1, SameFollowed
  <2>2. CASE gate.pending = s.attempt
    <3>1. Following'
      BY <1>5, <2>2, Plain DEF Following
    <3>2. Showing'
      BY <1>1, <1>2, <1>3, <1>5, <2>2 DEF Showing, Owns
    <3>3. QED BY <3>1, <3>2 DEF Followed
  <2>3. QED BY <2>1, <2>2
<1>6. QED BY <1>4, <1>5 DEF Checks

LEMMA AdoptsFollowed == ASSUME Shapes, Shapes', Owned, Followed, NEW s \in starts, Adopts(s) PROVE Followed'
<1> DEFINE a == s.attempt
<1>1. /\ s.at = "opening" /\ gate.pending = a /\ a \in Nat \ {0} /\ s.slot \in SlotIds
      /\ \A k \in SlotIds : slots[k] = IF First(a) <= k /\ k < s.slot THEN a ELSE 0
      /\ \A k \in SlotIds : slots'[k] = IF k = s.slot THEN a ELSE slots[k]
      /\ gate'.active = a /\ gate'.pending \in {0, a} /\ UNCHANGED <<hasty, loads, resuming>>
      /\ panel'.id = panel.id /\ panel'.consent = panel.consent
  BY Plain DEF Adopts, Knows
<1>2. CASE a \in hasty
  BY <1>1, <1>2, ExemptFollowed
<1>3. CASE a \notin hasty
  <2>1. /\ loads = {} /\ ~resuming /\ panel.id = a /\ panel.consent
        /\ panel.state = IF s.slot = Client THEN "starting" ELSE "requesting"
    BY <1>1, <1>3 DEF Followed, Following
  <2>2. \A k \in SlotIds : slots'[k] \in {0, a}
    BY <1>1
  <2>3. CASE s.slot = Device
    <3>1. gate'.pending = a /\ panel'.state = Dispatch(panel.state, "permission-granted")
      BY <2>3, SlotNames DEF Adopts
    <3>2. panel'.state = "starting"
      BY <2>1, <2>3, <3>1, SlotNames DEF Dispatch
    <3>3. PICK new \in Start : /\ starts' = (starts \ {s}) \cup {new} /\ new.attempt = s.attempt
                               /\ new.slot = Client /\ new.at = "opening"
      BY <2>3, SlotNames DEF Adopts
    <3>4. \A t \in starts' : t = new \/ (t \in starts /\ t.attempt # s.attempt)
      BY <3>3, ReplacedStart DEF Owned
    <3>5. Following'
      BY <1>1, <2>1, <3>1, <3>2, <3>3, <3>4 DEF Following
    <3>6. Showing'
      BY <1>1, <2>1, <2>2, <3>1, <3>2 DEF Showing, Owns, Busy
    <3>7. QED BY <3>5, <3>6 DEF Followed
  <2>4. CASE s.slot = Client
    <3>1. gate'.pending = 0 /\ starts' = starts \ {s} /\ panel'.state = Dispatch(panel.state, "started")
      BY <2>4, SlotNames DEF Adopts
    <3>2. panel'.state = "listening"
      BY <2>1, <2>4, <3>1 DEF Dispatch
    <3>3. Following'
      BY <3>1, Plain DEF Following
    <3>4. Showing'
      BY <1>1, <2>1, <2>2, <3>1, <3>2 DEF Showing, Owns, Busy
    <3>5. QED BY <3>3, <3>4 DEF Followed
  <2>5. QED BY <1>1, <2>3, <2>4, SlotNames
<1>4. QED BY <1>2, <1>3

LEMMA AbandonsFollowed == ASSUME Shapes, Owned, Followed, NEW s \in starts, Abandons(s) PROVE Followed'
<1>1. /\ s.at = "opening" /\ UNCHANGED <<gate, hasty, loads, resuming, panel>>
      /\ \A k \in SlotIds : slots'[k] \in {0, slots[k]}
  BY DEF Abandons
<1>2. PICK new \in Start : /\ starts' = (starts \ {s}) \cup {new} /\ new.attempt = s.attempt
                           /\ new.slot = s.slot /\ new.at = "cleaning"
  BY DEF Abandons
<1>3. \A t \in starts' : t = new \/ t \in starts
  BY <1>2
<1>4. Following'
  <2> SUFFICES ASSUME NEW t \in starts', gate.pending = t.attempt, t.attempt \notin hasty
               PROVE  /\ loads = {} /\ ~resuming
                      /\ t.at = "checking" => ~Busy
                      /\ t.at # "checking" => /\ panel.id = t.attempt /\ panel.consent
                                              /\ panel.state = IF t.slot = Client THEN "starting" ELSE "requesting"
    BY <1>1 DEF Following, Busy
  <2>1. CASE t \in starts
    BY <2>1 DEF Followed, Following
  <2>2. CASE t = new
    BY <1>1, <1>2, <2>2 DEF Followed, Following
  <2>3. QED BY <1>3, <2>1, <2>2
<1>5. Showing'
  BY <1>1 DEF Followed, Showing, Owns, Busy
<1>6. QED BY <1>4, <1>5 DEF Followed

\* An attempt leaves the gate, or was not there.
LEMMA WithoutFollowed ==
  ASSUME Shapes, Shapes', Owned, Followed, NEW a, a # 0, gate' = Without(gate, a), starts' \subseteq starts,
         UNCHANGED <<slots, hasty, loads, resuming>>, Knows(panel), panel'.state = panel.state \/ Controls(a)
  PROVE  Followed'
<1>1. /\ gate'.pending = IF gate.pending = a THEN 0 ELSE gate.pending
      /\ gate'.active = IF gate.active = a THEN 0 ELSE gate.active
  BY GateTyped
<1>2. CASE Controls(a)
  <2>1. gate'.pending = 0 /\ gate'.active = 0
    BY <1>1, <1>2 DEF Controls, Owned, Gated
  <2>2. QED BY <2>1, ExemptFollowed
<1>3. CASE ~Controls(a)
  <2>1. gate'.pending = gate.pending /\ gate'.active = gate.active
    BY <1>1, <1>3 DEF Controls
  <2>2. QED BY <1>3, <2>1, SameFollowed DEF Knows
<1>4. QED BY <1>2, <1>3

LEMMA FailsFollowed == ASSUME Shapes, Shapes', Owned, Followed, NEW a, a # 0, Fails(a) PROVE Followed'
<1>1. UNCHANGED <<starts, hasty, loads, resuming>>
  BY DEF Fails
<1>2. CASE UNCHANGED <<gate, slots, closing, panel>>
  BY <1>1, <1>2, SameFollowed
<1>3. CASE /\ gate.active = a /\ slots[Client] = a
           /\ \A k \in SlotIds : slots'[k] = IF k = Client \/ a \in Microphones THEN 0 ELSE slots[k]
           /\ gate' = gate \/ gate' = Without(gate, a)
  <2>1. slots[Device] # 0 => slots[Device] = a /\ a \in Microphones
    BY <1>3, SlotNames, NoOrphanParts DEF Owned, Refs, Devices
  <2>2. gate'.pending \in {0, gate.pending} /\ gate'.active \in {0, a}
    BY <1>3, GateTyped
  <2>3. Showing'
    BY <1>3, <2>1, <2>2, SlotNames DEF Showing, Owns
  <2>4. \A s \in starts : s.attempt # a
    <3> SUFFICES ASSUME NEW s \in starts, s.attempt = a PROVE FALSE
      OBVIOUS
    <3>1. Client < s.slot /\ s.slot \in SlotIds
      BY <1>3, SlotNames, Plain DEF Owned, Filled
    <3>2. QED BY <3>1, SlotNames
  <2>5. Following'
    <3> SUFFICES ASSUME NEW s \in starts, gate'.pending = s.attempt PROVE FALSE
      BY <1>1 DEF Following
    <3>1. s.attempt # 0 /\ gate.pending = s.attempt
      BY <2>2, Plain
    <3>2. a \in {0, s.attempt}
      BY <1>3, <3>1 DEF Owned, Gated
    <3>3. QED BY <2>4, <3>2
  <2>6. QED BY <2>3, <2>5 DEF Followed
<1>4. QED BY <1>2, <1>3 DEF Fails

\* A click or a call that goes on: a call is under way, or the gate is empty.
LEMMA CallsFollowed ==
  ASSUME Shapes', Owned, ops # {} \/ (gate'.pending = 0 /\ gate'.active = 0),
         gate' = gate \/ (gate'.pending = 0 /\ gate'.active = 0), UNCHANGED hasty
  PROVE  Followed'
<1>1. \A a \in {gate'.pending, gate'.active} : a = 0 \/ a \in hasty'
  BY DEF Owned, Gated
<1>2. QED BY <1>1, ExemptFollowed

LEMMA LoadingFollowed == ASSUME Shapes, Shapes', Owned, Followed, Loading PROVE Followed'
<1>1. /\ UNCHANGED <<gate, slots, starts, resuming, panel>> /\ hasty' = hasty \cup ({gate.pending} \ {0})
      /\ panel.state \notin {"listening", "paused"}
  BY DEF Loading
<1>2. Following'
  BY <1>1, Plain DEF Following
<1>3. Showing'
  <2> SUFFICES ASSUME NEW k \in SlotIds, slots[k] # 0, gate.active = slots[k], slots[k] \notin hasty' PROVE FALSE
    BY <1>1 DEF Showing, Owns
  <2>1. gate.pending = 0
    BY <1>1 DEF Owned, Gated
  <2>2. QED BY <1>1, <2>1 DEF Followed, Showing, Owns
<1>4. QED BY <1>2, <1>3 DEF Followed

LEMMA SwitchesFollowed == ASSUME Shapes, Owned, Followed, Switches PROVE Followed'
<1>1. /\ UNCHANGED <<gate, slots, starts, hasty, loads>> /\ panel'.id = panel.id /\ panel'.consent = panel.consent
      /\ \/ panel'.state = panel.state
         \/ panel.state \in {"listening", "paused"} /\ panel'.state \in {"listening", "paused"}
  BY DEF Switches
<1>2. CASE resuming' => resuming
  BY <1>1, <1>2, SameFollowed
<1>3. CASE panel.state = "paused" /\ HoldsCaptions /\ UNCHANGED panel
  <2>1. Busy
    BY <1>3 DEF Busy
  <2>2. Following'
    <3> SUFFICES ASSUME NEW s \in starts, gate.pending = s.attempt, s.attempt \notin hasty PROVE FALSE
      BY <1>1 DEF Following
    <3>1. s.at # "checking" => panel.state \in {"starting", "requesting"}
      BY DEF Followed, Following
    <3>2. s.at = "checking" => ~Busy
      BY DEF Followed, Following
    <3>3. QED BY <1>3, <2>1, <3>1, <3>2
  <2>3. Showing'
    <3>1. ASSUME NEW k \in SlotIds, slots[k] # 0 PROVE slots[k] \notin Microphones
      <4>1. slots[Client] # 0 /\ slots[Client] \notin Microphones /\ Client \in SlotIds
        BY <1>3, SlotNames DEF HoldsCaptions
      <4>2. slots[k] = slots[Client]
        BY <3>1, <4>1, NoOrphanParts DEF Owned, Refs
      <4>3. QED BY <4>1, <4>2
    <3>2. QED BY <1>1, <1>3, <3>1 DEF Followed, Showing, Owns, Busy
  <2>4. QED BY <2>2, <2>3 DEF Followed
<1>4. QED BY <1>2, <1>3 DEF Switches

LEMMA EndingFollowed == ASSUME Shapes, Shapes', Owned, \E op \in ops : EndingStep(op) PROVE Followed'
<1>1. PICK op \in ops : EndingStep(op)
  OBVIOUS
<1>2. GoesOn(op) \/ Settles(op) \/ Erases(op) \/ Stops(op)
  BY <1>1, GoesOnHolds, SettlesHolds, ErasesHolds, StopsHolds DEF EndingStep
<1>3. UNCHANGED hasty /\ (gate' = gate \/ (gate'.pending = 0 /\ gate'.active = 0))
  BY <1>2 DEF GoesOn, Settles, Erases, Stops
<1>4. QED BY <1>3, CallsFollowed

LEMMA FollowedHolds == ASSUME Shapes, Shapes', Owned, Followed, Next PROVE Followed'
<1>1. CASE StopClicked \/ DeleteClicked \/ ConsentRevoked
  BY <1>1, ClickedHolds, CallsFollowed DEF Clicked
<1>2. CASE StartInput
  <2>1. Begins
    BY <1>2, BeginsHolds DEF Owned
  <2>2. QED BY <2>1, BeginsFollowed
<1>3. CASE \E s \in starts : StartStep(s)
  <2>1. PICK s \in starts : StartStep(s)
    BY <1>3
  <2>2. Checks(s) \/ Adopts(s) \/ Abandons(s) \/ Cleans(s)
    BY <2>1, ChecksHolds, OpensHolds, CleansHolds DEF StartStep, Owned
  <2>3. CASE Cleans(s)
    <3>1. s.attempt # 0
      BY Plain
    <3>2. QED BY <2>3, <3>1, WithoutFollowed DEF Cleans
  <2>4. QED BY <2>2, <2>3, ChecksFollowed, AdoptsFollowed, AbandonsFollowed
<1>4. CASE \E r \in open : ClientFails(r[1])
  BY <1>4, FailsHolds, FailsFollowed, Plain
<1>5. CASE \E a \in closing : ClosedAfterFailure(a)
  <2>1. PICK a \in closing : Shuts(a)
    BY <1>5, ShutsHolds
  <2>2. a # 0 /\ Knows(panel) /\ panel'.state = panel.state
    BY <2>1, Plain, SilentTyped DEF Shuts, Shapes
  <2>3. QED BY <2>1, <2>2, WithoutFollowed DEF Shuts
<1>6. CASE ResumeFails
  <2>1. gate'.pending = 0 /\ gate'.active = 0
    BY <1>6, BreaksHolds, GateTyped DEF Breaks
  <2>2. QED BY <2>1, ExemptFollowed
<1>7. CASE SaveStep \/ SaveQueued
  <2>1. /\ UNCHANGED <<gate, slots, starts, resuming, hasty, loads>> /\ Knows(panel)
        /\ panel'.state = panel.state
    BY <1>7, SavesHolds, QueuesHolds DEF Saves, Queues
  <2>2. QED BY <2>1, SameFollowed DEF Knows
<1>8. CASE ConsentGiven \/ SaveToggled \/ Pauses \/ Resumes \/ Resumed
  BY <1>8, SwitchesHolds, SwitchesFollowed
<1>9. CASE \E id \in loads : Loaded(id)
  <2>1. loads # {} /\ UNCHANGED <<gate, slots, starts, hasty>>
    BY <1>9, ShowsHolds DEF Shows
  <2>2. QED BY <2>1 DEF Followed, Following, Showing, Owns
<1>10. CASE \E id \in store : LoadClicked(id)
  BY <1>10, LoadingHolds, LoadingFollowed
<1>11. QED BY <1>1, <1>2, <1>3, <1>4, <1>5, <1>6, <1>7, <1>8, <1>9, <1>10, EndingFollowed DEF Next, User

-----------------------------------------------------------------------------
(* What is deleted stays so *)

LEMMA FaithfulCalls == ASSUME Honest, NEW op \in ops PROVE Faithful(op)
  BY DEF Honest, Deleting

\* The session on the screen, the chain and the disk stay as they are.
LEMMA KeptHonest ==
  ASSUME Honest, gate'.next = gate.next, \A s \in starts' : s.at = "checking" => s \in starts,
         panel'.id = panel.id, panel.persisted \/ panel.mayExist => panel'.persisted \/ panel'.mayExist,
         UNCHANGED <<chain, store, deleted>>,
         \A new \in ops' : new.target = panel.id \/ \E old \in ops : new.target = old.target, Deleting'
  PROVE  Honest'
<1>1. Known'
  BY DEF Honest, Known
<1>2. Unused'
  BY DEF Honest, Unused
<1>3. Forgotten'
  BY DEF Honest, Forgotten, DeleteIsHonest
<1>4. QED BY <1>1, <1>2, <1>3 DEF Honest

\* So do the calls.
LEMMA SameHonest ==
  ASSUME Honest, gate'.next = gate.next, \A s \in starts' : s.at = "checking" => s \in starts,
         panel'.id = panel.id, panel.persisted \/ panel.mayExist => panel'.persisted \/ panel'.mayExist,
         panel'.blocked = panel.blocked, UNCHANGED <<chain, store, deleted, ops>>
  PROVE  Honest'
<1>1. Deleting'
  <2> SUFFICES ASSUME NEW op \in ops, op.calm PROVE Faithful(op)'
    BY DEF Deleting, Faithful
  <2>1. Faithful(op)
    BY FaithfulCalls
  <2>2. QED BY <2>1 DEF Faithful
<1>2. QED BY <1>1, KeptHonest

\* A call stays as faithful as it was.
LEMMA StaysFaithful ==
  ASSUME Honest, NEW op \in ops, UNCHANGED <<chain, deleted>>, panel'.id = panel.id, panel.blocked => panel'.blocked
  PROVE  Faithful(op)'
<1>1. Faithful(op)
  BY FaithfulCalls
<1>2. QED BY <1>1 DEF Faithful

LEMMA BeginsHonest == ASSUME Shapes, Owned, Honest, Begins PROVE Honest'
<1>1. /\ gate'.next = gate.next + 1 /\ gate.next \in Nat /\ UNCHANGED <<chain, store, deleted>>
      /\ \A new \in ops' : ~new.calm /\ \E old \in ops : Same(new, old)
  BY Plain DEF Begins, Counted
<1>2. PICK s \in Start : /\ starts' = starts \cup {s} /\ s.attempt = gate.next
                         /\ \/ s.at = "checking" /\ UNCHANGED panel
                            \/ s.at = "opening" /\ Shown(s)
  BY DEF Begins
<1>3. panel'.id \in {panel.id, gate.next} /\ panel.id < gate.next /\ panel.id \in Nat
  BY <1>2, Plain DEF Shown, Honest, Known
<1>4. /\ \A a \in store \cup deleted : a < gate.next /\ a # gate.next
      /\ \A op \in ops : op.target < gate.next /\ op.target # gate.next
      /\ \A i \in DOMAIN chain : chain[i].id < gate.next /\ chain[i].id # gate.next
      /\ \A t \in starts : t.attempt # gate.next
  BY <1>1, Plain DEF Honest, Known, Owned, Numbered
<1>5. \A op \in ops' : \E old \in ops : op.target = old.target
  BY <1>1 DEF Same
<1>6. Known'
  <2>1. \A a \in store \cup deleted : a \in Nat
    BY DEF Shapes, Honest, Forgotten
  <2>2. \A i \in DOMAIN chain : chain[i].id \in Nat
    BY ChainTyped DEF Shapes, Save
  <2>3. \A op \in ops' : op.target < gate.next /\ op.target \in Nat
    BY <1>4, <1>5, Plain
  <2>4. \A a \in Nat : a < gate.next => a < gate.next + 1
    BY <1>1
  <2>5. panel'.id \in Nat /\ panel'.id < gate.next + 1
    BY <1>1, <1>3
  <2>6. QED BY <1>1, <1>4, <2>1, <2>2, <2>3, <2>4, <2>5 DEF Known
<1>7. Unused'
  <2> SUFFICES ASSUME NEW t \in starts', t.at = "checking"
               PROVE  /\ t.attempt \notin deleted \cup store \cup {panel'.id}
                      /\ \A op \in ops' : op.target # t.attempt
                      /\ \A i \in DOMAIN chain : chain[i].id # t.attempt
    BY <1>1 DEF Unused
  <2>1. CASE t \in starts
    BY <1>3, <1>4, <1>5, <2>1 DEF Honest, Unused
  <2>2. CASE t = s
    <3>1. UNCHANGED panel /\ panel.id # gate.next
      BY <1>2, <1>3, <2>2
    <3>2. QED BY <1>2, <1>4, <1>5, <2>2, <3>1
  <2>3. QED BY <1>2, <2>1, <2>2
<1>8. Deleting'
  BY <1>1 DEF Deleting, Faithful
<1>9. Forgotten'
  <2>1. CASE UNCHANGED panel
    BY <1>1, <2>1 DEF Honest, Forgotten, DeleteIsHonest
  <2>2. CASE panel'.id = gate.next
    BY <1>1, <1>4, <2>2 DEF Honest, Forgotten, DeleteIsHonest
  <2>3. QED BY <1>2, <2>1, <2>2 DEF Shown
<1>10. QED BY <1>6, <1>7, <1>8, <1>9 DEF Honest

LEMMA ChecksHonest == ASSUME Shapes, Owned, Honest, NEW s \in starts, Checks(s) PROVE Honest'
<1>1. s.at = "checking" /\ UNCHANGED <<ops, chain, store, deleted>> /\ s.attempt \in Nat \ {0}
  BY Plain DEF Checks
<1>2. CASE /\ starts' = starts \ {s} /\ UNCHANGED panel /\ gate'.next = gate.next
  BY <1>1, <1>2, SameHonest
<1>3. CASE /\ gate.pending = s.attempt /\ UNCHANGED gate
           /\ \E new \in Start : /\ starts' = (starts \ {s}) \cup {new} /\ new.attempt = s.attempt
                                 /\ new.at = "opening" /\ Shown(new)
  <2>1. PICK new \in Start : /\ starts' = (starts \ {s}) \cup {new} /\ new.attempt = s.attempt
                             /\ new.at = "opening" /\ Shown(new)
    BY <1>3
  <2>2. panel'.id = s.attempt
    BY <2>1 DEF Shown
  <2>3. \A op \in ops : ~op.calm
    BY <1>1, <1>3 DEF Owned, Gated
  <2>4. /\ s.attempt \notin deleted \cup store
        /\ \A i \in DOMAIN chain : chain[i].id # s.attempt
    BY <1>1 DEF Honest, Unused
  <2>5. Known'
    BY <1>1, <1>3, <2>2 DEF Honest, Known, Owned, Numbered
  <2>6. Unused'
    <3>1. \A t \in starts' : t.at = "checking" => t \in starts /\ t.attempt # s.attempt
      BY <2>1 DEF Owned, Distinct
    <3>2. QED BY <1>1, <2>2, <3>1 DEF Honest, Unused
  <2>7. Deleting'
    BY <1>1, <2>3 DEF Deleting, Faithful
  <2>8. Forgotten'
    BY <1>1, <2>2, <2>4 DEF Honest, Forgotten, DeleteIsHonest
  <2>9. QED BY <2>5, <2>6, <2>7, <2>8 DEF Honest
<1>4. QED BY <1>2, <1>3 DEF Checks

\* The inputs go on, and nothing is known of the sessions but what was.
LEMMA InputsHonest ==
  ASSUME Shapes, Owned, Honest,
         \/ \E s \in starts : Adopts(s) \/ Abandons(s) \/ Cleans(s)
         \/ \E a : Fails(a) \/ Shuts(a)
         \/ Breaks \/ Switches
  PROVE  Honest'
<1>1. CASE \E s \in starts : Adopts(s) \/ Abandons(s) \/ Cleans(s)
  <2>1. PICK s \in starts : Adopts(s) \/ Abandons(s) \/ Cleans(s)
    BY <1>1
  <2>2. \A t \in starts' : t.at = "checking" => t \in starts
    BY <2>1 DEF Adopts, Abandons, Cleans
  <2>3. gate'.next = gate.next /\ Knows(panel) /\ UNCHANGED <<ops, chain, store, deleted>>
    BY <2>1, GateTyped, SilentTyped DEF Adopts, Abandons, Cleans, Shapes
  <2>4. QED BY <2>2, <2>3, SameHonest DEF Knows
<1>2. CASE (\E a : Fails(a) \/ Shuts(a)) \/ Breaks
  <2>1. gate'.next = gate.next /\ UNCHANGED <<starts, ops, chain, store, deleted>>
    BY <1>2, GateTyped DEF Fails, Shuts, Breaks
  <2>2. Knows(panel)
    BY <1>2, SilentTyped DEF Fails, Shuts, Breaks, Shapes
  <2>3. QED BY <2>1, <2>2, SameHonest DEF Knows
<1>3. CASE Switches
  BY <1>3, SameHonest DEF Switches
<1>4. QED BY <1>1, <1>2, <1>3

LEMMA ClickedHonest == ASSUME Shapes, Honest, Clicked PROVE Honest'
<1>1. /\ gate'.next = gate.next /\ UNCHANGED <<starts, chain, store, deleted>> /\ panel'.id = panel.id
      /\ panel.blocked => panel'.blocked
      /\ panel.persisted \/ panel.mayExist => panel'.persisted \/ panel'.mayExist
  BY DEF Clicked
<1>2. \A op \in ops : Faithful(op)'
  BY <1>1, StaysFaithful
<1>3. CASE ops' = ops
  <2>1. Deleting'
    BY <1>2, <1>3 DEF Deleting
  <2>2. QED BY <1>1, <1>3, <2>1, KeptHonest
<1>4. CASE \E new : /\ ops' = ops \cup {new} /\ Proper(new, SlotIds) /\ new.target = panel.id
                    /\ new.then = "settle" \/ new.at = "settle" => panel'.blocked
  <2>1. PICK new : /\ ops' = ops \cup {new} /\ Proper(new, SlotIds) /\ new.target = panel.id
                   /\ new.then = "settle" \/ new.at = "settle" => panel'.blocked
    BY <1>4
  <2>2. Faithful(new)'
    BY <1>1, <2>1 DEF Faithful, Proper
  <2>3. Deleting'
    BY <1>2, <2>1, <2>2 DEF Deleting
  <2>4. QED BY <1>1, <2>1, <2>3, KeptHonest
<1>5. QED BY <1>3, <1>4 DEF Clicked

LEMMA GoesOnHonest == ASSUME Shapes, Honest, NEW op \in ops, GoesOn(op) \/ Stops(op) PROVE Honest'
<1>1. /\ gate'.next = gate.next /\ UNCHANGED <<starts, chain, store, deleted>> /\ panel'.id = panel.id
      /\ panel.blocked => panel'.blocked
      /\ panel.persisted \/ panel.mayExist => panel'.persisted \/ panel'.mayExist
  BY DEF GoesOn, Stops
<1>2. \A other \in ops : Faithful(other)'
  BY <1>1, StaysFaithful
<1>3. CASE ops' = ops \ {op}
  <2>1. Deleting'
    BY <1>2, <1>3 DEF Deleting
  <2>2. QED BY <1>1, <1>3, <2>1, KeptHonest
<1>4. CASE \E new, refs : /\ ops' = (ops \ {op}) \cup {new} /\ Proper(new, refs)
                          /\ new.target = op.target /\ new.calm = op.calm
                          /\ new.then = "settle" \/ new.at = "settle" => panel'.blocked \/ op.then = "settle"
  <2>1. PICK new, refs : /\ ops' = (ops \ {op}) \cup {new} /\ Proper(new, refs)
                         /\ new.target = op.target /\ new.calm = op.calm
                         /\ new.then = "settle" \/ new.at = "settle" => panel'.blocked \/ op.then = "settle"
    BY <1>4
  <2>2. Faithful(op)
    BY FaithfulCalls
  <2>3. Faithful(new)'
    BY <1>1, <2>1, <2>2 DEF Faithful, Proper
  <2>4. Deleting'
    BY <1>2, <2>1, <2>3 DEF Deleting
  <2>5. QED BY <1>1, <2>1, <2>4, KeptHonest
<1>5. CASE Stops(op)
  <2>1. PICK new : /\ ops' = (ops \ {op}) \cup {new} /\ Proper(new, {Client} \ {op.slot}) /\ Of(new, op)
                   /\ new.at \in {"slot", "drain"}
    BY <1>5 DEF Stops
  <2>2. /\ new.target = op.target /\ new.calm = op.calm
        /\ new.then = "settle" \/ new.at = "settle" => panel'.blocked \/ op.then = "settle"
    BY <2>1 DEF Of
  <2>3. QED BY <1>4, <2>1, <2>2
<1>6. QED BY <1>3, <1>4, <1>5 DEF GoesOn

\* A delete ends: what is verified is forgotten.
LEMMA FinishedHonest ==
  ASSUME Shapes, Owned, Honest, NEW op \in ops, Finish(op, TRUE), UNCHANGED <<gate, starts, chain>>,
         store' \subseteq store, op.calm => chain = <<>> /\ op.target \notin store'
  PROVE  Honest'
<1>1. /\ ops' = ops \ {op} /\ panel' \in Panel /\ panel'.blocked = panel.blocked /\ panel'.id = 0
      /\ deleted' = IF op.calm THEN deleted \cup ({op.target} \ {0}) ELSE deleted
      /\ op \in Call /\ op.target \in Nat /\ op.calm \in BOOLEAN
  BY Plain, FinishTyped
<1>2. \A other \in ops : other.calm = op.calm
  BY DEF Owned, Gated
<1>3. \A i \in DOMAIN chain : chain[i].id # 0
  BY ChainTyped DEF Shapes, Save
<1>4. Known'
  <2>1. \A a \in deleted' : a < gate.next
    BY <1>1 DEF Honest, Known
  <2>2. 0 < gate.next
    BY Plain
  <2>3. QED BY <1>1, <2>1, <2>2 DEF Honest, Known
<1>5. Unused'
  <2>1. \A s \in starts : s.attempt # 0
    BY Plain
  <2>2. \A s \in starts : s.at = "checking" => op.target # s.attempt
    BY DEF Honest, Unused
  <2>3. QED BY <1>1, <2>1, <2>2 DEF Honest, Unused
<1>6. Deleting'
  <2> SUFFICES ASSUME NEW other \in ops, other.calm PROVE Faithful(other)'
    BY <1>1 DEF Deleting, Faithful
  <2>1. Faithful(other) /\ Faithful(op) /\ op.calm
    BY <1>2, FaithfulCalls
  <2>2. other.target # 0 => other.target \in deleted'
    BY <1>1, <2>1 DEF Faithful
  <2>3. QED BY <1>1, <2>1, <2>2 DEF Faithful
<1>7. Forgotten'
  <2>1. deleted' \subseteq Nat \ {0} /\ DeleteIsHonest'
    BY <1>1 DEF Honest, Forgotten, DeleteIsHonest
  <2>2. 0 \notin store' /\ 0 \notin deleted'
    BY <2>1 DEF Shapes
  <2>3. \A i \in DOMAIN chain : chain[i].id \notin deleted'
    <3>1. CASE op.calm
      <4>1. DOMAIN chain = {}
        BY <3>1
      <4>2. QED BY <4>1
    <3>2. CASE ~op.calm
      BY <1>1, <3>2 DEF Honest, Forgotten
    <3>3. QED BY <3>1, <3>2
  <2>4. QED BY <1>1, <1>3, <2>1, <2>2, <2>3 DEF Forgotten
<1>8. QED BY <1>4, <1>5, <1>6, <1>7 DEF Honest

LEMMA SettlesHonest == ASSUME Shapes, Owned, Honest, NEW op \in ops, Settles(op) PROVE Honest'
<1>1. /\ UNCHANGED <<gate, starts, chain, store>> /\ op.at = "settle" /\ op.wait = 0 /\ op \in Call /\ op.target \in Nat
  BY Plain DEF Settles
<1>2. Faithful(op)
  BY FaithfulCalls
<1>3. op.calm => chain = <<>>
  BY <1>1, <1>2, ChainTyped DEF Faithful, Shapes
<1>4. CASE /\ panel.id # 0 /\ UNCHANGED <<panel, deleted>>
           /\ \E new \in Call : /\ ops' = (ops \ {op}) \cup {new} /\ new.target = op.target /\ new.calm = op.calm
                                /\ new.at = "erase" /\ new.input = panel.id
  <2>1. PICK new \in Call : /\ ops' = (ops \ {op}) \cup {new} /\ new.target = op.target /\ new.calm = op.calm
                            /\ new.at = "erase" /\ new.input = panel.id
    BY <1>4
  <2>2. Faithful(new)'
    BY <1>1, <1>2, <1>3, <1>4, <2>1 DEF Faithful
  <2>3. \A other \in ops : Faithful(other)'
    BY <1>1, <1>4, StaysFaithful
  <2>4. Deleting'
    BY <2>1, <2>2, <2>3 DEF Deleting
  <2>5. QED BY <1>1, <1>4, <2>1, <2>4, KeptHonest
<1>5. CASE panel.id = 0 /\ Finish(op, FALSE)
  <2>1. ops' = ops \ {op} /\ panel' = panel /\ deleted' = deleted
    BY <1>1, <1>5, FinishTyped
  <2>2. \A other \in ops : Faithful(other)'
    BY <1>1, <2>1, StaysFaithful
  <2>3. Deleting'
    BY <2>1, <2>2 DEF Deleting
  <2>4. QED BY <1>1, <2>1, <2>3, KeptHonest
<1>6. CASE ~panel.persisted /\ ~panel.mayExist /\ Finish(op, TRUE)
  <2>1. panel.id \notin store /\ 0 \notin store
    BY <1>6 DEF Honest, Forgotten, Shapes
  <2>2. op.calm => op.target \notin store
    BY <1>2, <2>1 DEF Faithful, Honest, Forgotten, DeleteIsHonest
  <2>3. QED BY <1>1, <1>3, <1>6, <2>2, FinishedHonest
<1>7. QED BY <1>4, <1>5, <1>6 DEF Settles

LEMMA ErasesHonest == ASSUME Shapes, Owned, Honest, NEW op \in ops, Erases(op) PROVE Honest'
<1>1. /\ UNCHANGED <<gate, starts, chain>> /\ op.at = "erase" /\ op \in Call
  BY Plain DEF Erases
<1>2. op.calm => chain = <<>> /\ op.input = op.target
  BY <1>1, FaithfulCalls DEF Faithful
<1>3. CASE store' = store \ {op.input} /\ Finish(op, TRUE)
  BY <1>1, <1>2, <1>3, FinishedHonest
<1>4. CASE store' = store /\ Finish(op, FALSE)
  <2>1. ops' = ops \ {op} /\ panel' = panel /\ deleted' = deleted
    BY <1>1, <1>4, FinishTyped
  <2>2. \A other \in ops : Faithful(other)'
    BY <1>1, <2>1, StaysFaithful
  <2>3. Deleting'
    BY <2>1, <2>2 DEF Deleting
  <2>4. QED BY <1>1, <1>4, <2>1, <2>3, KeptHonest
<1>5. QED BY <1>3, <1>4 DEF Erases

LEMMA SavesHonest == ASSUME Shapes, Honest, Saves PROVE Honest'
<1>1. /\ chain # <<>> /\ UNCHANGED <<gate, starts, deleted>> /\ panel'.id = panel.id /\ panel'.blocked = panel.blocked
      /\ panel.persisted \/ panel.mayExist => panel'.persisted \/ panel'.mayExist
      /\ store' = store \/ store' = store \cup {chain[1].id}
  BY DEF Saves, Knows
<1>2. 1 \in DOMAIN chain
  BY <1>1, ChainTyped DEF Shapes
<1>3. \A i \in DOMAIN chain' : \E j \in DOMAIN chain : chain'[i].id = chain[j].id
  BY DEF Saves, Thinner
<1>4. Deleting'
  <2> SUFFICES ASSUME NEW new \in ops', new.calm PROVE Faithful(new)'
    BY DEF Deleting, Faithful
  <2>1. PICK old \in ops : /\ Same(new, old) /\ old.calm
                           /\ old.at = "settle" /\ old.wait = Len(chain) => new.wait = Len(chain')
    BY DEF Saves, Counted
  <2>2. Faithful(old)
    BY FaithfulCalls
  <2>3. QED BY <1>1, <2>1, <2>2 DEF Faithful, Same
<1>5. \A new \in ops' : \E old \in ops : new.target = old.target
  BY DEF Saves, Counted, Same
<1>6. Known'
  BY <1>1, <1>2, <1>3, <1>5 DEF Honest, Known
<1>7. Unused'
  BY <1>1, <1>2, <1>3, <1>5 DEF Honest, Unused
<1>8. Forgotten'
  BY <1>1, <1>2, <1>3 DEF Honest, Forgotten, DeleteIsHonest
<1>9. QED BY <1>4, <1>6, <1>7, <1>8 DEF Honest

LEMMA QueuesHonest == ASSUME Shapes, Honest, Queues PROVE Honest'
<1>1. /\ ~panel.blocked /\ panel.id # 0 /\ panel'.id = panel.id /\ panel'.mayExist
      /\ \A i \in DOMAIN chain' : chain'[i].id = panel.id \/ \E j \in DOMAIN chain : chain'[i].id = chain[j].id
      /\ UNCHANGED <<gate, starts, ops, store, deleted>>
  BY DEF Queues, Knows
<1>2. Deleting'
  <2> SUFFICES ASSUME NEW op \in ops, op.calm PROVE Faithful(op)'
    BY <1>1 DEF Deleting, Faithful
  <2>1. Faithful(op)
    BY FaithfulCalls
  <2>2. QED BY <1>1, <2>1 DEF Faithful
<1>3. Known'
  BY <1>1 DEF Honest, Known
<1>4. Unused'
  BY <1>1 DEF Honest, Unused
<1>5. Forgotten'
  BY <1>1 DEF Honest, Forgotten, DeleteIsHonest
<1>6. QED BY <1>2, <1>3, <1>4, <1>5 DEF Honest

LEMMA ShowsHonest == ASSUME Shapes, Owned, Honest, NEW id \in loads, Shows(id) PROVE Honest'
<1>1. /\ UNCHANGED <<gate, starts, ops, chain, store, deleted>>
      /\ UNCHANGED panel \/ (id \in store /\ panel'.id = id /\ panel'.persisted)
  BY DEF Shows
<1>2. Deleting'
  BY <1>1 DEF Owned, Gated, Deleting, Faithful
<1>3. Known'
  BY <1>1 DEF Honest, Known
<1>4. Unused'
  BY <1>1 DEF Honest, Unused
<1>5. Forgotten'
  BY <1>1 DEF Honest, Forgotten, DeleteIsHonest
<1>6. QED BY <1>2, <1>3, <1>4, <1>5 DEF Honest

LEMMA LoadingHonest == ASSUME Honest, Loading PROVE Honest'
<1>1. /\ UNCHANGED <<gate, starts, panel, chain, store, deleted>> /\ \A new \in ops' : ~new.calm
      /\ \A new \in ops' : \E old \in ops : new.target = old.target
  BY DEF Loading, Counted, Same
<1>2. Deleting'
  BY <1>1 DEF Deleting, Faithful
<1>3. QED BY <1>1, <1>2, KeptHonest

LEMMA HonestHolds == ASSUME Shapes, Owned, Honest, Next PROVE Honest'
<1>1. CASE StopClicked \/ DeleteClicked \/ ConsentRevoked
  BY <1>1, ClickedHolds, ClickedHonest
<1>2. CASE StartInput
  <2>1. Begins
    BY <1>2, BeginsHolds DEF Owned
  <2>2. QED BY <2>1, BeginsHonest
<1>3. CASE \E s \in starts : StartStep(s)
  <2>1. PICK s \in starts : StartStep(s)
    BY <1>3
  <2>2. Checks(s) \/ Adopts(s) \/ Abandons(s) \/ Cleans(s)
    BY <2>1, ChecksHolds, OpensHolds, CleansHolds DEF StartStep, Owned
  <2>3. QED BY <2>2, ChecksHonest, InputsHonest
<1>4. CASE (\E r \in open : ClientFails(r[1])) \/ (\E a \in closing : ClosedAfterFailure(a)) \/ ResumeFails
  <2>1. (\E a : Fails(a) \/ Shuts(a)) \/ Breaks
    BY <1>4, FailsHolds, ShutsHolds, BreaksHolds
  <2>2. QED BY <2>1, InputsHonest
<1>5. CASE ConsentGiven \/ SaveToggled \/ Pauses \/ Resumes \/ Resumed
  <2>1. Switches
    BY <1>5, SwitchesHolds
  <2>2. QED BY <2>1, InputsHonest
<1>6. CASE \E op \in ops : EndingStep(op)
  <2>1. PICK op \in ops : EndingStep(op)
    BY <1>6
  <2>2. GoesOn(op) \/ Settles(op) \/ Erases(op) \/ Stops(op)
    BY <2>1, GoesOnHolds, SettlesHolds, ErasesHolds, StopsHolds DEF EndingStep
  <2>3. QED BY <2>2, GoesOnHonest, SettlesHonest, ErasesHonest
<1>7. CASE SaveStep \/ SaveQueued
  BY <1>7, SavesHolds, SavesHonest, QueuesHolds, QueuesHonest
<1>8. CASE (\E id \in loads : Loaded(id)) \/ (\E id \in store : LoadClicked(id))
  BY <1>8, ShowsHolds, ShowsHonest, LoadingHolds, LoadingHonest
<1>9. QED BY <1>1, <1>2, <1>3, <1>4, <1>5, <1>6, <1>7, <1>8 DEF Next, User

-----------------------------------------------------------------------------
(* The theorems *)

LEMMA InitHolds == ASSUME Init PROVE IInv
<1>1. /\ gate = [next |-> 1, pending |-> 0, active |-> 0] /\ slots = [k \in SlotIds |-> 0]
      /\ open = {} /\ starts = {} /\ closing = {} /\ ops = {} /\ loads = {} /\ chain = <<>>
      /\ store = {} /\ deleted = {} /\ requests = 0
      /\ panel = [state |-> "idle", allowed |-> FALSE, consent |-> FALSE, id |-> 0,
                  blocked |-> FALSE, save |-> FALSE, persisted |-> FALSE, mayExist |-> FALSE]
  BY DEF Init
<1>2. chain \in Seq(Save) /\ DOMAIN chain = {}
  BY <1>1
<1>3. panel \in Panel
  BY <1>1 DEF Panel, SessionStates
<1>4. Shapes
  BY <1>1, <1>2, <1>3 DEF Shapes, Gate
<1>5. \A k \in SlotIds : slots[k] = 0
  BY <1>1
<1>6. Device \in SlotIds
  BY SlotNames
<1>7. Owned
  <2>1. Numbered /\ Distinct /\ Filled /\ Passed /\ Dropped /\ Halting
    BY <1>1, <1>5 DEF Numbered, Distinct, Filled, Passed, Dropped, Halting
  <2>2. Devices /\ Gated /\ Carried /\ Revoked
    BY <1>1, <1>5, <1>6 DEF Devices, Gated, Carried, Revoked
  <2>3. NoOrphan
    BY <1>1, <1>5 DEF NoOrphan
  <2>4. QED BY <2>1, <2>2, <2>3 DEF Owned
<1>8. Followed
  BY <1>1, <1>5 DEF Followed, Following, Showing
<1>9. Honest
  BY <1>1, <1>2 DEF Honest, Known, Unused, Deleting, Forgotten, DeleteIsHonest
<1>10. QED BY <1>4, <1>7, <1>8, <1>9 DEF IInv

LEMMA StutterHolds == ASSUME IInv, UNCHANGED vars PROVE IInv'
<1>1. /\ gate' = gate /\ slots' = slots /\ open' = open /\ starts' = starts /\ closing' = closing
      /\ resuming' = resuming /\ hasty' = hasty
      /\ ops' = ops /\ loads' = loads /\ panel' = panel /\ chain' = chain /\ store' = store
      /\ requests' = requests /\ deleted' = deleted
  BY DEF vars, inputs, calls, saved
<1>2. Shapes'
  BY <1>1 DEF IInv, Shapes
<1>3. Owned'
  <2>1. (Numbered /\ Distinct /\ Filled /\ Passed /\ Devices /\ Dropped)'
    BY <1>1 DEF IInv, Owned, Numbered, Distinct, Filled, Passed, Devices, Dropped
  <2>2. (Gated /\ Halting /\ Revoked)'
    BY <1>1 DEF IInv, Owned, Gated, Halting, Revoked
  <2>3. Carried'
    BY <1>1 DEF IInv, Owned, Carried, Reaches, Owns
  <2>4. NoOrphan'
    BY <1>1 DEF IInv, Owned, NoOrphan, AtIt, Owns
  <2>5. QED BY <2>1, <2>2, <2>3, <2>4 DEF Owned
<1>4. Followed'
  BY <1>1 DEF IInv, Followed, Following, Showing, Owns, Busy
<1>5. Honest'
  <2>1. Deleting'
    BY <1>1 DEF IInv, Honest, Deleting, Faithful
  <2>2. QED BY <1>1, <2>1 DEF IInv, Honest, Known, Unused, Forgotten, DeleteIsHonest
<1>6. QED BY <1>2, <1>3, <1>4, <1>5 DEF IInv

\* The inductive invariant of the panel: who owns what runs, what the screen shows of it,
\* and what a delete under way relies on.
THEOREM Discipline == Spec => []IInv
<1>1. IInv /\ [Next]_vars => IInv'
  BY StutterHolds, ShapesHold, OwnedHolds, FollowedHolds, HonestHolds DEF IInv
<1>2. QED BY InitHolds, <1>1, PTL DEF Spec

\* Nothing keeps recording by accident (capture-panel.tsx, stop, onFailure and the catch
\* blocks): a device or a companion session that runs and that the panel can still close is
\* held by a ref, or its start, its failure handler or a stop is about to close it; an input
\* that was started in the midst of another call apart.
THEOREM NothingLeftRunning == Spec => []NoOrphan
<1>1. IInv => NoOrphan
  BY DEF IInv, Owned
<1>2. QED BY Discipline, <1>1, PTL

\* Revoking the consent (revokeConsent) closes the running input, whatever start, failure
\* or other stop it falls into, as soon as those are over; an input that was started in
\* the midst of another call apart.
THEOREM RevocationStops == Spec => []RevokedStops
<1>1. ASSUME IInv PROVE RevokedStops
  <2> SUFFICES ASSUME ~panel.allowed, starts = {}, closing = {}, ops = {}, NEW r \in open
               PROVE  r[1] \in hasty
    BY DEF RevokedStops
  <2>1. r[1] # 0 /\ r[2] \in SlotIds
    BY <1>1 DEF IInv, Shapes
  <2>2. slots[r[2]] = r[1] \/ r[1] \in hasty
    BY <1>1 DEF IInv, Owned, NoOrphan, AtIt
  <2>3. ASSUME slots[r[2]] = r[1] PROVE r[1] \in hasty
    <3>1. gate.active = 0
      BY <1>1 DEF IInv, Owned, Revoked
    <3>2. QED BY <1>1, <2>1, <2>3, <3>1 DEF IInv, Owned, Carried, Owns
  <2>4. QED BY <2>2, <2>3
<1>2. QED BY Discipline, <1>1, PTL

\* What the gate and the refs call the running input (adoptStartedInput) belongs to the
\* session and to the consent on the screen, which offers its stop control; an input that
\* was started, or had a session loaded over it, in the midst of another call apart.
THEOREM CaptureOnScreen == Spec => []CaptureIsShown
<1>1. ASSUME IInv PROVE CaptureIsShown
  <2> SUFFICES ASSUME NEW a \in Attempts \ hasty, gate.active = a, slots[Client] = a
               PROVE  panel.id = a /\ panel.consent /\ Busy
    BY DEF CaptureIsShown
  <2>1. a # 0 /\ Client \in SlotIds
    BY SlotNames, PanelConstants DEF Attempts
  <2>2. QED BY <1>1, <2>1 DEF IInv, Followed, Showing, Owns
<1>2. QED BY Discipline, <1>1, PTL

\* A session whose deletion the panel reported (deleteCurrent) is not on disk and never
\* gets there again, whatever save was queued or under way when the user asked; a delete
\* in the midst of which an input was started or a session loaded apart.
THEOREM DeletionHolds == Spec => []DeleteIsHonest
<1>1. IInv => DeleteIsHonest
  BY DEF IInv, Honest, Forgotten
<1>2. QED BY Discipline, <1>1, PTL

=============================================================================
