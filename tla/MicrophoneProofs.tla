-------------------------- MODULE MicrophoneProofs --------------------------
(***************************************************************************)
(* Theorems about Microphone, for every size of queue, pipes and ring, any *)
(* number of chunks and any number of faults: the composition implements   *)
(* AudioFeed as long as its client is open, the finals that an answer      *)
(* brings to a listening panel become the finals of the transcript, and    *)
(* queue, ring and pipes stay within their bounds.                         *)
(***************************************************************************)
EXTENDS Microphone, SequenceTheorems, WellFoundedInduction, TLAPS

-----------------------------------------------------------------------------
(* Consecutive numbers *)

\* The numbers from one on, up to the other.
Run(s, from, to) ==
  /\ s \in Seq(Nat) /\ from \in Nat /\ to = from + Len(s)
  /\ \A j \in 1..Len(s) : s[j] = from + j - 1

LEMMA RunType ==
  ASSUME NEW s, NEW a, NEW b, Run(s, a, b)
  PROVE  a \in Nat /\ b \in Nat /\ a <= b /\ Len(s) = b - a
<1>1. Len(s) \in Nat /\ a \in Nat /\ b = a + Len(s)
  BY LenProperties DEF Run
<1>2. QED BY <1>1

\* Nothing is the run that ends where it begins.
LEMMA RunEmpty == ASSUME NEW a \in Nat PROVE Run(<<>>, a, a)
  BY EmptySeq DEF Run

\* A run from 1 on is the sequence of its indices.
LEMMA RunFromOne ==
  ASSUME NEW s, NEW b, Run(s, 1, b) PROVE s = [i \in 1..Len(s) |-> i]
<1>1. s \in Seq(Nat) /\ \A j \in 1..Len(s) : s[j] = 1 + j - 1
  BY DEF Run
<1>2. DOMAIN s = 1..Len(s) /\ Len(s) \in Nat /\ s = [i \in DOMAIN s |-> s[i]]
  BY <1>1, LenProperties
<1>3. \A j \in 1..Len(s) : s[j] = j
  BY <1>1, <1>2
<1>4. QED BY <1>2, <1>3

\* One number after a run continues it.
LEMMA RunAppend ==
  ASSUME NEW s, NEW a, NEW b, Run(s, a, b) PROVE Run(Append(s, b), a, b + 1)
<1>1. s \in Seq(Nat) /\ Len(s) \in Nat /\ a \in Nat /\ b = a + Len(s) /\ b \in Nat
  BY LenProperties DEF Run
<1>2. /\ Append(s, b) \in Seq(Nat) /\ Len(Append(s, b)) = Len(s) + 1
      /\ \A i \in 1..Len(s) : Append(s, b)[i] = s[i]
      /\ Append(s, b)[Len(s) + 1] = b
  BY <1>1, AppendProperties
<1>3. ASSUME NEW j \in 1..Len(s) + 1 PROVE Append(s, b)[j] = a + j - 1
  <2>1. CASE j \in 1..Len(s)
    <3>1. s[j] = a + j - 1
      BY <2>1 DEF Run
    <3>2. QED BY <1>2, <2>1, <3>1
  <2>2. CASE j = Len(s) + 1
    BY <1>1, <1>2, <2>2
  <2>3. QED BY <1>1, <2>1, <2>2
<1>4. QED BY <1>1, <1>2, <1>3 DEF Run

\* What is left of a run without its first number.
LEMMA RunTail ==
  ASSUME NEW s, NEW a, NEW b, Run(s, a, b), s # <<>>
  PROVE  Head(s) = a /\ Run(Tail(s), a + 1, b)
<1>1. s \in Seq(Nat) /\ Len(s) \in Nat /\ a \in Nat /\ b = a + Len(s)
  BY LenProperties DEF Run
<1>2. /\ Tail(s) \in Seq(Nat) /\ Len(Tail(s)) = Len(s) - 1 /\ Len(s) \in Nat \ {0}
      /\ \A i \in 1..Len(Tail(s)) : Tail(s)[i] = s[i + 1]
  BY <1>1, HeadTailProperties, EmptySeq
<1>3. Head(s) = s[1]
  BY <1>1
<1>4. s[1] = a
  BY <1>1, <1>2 DEF Run
<1>5. ASSUME NEW j \in 1..Len(Tail(s)) PROVE Tail(s)[j] = (a + 1) + j - 1
  <2>1. j + 1 \in 1..Len(s)
    BY <1>1, <1>2
  <2>2. s[j + 1] = a + (j + 1) - 1
    BY <2>1 DEF Run
  <2>3. QED BY <1>1, <1>2, <2>2
<1>6. QED BY <1>1, <1>2, <1>3, <1>4, <1>5 DEF Run

-----------------------------------------------------------------------------
(* The inductive invariant *)

Worker == [phase : {"running", "gone", "reaped"}, number : Nat, revision : Nat, heard : Seq(Nat),
           speech : BOOLEAN, blanked : SUBSET Nat]

Mic == [on : BOOLEAN, muted : BOOLEAN, asked : BOOLEAN, next : Nat, port : Seq(Nat)]

Shape ==
  /\ mic \in Mic /\ Len(mic.port) <= 1 /\ (~mic.on => mic.port = <<>>)
  /\ chain \in Seq(Nat) /\ input \in Seq(Nat) /\ worker \in Worker
  /\ post \in {"sent", "writing", "accepted", "refused"} /\ closed \in BOOLEAN

\* A stop is asked for by a client that has closed.
Closing == (stop # "none" => closed) /\ (panel = "draining" => closed)

\* What was heard, what is in the pipe, what is in the chain and not yet in the pipe, and
\* what is in the port continue each other.  After a refusal the chain no longer does: then
\* the client is about to close.
Path(a, b, c) ==
  /\ Run(worker.heard, 1, a) /\ Run(input, a, b)
  /\ post = "sent" => Run(chain, b, c)
  /\ post \in {"writing", "accepted"} => chain # <<>> /\ Run(Tail(chain), b, c)
  /\ mic.on /\ post # "refused" => Run(mic.port, c, mic.next)

InPath == ~closed => \E a, b, c \in Nat : Path(a, b, c)

IInv == Shape /\ Closing /\ InPath

LEMMA InitHolds == Init => IInv
<1> SUFFICES ASSUME Init PROVE IInv
  OBVIOUS
<1>1. <<>> \in Seq(Nat) /\ Len(<<>>) = 0
  BY EmptySeq
<1>2. mic = [on |-> TRUE, muted |-> FALSE, asked |-> FALSE, next |-> 1, port |-> <<>>]
      /\ worker = [phase |-> "running", number |-> 1, revision |-> 0, heard |-> <<>>, speech |-> FALSE,
                   blanked |-> {}]
      /\ chain = <<>> /\ input = <<>> /\ post = "sent" /\ closed = FALSE /\ stop = "none"
      /\ panel = "listening"
  BY DEF Init
<1>3. Shape
  <2>1. mic \in Mic /\ Len(mic.port) <= 1 /\ mic.port = <<>>
    BY <1>1, <1>2 DEF Mic
  <2>2. worker \in Worker
    BY <1>1, <1>2 DEF Worker
  <2>3. QED BY <1>1, <1>2, <2>1, <2>2 DEF Shape
<1>4. Closing
  BY <1>2 DEF Closing
<1>5. Path(1, 1, 1)
  BY <1>2, RunEmpty DEF Path
<1>6. QED BY <1>3, <1>4, <1>5 DEF IInv, InPath

-----------------------------------------------------------------------------
(* The worker *)

\* What the worker makes of a chunk leaves what it heard.
LEMMA FinishingKeeps ==
  ASSUME NEW w \in Worker, NEW o \in Finishing(w)
  PROVE  o.after \in Worker /\ o.after.heard = w.heard
<1>1. Finished(w) \in Worker /\ Finished(w).heard = w.heard
  <2>1. w.number + 1 \in Nat
    BY DEF Worker
  <2>2. QED BY <2>1 DEF Finished, Worker
<1>2. Dropped(w) \in Worker /\ Dropped(w).heard = w.heard
  BY DEF Dropped, Worker
<1>3. o.after \in {Finished(w), Dropped(w)}
  <2>1. o \in {[after |-> Finished(w), says |-> <<Said(w, "final")>>], [after |-> Dropped(w), says |-> <<>>]}
    BY DEF Finishing
  <2>2. QED BY <2>1
<1>4. QED BY <1>1, <1>2, <1>3

LEMMA HearingKeeps ==
  ASSUME NEW w \in Worker, NEW o \in Hearing(w)
  PROVE  o.after \in Worker /\ o.after.heard = w.heard
<1> DEFINE quiet == {[after |-> w, says |-> <<>>]}
           partial == IF w.speech /\ w.revision < MaxRevisions
             THEN {[after |-> [w EXCEPT !.revision = @ + 1], says |-> <<Said(w, "partial")>>]} ELSE {}
<1>1. PICK first \in quiet \cup partial :
        \E end \in {[after |-> first.after, says |-> <<>>]} \cup Finishing(first.after) :
          o = [after |-> end.after, says |-> first.says \o end.says]
  BY DEF Hearing
<1>2. PICK end \in {[after |-> first.after, says |-> <<>>]} \cup Finishing(first.after) :
          o = [after |-> end.after, says |-> first.says \o end.says]
  BY <1>1
<1>3. first.after \in Worker /\ first.after.heard = w.heard
  <2>1. first.after \in {w, [w EXCEPT !.revision = @ + 1]}
    BY <1>1
  <2>2. [w EXCEPT !.revision = @ + 1] \in Worker /\ [w EXCEPT !.revision = @ + 1].heard = w.heard
    BY DEF Worker
  <2>3. QED BY <2>1, <2>2
<1>4. end.after \in Worker /\ end.after.heard = first.after.heard
  <2>1. CASE end = [after |-> first.after, says |-> <<>>]
    BY <1>3, <2>1
  <2>2. CASE end \in Finishing(first.after)
    BY <1>3, <2>2, FinishingKeeps
  <2>3. QED BY <1>2, <2>1, <2>2
<1>5. o.after = end.after
  BY <1>2
<1>6. QED BY <1>3, <1>4, <1>5

LEMMA KilledKeeps ==
  ASSUME worker \in Worker, Killed PROVE worker' \in Worker /\ worker'.heard = worker.heard
  BY DEF Killed, Worker

-----------------------------------------------------------------------------
(* Steps.  Those of the companion and of the worker leave the page alone. *)

\* What the path does not look at may change freely.
LEMMA Elsewhere ==
  ASSUME IInv, UNCHANGED <<mic, chain, post, closed, input>>,
         worker' \in Worker, worker'.heard = worker.heard,
         stop' # "none" => stop # "none" \/ closed, panel' = "draining" => panel = "draining" \/ closed
  PROVE  IInv'
<1>1. Shape'
  BY DEF IInv, Shape
<1>2. Closing'
  BY DEF IInv, Closing
<1>3. InPath'
  BY DEF IInv, InPath, Path
<1>4. QED BY <1>1, <1>2, <1>3 DEF IInv

\* A client that closes promises nothing further.
LEMMA Closes ==
  ASSUME IInv, Shape', closed' PROVE IInv'
  BY DEF IInv, Closing, InPath

\* The client's failure.
LEMMA FailShape ==
  ASSUME IInv, Fail PROVE mic' \in Mic /\ Len(mic'.port) <= 1 /\ (~mic'.on => mic'.port = <<>>) /\ closed'
<1>1. mic' \in {mic, [mic EXCEPT !.on = FALSE, !.port = <<>>]} /\ closed' = TRUE
  BY DEF Fail
<1>2. [mic EXCEPT !.on = FALSE, !.port = <<>>] \in Mic /\ [mic EXCEPT !.on = FALSE, !.port = <<>>].port = <<>>
  BY EmptySeq DEF IInv, Shape, Mic
<1>3. Len(<<>>) = 0
  BY EmptySeq
<1>4. CASE mic' = mic
  BY <1>1, <1>4 DEF IInv, Shape
<1>5. CASE mic' = [mic EXCEPT !.on = FALSE, !.port = <<>>]
  BY <1>1, <1>2, <1>3, <1>5
<1>6. QED BY <1>1, <1>4, <1>5

LEMMA RecordsKeeps == ASSUME IInv, Records, UNCHANGED <<chain, post, closed, stop, panel, worker, input>> PROVE IInv'
<1>1. mic \in Mic /\ mic.port = <<>> /\ mic.on
  BY DEF IInv, Shape, Records
<1>2. mic' = [mic EXCEPT !.port = <<mic.next>>, !.next = mic.next + 1]
  BY DEF Records
<1>3. mic.next + 1 \in Nat /\ <<mic.next>> \in Seq(Nat) /\ Len(<<mic.next>>) = 1
  BY <1>1 DEF Mic
<1>4. mic' \in Mic /\ mic'.port = <<mic.next>> /\ mic'.next = mic.next + 1 /\ mic'.on
  BY <1>1, <1>2, <1>3 DEF Mic
<1>5. Shape'
  BY <1>3, <1>4 DEF IInv, Shape
<1>6. Closing'
  BY DEF IInv, Closing
<1>7. InPath'
  <2> SUFFICES ASSUME ~closed' PROVE \E a, b, c \in Nat : Path(a, b, c)'
    BY DEF InPath
  <2>1. PICK a, b, c \in Nat : Path(a, b, c)
    BY DEF IInv, InPath
  <2>2. CASE post = "refused"
    <3>1. Path(a, b, c)'
      BY <2>1, <2>2 DEF Path
    <3>2. QED BY <3>1
  <2>3. CASE post # "refused"
    <3>1. Run(<<>>, c, mic.next)
      BY <1>1, <2>1, <2>3 DEF Path
    <3>2. Run(Append(<<>>, mic.next), c, mic.next + 1)
      BY <3>1, RunAppend
    <3>3. Append(<<>>, mic.next) = <<mic.next>>
      OBVIOUS
    <3>4. Path(a, b, c)'
      BY <1>4, <2>1, <3>2, <3>3 DEF Path
    <3>5. QED BY <3>4
  <2>4. QED BY <2>2, <2>3
<1>8. QED BY <1>5, <1>6, <1>7 DEF IInv

\* A message to the worklet, or its effect.
LEMMA MicKeeps ==
  ASSUME IInv, mic' \in Mic, mic'.on = mic.on, mic'.port = mic.port, mic'.next = mic.next,
         UNCHANGED <<chain, post, closed, stop, panel, worker, input>>
  PROVE  IInv'
<1>1. Shape'
  BY DEF IInv, Shape
<1>2. Closing'
  BY DEF IInv, Closing
<1>3. InPath'
  BY DEF IInv, InPath, Path
<1>4. QED BY <1>1, <1>2, <1>3 DEF IInv

LEMMA PcmArrivesKeeps == ASSUME IInv, PcmArrives PROVE IInv'
<1>1. CASE Len(chain) = MaxQueued
  <2>1. Fail /\ UNCHANGED <<chain, post, worker, input>>
    BY <1>1 DEF PcmArrives
  <2>2. Shape'
    BY <2>1, FailShape DEF IInv, Shape
  <2>3. QED BY <2>1, <2>2, FailShape, Closes
<1>2. CASE Len(chain) # MaxQueued
  <2> DEFINE x == Head(mic.port)
  <2>1. /\ chain' = Append(chain, x) /\ mic' = [mic EXCEPT !.port = <<>>] /\ mic.port # <<>>
        /\ UNCHANGED <<closed, stop, panel, post, worker, input>> /\ ~closed
    BY <1>2 DEF PcmArrives
  <2>2. mic \in Mic /\ chain \in Seq(Nat) /\ mic.port \in Seq(Nat) /\ Len(mic.port) <= 1
    BY DEF IInv, Shape, Mic
  <2>3. x \in Nat /\ Tail(mic.port) \in Seq(Nat) /\ Len(Tail(mic.port)) = Len(mic.port) - 1
    BY <2>1, <2>2, HeadTailProperties
  <2>4. mic' \in Mic /\ mic'.port = <<>> /\ mic'.on = mic.on /\ mic'.next = mic.next /\ mic.next \in Nat
    BY <2>1, <2>2, EmptySeq DEF Mic
  <2>5. chain' \in Seq(Nat)
    BY <2>1, <2>2, <2>3, AppendProperties
  <2>6. Shape'
    BY <2>1, <2>4, <2>5, EmptySeq DEF IInv, Shape
  <2>7. Closing'
    BY <2>1 DEF IInv, Closing
  <2>8. mic.on
    BY <2>1 DEF IInv, Shape
  <2>9. PICK a, b, c \in Nat : Path(a, b, c)
    BY <2>1 DEF IInv, InPath
  <2>10. CASE post = "refused"
    <3>1. Path(a, b, c)'
      BY <2>1, <2>4, <2>9, <2>10 DEF Path
    <3>2. QED BY <2>6, <2>7, <3>1 DEF IInv, InPath
  <2>11. CASE post # "refused"
    <3>1. Run(mic.port, c, mic.next)
      BY <2>8, <2>9, <2>11 DEF Path
    <3>2. x = c /\ Run(Tail(mic.port), c + 1, mic.next)
      BY <2>1, <3>1, RunTail
    <3>3. mic.next = c + 1
      <4>1. Len(Tail(mic.port)) = mic.next - (c + 1) /\ c + 1 <= mic.next
        BY <3>2, RunType
      <4>2. Len(mic.port) \in Nat
        BY <2>2, LenProperties
      <4>3. QED BY <2>2, <2>3, <2>4, <4>1, <4>2
    <3>4. Run(mic'.port, c + 1, mic'.next)
      BY <2>4, <3>3, RunEmpty
    <3>5. CASE post = "sent"
      <4>1. Run(chain', b, c + 1)
        BY <2>1, <2>9, <3>2, <3>5, RunAppend DEF Path
      <4>2. Path(a, b, c + 1)'
        BY <2>1, <2>9, <3>4, <3>5, <4>1 DEF Path
      <4>3. QED BY <2>6, <2>7, <4>2 DEF IInv, InPath
    <3>6. CASE post \in {"writing", "accepted"}
      <4>1. chain # <<>> /\ Run(Tail(chain), b, c)
        BY <2>9, <3>6 DEF Path
      <4>2. chain' # <<>> /\ Tail(chain') = Append(Tail(chain), x)
        <5>1. Append(chain, x) # <<>>
          BY <2>2, <2>3, AppendProperties
        <5>2. Tail(Append(chain, x)) = Append(Tail(chain), x)
          BY <2>2, <2>3, <4>1, HeadTailAppend
        <5>3. QED BY <2>1, <5>1, <5>2
      <4>3. Run(Tail(chain'), b, c + 1)
        BY <3>2, <4>1, <4>2, RunAppend
      <4>4. Path(a, b, c + 1)'
        BY <2>1, <2>9, <3>4, <3>6, <4>2, <4>3 DEF Path
      <4>5. QED BY <2>6, <2>7, <4>4 DEF IInv, InPath
    <3>7. QED BY <2>11, <3>5, <3>6 DEF IInv, Shape
  <2>12. QED BY <2>10, <2>11
<1>3. QED BY <1>1, <1>2

LEMMA PostReturnsKeeps == ASSUME IInv, PostReturns PROVE IInv'
<1>1. /\ chain # <<>> /\ chain' = Tail(chain) /\ post \in {"accepted", "refused"} /\ post' = "sent"
      /\ UNCHANGED <<worker, input>>
  BY DEF PostReturns
<1>2. chain' \in Seq(Nat)
  BY <1>1, HeadTailProperties DEF IInv, Shape
<1>3. CASE post = "refused"
  <2>1. Fail
    BY <1>3 DEF PostReturns
  <2>2. Shape'
    BY <1>1, <1>2, <2>1, FailShape DEF IInv, Shape
  <2>3. QED BY <2>1, <2>2, FailShape, Closes
<1>4. CASE post = "accepted"
  <2>1. UNCHANGED <<mic, closed, stop, panel>>
    BY <1>4 DEF PostReturns
  <2>2. Shape' /\ Closing'
    BY <1>1, <1>2, <2>1 DEF IInv, Shape, Closing
  <2>3. ASSUME NEW a \in Nat, NEW b \in Nat, NEW c \in Nat, Path(a, b, c) PROVE Path(a, b, c)'
    BY <1>1, <1>4, <2>1, <2>3 DEF Path
  <2>4. QED BY <2>1, <2>2, <2>3 DEF IInv, InPath
<1>5. QED BY <1>1, <1>3, <1>4

LEMMA AudioServedKeeps == ASSUME IInv, AudioServed PROVE IInv'
<1>1. /\ chain # <<>> /\ post = "sent"
      /\ UNCHANGED <<mic, chain, closed, stop, panel, worker>>
  BY DEF AudioServed, page
<1>2. CASE session.paused \/ session.stopped
  <2>1. post' = "refused" /\ input' = input
    BY <1>2 DEF AudioServed
  <2>2. Shape' /\ Closing'
    BY <1>1, <2>1 DEF IInv, Shape, Closing
  <2>3. ASSUME NEW a \in Nat, NEW b \in Nat, NEW c \in Nat, Path(a, b, c) PROVE Path(a, b, c)'
    BY <1>1, <2>1, <2>3 DEF Path
  <2>4. QED BY <1>1, <2>2, <2>3 DEF IInv, InPath
<1>3. CASE ~(session.paused \/ session.stopped)
  <2>1. post' = "writing" /\ input' = Append(input, Head(chain))
    BY <1>3 DEF AudioServed
  <2>2. Head(chain) \in Nat /\ input' \in Seq(Nat)
    BY <1>1, <2>1, HeadTailProperties, AppendProperties DEF IInv, Shape
  <2>3. Shape' /\ Closing'
    BY <1>1, <2>1, <2>2 DEF IInv, Shape, Closing
  <2>4. ASSUME NEW a \in Nat, NEW b \in Nat, NEW c \in Nat, Path(a, b, c) PROVE Path(a, b + 1, c)'
    <3>1. Run(input, a, b) /\ Run(chain, b, c)
      BY <1>1, <2>4 DEF Path
    <3>2. Head(chain) = b /\ Run(Tail(chain), b + 1, c)
      BY <1>1, <3>1, RunTail
    <3>3. Run(input', a, b + 1)
      BY <2>1, <3>1, <3>2, RunAppend
    <3>4. QED BY <1>1, <2>1, <2>4, <3>2, <3>3 DEF Path
  <2>5. QED BY <1>1, <2>3, <2>4 DEF IInv, InPath
<1>4. QED BY <1>2, <1>3

LEMMA ReadsKeeps == ASSUME IInv, Reads, UNCHANGED <<mic, chain, post, closed, stop, panel>> PROVE IInv'
<1> DEFINE x == Head(input)
<1>1. input # <<>> /\ x # Flush /\ input' = Tail(input)
  BY DEF Reads
<1>2. input \in Seq(Nat) /\ x \in Nat /\ input' \in Seq(Nat) /\ worker \in Worker /\ worker.heard \in Seq(Nat)
  BY <1>1, HeadTailProperties DEF IInv, Shape, Worker
<1>3. PICK speech \in {worker.speech, TRUE} :
        \E outcome \in Hearing([worker EXCEPT !.heard = Append(@, x), !.speech = speech]) : Writes(outcome)
  BY DEF Reads
<1> DEFINE w == [worker EXCEPT !.heard = Append(worker.heard, x), !.speech = speech]
<1>4. w \in Worker /\ w.heard = Append(worker.heard, x)
  <2>1. Append(worker.heard, x) \in Seq(Nat) /\ speech \in BOOLEAN
    BY <1>2, AppendProperties DEF Worker
  <2>2. QED BY <1>2, <2>1 DEF Worker
<1>5. PICK outcome \in Hearing(w) : Writes(outcome)
  BY <1>3
<1> HIDE DEF w
<1>6. worker' \in Worker /\ worker'.heard = Append(worker.heard, x)
  BY <1>4, <1>5, HearingKeeps DEF Writes
<1>7. Shape' /\ Closing'
  BY <1>2, <1>6 DEF IInv, Shape, Closing
<1>8. ASSUME NEW a \in Nat, NEW b \in Nat, NEW c \in Nat, Path(a, b, c) PROVE Path(a + 1, b, c)'
  <2>1. Run(worker.heard, 1, a) /\ Run(input, a, b)
    BY <1>8 DEF Path
  <2>2. x = a /\ Run(Tail(input), a + 1, b)
    BY <1>1, <2>1, RunTail
  <2>3. Run(Append(worker.heard, x), 1, a + 1)
    BY <2>1, <2>2, RunAppend
  <2>4. QED BY <1>1, <1>6, <1>8, <2>2, <2>3 DEF Path
<1>9. QED BY <1>7, <1>8 DEF IInv, InPath

\* A flush is read only when the client has closed.
LEMMA FlushesAfterClose == ASSUME IInv, Flushes PROVE closed
<1> SUFFICES ASSUME ~closed PROVE FALSE
  BY DEF IInv, Shape
<1>1. PICK a, b, c \in Nat : Path(a, b, c)
  BY DEF IInv, InPath
<1>2. Run(worker.heard, 1, a) /\ Run(input, a, b) /\ input # <<>> /\ Head(input) = Flush
  BY <1>1 DEF Path, Flushes
<1>3. Head(input) = a /\ 1 <= a
  BY <1>2, RunTail, RunType
<1>4. QED BY <1>2, <1>3 DEF Flush

LEMMA FlushesKeeps == ASSUME IInv, Flushes, UNCHANGED <<mic, chain, post, closed, stop, panel>> PROVE IInv'
<1>1. input # <<>> /\ Head(input) = Flush /\ input' = Tail(input)
  BY DEF Flushes
<1>2. PICK outcome \in Finishing(worker) : Writes([outcome EXCEPT !.after.phase = "gone"])
  BY DEF Flushes
<1>3. worker' \in Worker
  <2>1. outcome.after \in Worker
    BY <1>2, FinishingKeeps DEF IInv, Shape
  <2>2. outcome \in {[after |-> Finished(worker), says |-> <<Said(worker, "final")>>],
                     [after |-> Dropped(worker), says |-> <<>>]}
    BY <1>2 DEF Finishing
  <2>3. worker' = [outcome.after EXCEPT !.phase = "gone"]
    BY <1>2, <2>2 DEF Writes
  <2>4. QED BY <2>1, <2>3 DEF Worker
<1>4. Shape'
  BY <1>1, <1>3, HeadTailProperties DEF IInv, Shape
<1>5. QED BY <1>4, FlushesAfterClose, Closes

\* A refusal or a loss only changes where the request is.
LEMMA RefusedKeeps ==
  ASSUME IInv, post' = "refused", UNCHANGED <<mic, chain, closed, stop, panel, worker, input>> PROVE IInv'
<1>1. Shape' /\ Closing'
  BY DEF IInv, Shape, Closing
<1>2. ASSUME NEW a \in Nat, NEW b \in Nat, NEW c \in Nat, Path(a, b, c) PROVE Path(a, b, c)'
  BY <1>2 DEF Path
<1>3. QED BY <1>1, <1>2 DEF IInv, InPath

LEMMA AudioWrittenKeeps == ASSUME IInv, AudioWritten PROVE IInv'
<1>1. post = "writing" /\ post' = "accepted" /\ UNCHANGED <<mic, chain, closed, stop, panel, worker, input>>
  BY DEF AudioWritten, page
<1>2. Shape' /\ Closing'
  BY <1>1 DEF IInv, Shape, Closing
<1>3. ASSUME NEW a \in Nat, NEW b \in Nat, NEW c \in Nat, Path(a, b, c) PROVE Path(a, b, c)'
  BY <1>1, <1>3 DEF Path
<1>4. QED BY <1>1, <1>2, <1>3 DEF IInv, InPath

\* The user's stop drops what the port holds, and nothing is recorded after it.
LEMMA StopClickedKeeps == ASSUME IInv, StopClicked PROVE IInv'
<1>1. /\ panel' = "stopping" /\ mic' = [mic EXCEPT !.on = FALSE, !.port = <<>>]
      /\ UNCHANGED <<chain, post, closed, stop, worker, input>>
  BY DEF StopClicked
<1>2. mic' \in Mic /\ mic'.port = <<>> /\ mic'.on = FALSE /\ Len(<<>>) = 0
  BY <1>1, EmptySeq DEF IInv, Shape, Mic
<1>3. Shape' /\ Closing'
  BY <1>1, <1>2 DEF IInv, Shape, Closing
<1>4. ASSUME NEW a \in Nat, NEW b \in Nat, NEW c \in Nat, Path(a, b, c) PROVE Path(a, b, c)'
  BY <1>1, <1>2, <1>4 DEF Path
<1>5. QED BY <1>1, <1>3, <1>4 DEF IInv, InPath

LEMMA StopServedKeeps == ASSUME IInv, StopServed PROVE IInv'
<1>1. /\ stop = "sent" /\ input' \in {input, Append(input, Flush)}
      /\ UNCHANGED <<mic, chain, post, closed, panel, worker>>
  BY DEF StopServed, page
<1>2. closed
  BY <1>1 DEF IInv, Closing
<1>3. Append(input, Flush) \in Seq(Nat)
  BY AppendProperties DEF IInv, Shape, Flush
<1>4. Shape'
  BY <1>1, <1>3 DEF IInv, Shape
<1>5. QED BY <1>1, <1>2, <1>4, Closes

-----------------------------------------------------------------------------
(* A step of the whole *)

\* What a step may do to what was heard: add the next chunk, or nothing, as long as the
\* client is open.
Promise ==
  \/ closed /\ closed'
  \/ worker'.heard = worker.heard /\ (closed => closed')
  \/ ~closed /\ ~closed' /\ \E x \in Nat : worker'.heard = Append(worker.heard, x)

LEMMA ReadsPromises == ASSUME IInv, Reads, UNCHANGED closed PROVE Promise
<1> DEFINE x == Head(input)
<1>1. PICK speech \in {worker.speech, TRUE} :
        \E outcome \in Hearing([worker EXCEPT !.heard = Append(@, x), !.speech = speech]) : Writes(outcome)
  BY DEF Reads
<1> DEFINE w == [worker EXCEPT !.heard = Append(worker.heard, x), !.speech = speech]
<1>2. x \in Nat /\ worker \in Worker /\ closed \in BOOLEAN
  BY HeadTailProperties DEF IInv, Shape, Reads
<1>3. w \in Worker /\ w.heard = Append(worker.heard, x)
  <2>1. worker.heard \in Seq(Nat) /\ worker.speech \in BOOLEAN
    BY <1>2 DEF Worker
  <2>2. Append(worker.heard, x) \in Seq(Nat) /\ speech \in BOOLEAN
    BY <1>2, <2>1, AppendProperties
  <2>3. QED BY <1>2, <2>2 DEF Worker
<1>4. PICK outcome \in Hearing(w) : Writes(outcome)
  BY <1>1
<1> HIDE DEF w
<1>5. worker'.heard = Append(worker.heard, x)
  BY <1>3, <1>4, HearingKeeps DEF Writes
<1> HIDE DEF x
<1>6. QED BY <1>2, <1>5 DEF Promise

LEMMA WorkHolds == ASSUME IInv, Work PROVE IInv' /\ Promise
<1> USE DEF Promise
<1>0. closed \in BOOLEAN /\ worker \in Worker
  BY DEF IInv, Shape
<1>1. CASE Worklet
  <2>1. UNCHANGED <<chain, post, closed, stop, panel, worker, input>>
    BY <1>1 DEF Worklet
  <2>2. CASE Records
    BY <1>0, <2>1, <2>2, RecordsKeeps
  <2>3. CASE Mutes
    <3>1. mic' = [mic EXCEPT !.muted = mic.asked]
      BY <2>3 DEF Mutes
    <3>2. mic' \in Mic /\ mic'.on = mic.on /\ mic'.port = mic.port /\ mic'.next = mic.next
      BY <3>1 DEF IInv, Shape, Mic
    <3>3. QED BY <1>0, <2>1, <3>2, MicKeeps
  <2>4. QED BY <1>1, <2>2, <2>3 DEF Worklet
<1>2. CASE PcmArrives
  <2>1. (closed => closed') /\ worker' = worker
    BY <1>0, <1>2 DEF PcmArrives, Fail
  <2>2. QED BY <1>2, <2>1, PcmArrivesKeeps
<1>3. CASE Sending
  <2>1. CASE AudioServed
    BY <1>0, <2>1, AudioServedKeeps DEF AudioServed, page
  <2>2. CASE AudioWritten
    BY <1>0, <2>2, AudioWrittenKeeps DEF AudioWritten, page
  <2>3. CASE AudioBroken
    BY <1>0, <2>3, RefusedKeeps DEF AudioBroken, page
  <2>4. CASE PostReturns
    <3>1. (closed => closed') /\ worker' = worker
      BY <1>0, <2>4 DEF PostReturns, Fail
    <3>2. QED BY <2>4, <3>1, PostReturnsKeeps
  <2>5. QED BY <1>3, <2>1, <2>2, <2>3, <2>4 DEF Sending
<1>4. CASE PollSends \/ PollServed
  BY <1>0, <1>4, Elsewhere DEF PollSends, PollServed, page
<1>5. CASE PollReturns
  <2>1. UNCHANGED <<chain, post, input, worker>>
    BY <1>5 DEF PollReturns
  <2>2. CASE Fail
    <3>1. Shape'
      BY <2>1, <2>2, FailShape DEF IInv, Shape
    <3>2. QED BY <1>0, <2>1, <2>2, <3>1, FailShape, Closes
  <2>3. CASE UNCHANGED <<mic, closed, stop, panel>>
    BY <1>0, <2>1, <2>3, Elsewhere
  <2>4. QED BY <1>5, <2>2, <2>3 DEF PollReturns
<1>6. CASE Asks("pause") \/ Asks("resume")
  <2>1. PICK kind \in {"pause", "resume"} : Asks(kind)
    BY <1>6
  <2>2. mic' = [mic EXCEPT !.asked = (kind = "pause")] /\ UNCHANGED <<chain, post, closed, stop, panel, worker, input>>
    BY <2>1 DEF Asks
  <2>3. mic' \in Mic /\ mic'.on = mic.on /\ mic'.port = mic.port /\ mic'.next = mic.next
    BY <2>2 DEF IInv, Shape, Mic
  <2>4. QED BY <1>0, <2>2, <2>3, MicKeeps
<1>7. CASE ControlServed
  BY <1>0, <1>7, Elsewhere DEF ControlServed
<1>8. CASE ControlReturns
  BY <1>0, <1>8, Elsewhere DEF ControlReturns, PanelMoves
<1>9. CASE StopClicked
  BY <1>0, <1>9, StopClickedKeeps DEF StopClicked
<1>10. CASE ClientStops
  <2>1. UNCHANGED <<mic, chain, post, worker, input>> /\ closed' = TRUE
    BY <1>10 DEF ClientStops
  <2>2. Shape'
    BY <2>1 DEF IInv, Shape
  <2>3. QED BY <2>1, <2>2, Closes
<1>11. CASE StopSends
  <2>1. UNCHANGED <<mic, chain, post, closed, worker, input>> /\ closed
    BY <1>11 DEF StopSends, IInv, Closing
  <2>2. Shape'
    BY <2>1 DEF IInv, Shape
  <2>3. QED BY <1>0, <2>1, <2>2, Closes
<1>12. CASE StopServed
  BY <1>0, <1>12, StopServedKeeps DEF StopServed, page
<1>13. CASE KillTimer
  BY <1>0, <1>13, KilledKeeps, Elsewhere DEF KillTimer, page
<1>14. CASE Data
  <2>1. UNCHANGED <<mic, chain, post, closed, stop, panel, input>> /\ (Killed \/ worker' = worker)
    BY <1>14 DEF Data, Parsed, page
  <2>2. worker' \in Worker /\ worker'.heard = worker.heard
    BY <1>0, <2>1, KilledKeeps
  <2>3. QED BY <1>0, <2>1, <2>2, Elsewhere
<1>15. CASE ExitSeen
  <2>1. UNCHANGED <<mic, chain, post, closed, stop, panel, input>> /\ worker' = [worker EXCEPT !.phase = "reaped"]
    BY <1>15 DEF ExitSeen, page
  <2>2. worker' \in Worker /\ worker'.heard = worker.heard
    BY <1>0, <2>1 DEF Worker
  <2>3. QED BY <1>0, <2>1, <2>2, Elsewhere
<1>16. CASE WorkerStep
  <2>1. UNCHANGED <<mic, chain, post, closed, stop, panel>>
    BY <1>16 DEF WorkerStep, page
  <2>2. CASE Reads
    BY <2>1, <2>2, ReadsKeeps, ReadsPromises
  <2>3. CASE Flushes
    <3>1. IInv'
      BY <2>1, <2>3, FlushesKeeps
    <3>2. closed /\ closed'
      BY <2>1, <2>3, FlushesAfterClose
    <3>3. QED BY <3>1, <3>2
  <2>4. QED BY <1>16, <2>2, <2>3 DEF WorkerStep
<1>17. QED
  BY <1>1, <1>2, <1>3, <1>4, <1>5, <1>6, <1>7, <1>8, <1>9, <1>10, <1>11, <1>12, <1>13, <1>14, <1>15, <1>16 DEF Work

LEMMA FaultHolds == ASSUME IInv, Fault PROVE IInv' /\ Promise
<1> USE DEF Promise
<1>0. closed \in BOOLEAN /\ worker \in Worker
  BY DEF IInv, Shape
<1>1. CASE PostLost
  BY <1>0, <1>1, RefusedKeeps DEF PostLost, page
<1>2. CASE PollFails
  <2>1. Fail /\ UNCHANGED <<chain, post, input, worker>>
    BY <1>2 DEF PollFails
  <2>2. Shape'
    BY <2>1, FailShape DEF IInv, Shape
  <2>3. QED BY <1>0, <2>1, <2>2, FailShape, Closes
<1>3. CASE ControlLost
  BY <1>0, <1>3, Elsewhere DEF ControlLost, PanelMoves
<1>4. CASE StopLost
  BY <1>0, <1>4, Elsewhere DEF StopLost, page
<1>5. CASE (Crashes \/ Babbles) /\ UNCHANGED <<page, post, stop, poll, session>>
  <2>1. UNCHANGED <<mic, chain, post, closed, stop, panel, input>> /\ (Killed \/ worker' = worker)
    BY <1>5 DEF Crashes, Babbles, page
  <2>2. worker' \in Worker /\ worker'.heard = worker.heard
    BY <1>0, <2>1, KilledKeeps
  <2>3. QED BY <1>0, <2>1, <2>2, Elsewhere
<1>6. QED BY <1>1, <1>2, <1>3, <1>4, <1>5 DEF Fault

LEMMA StepHolds == ASSUME IInv, [Next]_vars PROVE IInv' /\ Promise
<1>1. CASE Work
  BY <1>1, WorkHolds
<1>2. CASE Fault
  BY <1>2, FaultHolds
<1>3. CASE UNCHANGED vars
  BY <1>3, Elsewhere DEF vars, Promise, IInv, Shape
<1>4. QED BY <1>1, <1>2, <1>3 DEF Next

\* The inductive invariant: while the client is open, no chunk is missing between the
\* worklet and the worker.
THEOREM NothingMissing == Spec => []IInv
<1>1. Init => IInv
  BY InitHolds
<1>2. IInv /\ [Next]_vars => IInv'
  BY StepHolds
<1>3. QED BY <1>1, <1>2, PTL DEF Spec

-----------------------------------------------------------------------------
(* The refinement *)

LEMMA StepImplements ==
  ASSUME IInv, IInv', Promise PROVE [Feed!Next]_<<worker.heard, closed>>
<1>1. closed \in BOOLEAN /\ closed' \in BOOLEAN /\ worker.heard \in Seq(Nat)
  BY DEF IInv, Shape, Worker
<1>2. CASE closed /\ closed'
  BY <1>2 DEF Feed!Next, Feed!GivenUp
<1>3. CASE worker'.heard = worker.heard /\ (closed => closed')
  <2>1. CASE closed' = closed
    BY <1>3, <2>1
  <2>2. CASE ~closed /\ closed'
    BY <1>3, <2>2 DEF Feed!Next, Feed!End
  <2>3. QED BY <1>1, <1>3, <2>1, <2>2
<1>4. CASE ~closed /\ ~closed' /\ \E x \in Nat : worker'.heard = Append(worker.heard, x)
  <2>1. Len(worker'.heard) = Len(worker.heard) + 1 /\ Len(worker.heard) \in Nat
    BY <1>1, <1>4, AppendProperties, LenProperties
  <2>2. Len(worker'.heard) > Len(worker.heard) /\ (Len(worker'.heard) - Len(worker.heard)) % 1 = 0
    BY <2>1
  <2>3. worker'.heard = [i \in 1..Len(worker'.heard) |-> i]
    <3>1. PICK a, b, c \in Nat : Path(a, b, c)'
      BY <1>4 DEF IInv, InPath
    <3>2. QED BY <3>1, RunFromOne DEF Path
  <2>4. QED BY <1>1, <1>4, <2>2, <2>3 DEF Feed!Next, Feed!Hear
<1>5. QED BY <1>1, <1>2, <1>3, <1>4 DEF Promise

\* The composition of worklet, client, route and worker implements AudioFeed: every chunk
\* the worker reads while the client is open is the next one of the worklet.
THEOREM HeardInOrder == Spec => InOrder
<1>1. Init => Feed!Init
  BY DEF Init, Feed!Init
<1>2. IInv /\ IInv' /\ [Next]_vars => [Feed!Next]_<<worker.heard, closed>>
  BY StepHolds, StepImplements
<1>3. QED BY <1>1, <1>2, NothingMissing, PTL DEF Spec, InOrder, Feed!Spec

-----------------------------------------------------------------------------
(* What the worker says, on its way to the transcript *)

\* Garbage has no number.
Voiced == {e \in Event : e.id # 0 <=> e.phase \in {"partial", "final"}}

\* What the companion keeps of it.
Listed == {e \in Voiced : e.phase # "garbled"}

\* The revisions of an utterance increase, and its final is the last of it: except of the
\* numbers in B, which more than one utterance has had.
Before(B, e, f) == e.id = f.id /\ e.id # 0 /\ e.id \notin B => e.phase = "partial" /\ e.revision < f.revision

Rising(B, s) == \A i, j \in DOMAIN s : i < j => Before(B, s[i], s[j])

Members(s) == {s[i] : i \in DOMAIN s}

Ahead(B, A, C) == \A e \in A, f \in C : Before(B, e, f)

\* What a transcript holds, as events.
Had(map) == {[phase |-> map[id].phase, id |-> id, revision |-> map[id].revision, text |-> map[id].text] :
               id \in DOMAIN map}

\* What the answers so far have not told of the ring.
Rest == {session.ring[i] : i \in session.told + 1..Len(session.ring)}

\* What a worker may have said already.
SaidBy(w, e) ==
  /\ e.id <= w.number
  /\ e.id = w.number /\ e.id \notin w.blanked => e.phase = "partial" /\ e.revision <= w.revision

Session == [paused : BOOLEAN, stopped : BOOLEAN, ring : Seq(Listed), told : Nat, timer : BOOLEAN]

Poll == [phase : {"idle", "asked", "answered", "lost"}, events : Seq(Listed), stopped : BOOLEAN]

Spoke == worker \in Worker /\ worker.number # 0

\* An answer under way is of what the ring held; none, and nothing was told.
Answers ==
  /\ poll.phase \in {"idle", "asked"} => session.told = 0
  /\ poll.phase # "answered" => poll.events = <<>>
  /\ session.told <= Len(session.ring)

Kinds ==
  /\ Spoke /\ output \in Seq(Voiced) /\ session \in Session /\ poll \in Poll /\ Answers
  /\ Had(transcript) \subseteq {e \in Voiced : e.id # 0}

\* Whatever was said comes before what the worker will say.
Past ==
  \A e \in Had(transcript) \cup Members(poll.events) \cup Members(session.ring) \cup Members(output) :
    SaidBy(worker, e)

\* The transcript, the answer under way, what waits in the ring, and the pipe, in turn.
InTurn ==
  /\ Kinds /\ Past
  /\ Rising(worker.blanked, output) /\ Rising(worker.blanked, session.ring) /\ Rising(worker.blanked, poll.events)
  /\ Ahead(worker.blanked, Had(transcript), Members(poll.events) \cup Rest \cup Members(output))
  /\ Ahead(worker.blanked, Members(poll.events), Rest \cup Members(output))
  /\ Ahead(worker.blanked, Members(session.ring), Members(output))

LEMMA NothingInTurn == Members(<<>>) = {} /\ (\A B : Rising(B, <<>>)) /\ Had(Empty) = {}
  BY DEF Members, Rising, Had, Empty

LEMMA MembersOf == ASSUME NEW S, NEW s \in Seq(S) PROVE Members(s) \subseteq S /\ Members(s) = {s[i] : i \in 1..Len(s)}
  BY LenProperties, ElementOfSeq DEF Members

LEMMA FewerInTurn ==
  ASSUME NEW B, NEW C, B \subseteq C
  PROVE  /\ \A s : Rising(B, s) => Rising(C, s)
         /\ \A X, Y : Ahead(B, X, Y) => Ahead(C, X, Y)
<1>1. \A e, f : Before(B, e, f) => Before(C, e, f)
  BY DEF Before
<1>2. QED BY <1>1 DEF Rising, Ahead

LEMMA AppendedInTurn ==
  ASSUME NEW B, NEW S, NEW s \in Seq(S), NEW e \in S
  PROVE  /\ Members(Append(s, e)) = Members(s) \cup {e}
         /\ Rising(B, s) /\ Ahead(B, Members(s), {e}) => Rising(B, Append(s, e))
<1>1. /\ DOMAIN s = 1..Len(s) /\ Len(s) \in Nat /\ DOMAIN Append(s, e) = 1..Len(s) + 1
      /\ \A i \in 1..Len(s) : Append(s, e)[i] = s[i]
      /\ Append(s, e)[Len(s) + 1] = e
  BY AppendProperties, LenProperties
<1>2. 1..Len(s) + 1 = 1..Len(s) \cup {Len(s) + 1}
  BY <1>1
<1>3. Members(Append(s, e)) = Members(s) \cup {e}
  <2>1. Members(Append(s, e)) \subseteq Members(s) \cup {e}
    BY <1>1, <1>2 DEF Members
  <2>2. \A i \in 1..Len(s) : i \in 1..Len(s) + 1
    BY <1>2
  <2>3. Members(s) \subseteq Members(Append(s, e))
    BY <1>1, <2>2 DEF Members
  <2>4. e \in Members(Append(s, e))
    <3>1. Len(s) + 1 \in 1..Len(s) + 1
      BY <1>1
    <3>2. QED BY <1>1, <3>1 DEF Members
  <2>5. QED BY <2>1, <2>3, <2>4
<1>4. ASSUME Rising(B, s), Ahead(B, Members(s), {e}) PROVE Rising(B, Append(s, e))
  <2> SUFFICES ASSUME NEW i \in 1..Len(s) + 1, NEW j \in 1..Len(s) + 1, i < j
               PROVE  Before(B, Append(s, e)[i], Append(s, e)[j])
    BY <1>1 DEF Rising
  <2>1. i \in 1..Len(s) /\ Append(s, e)[i] = s[i]
    BY <1>1
  <2>2. CASE j = Len(s) + 1
    BY <1>1, <1>4, <2>1, <2>2 DEF Ahead, Members
  <2>3. CASE j # Len(s) + 1
    <3>1. j \in 1..Len(s) /\ Append(s, e)[j] = s[j]
      BY <1>1, <2>3
    <3>2. QED BY <1>1, <1>4, <2>1, <3>1 DEF Rising
  <2>4. QED BY <2>2, <2>3
<1>5. QED BY <1>3, <1>4

LEMMA TailInTurn ==
  ASSUME NEW B, NEW S, NEW s \in Seq(S), s # <<>>
  PROVE  /\ Tail(s) \in Seq(S) /\ Head(s) \in S /\ Head(s) \in Members(s) /\ Members(Tail(s)) \subseteq Members(s)
         /\ Rising(B, s) => Rising(B, Tail(s)) /\ Ahead(B, {Head(s)}, Members(Tail(s)))
<1>1. /\ DOMAIN s = 1..Len(s) /\ Len(s) \in Nat \ {0} /\ Tail(s) \in Seq(S) /\ Len(Tail(s)) = Len(s) - 1
      /\ Head(s) \in S /\ Head(s) = s[1]
      /\ \A i \in 1..Len(Tail(s)) : Tail(s)[i] = s[i + 1]
  BY HeadTailProperties, LenProperties, EmptySeq
<1>2. DOMAIN Tail(s) = 1..Len(s) - 1
  BY <1>1, LenProperties
<1>3. \A i \in 1..Len(s) - 1 : i + 1 \in 1..Len(s) /\ 1 < i + 1 /\ Tail(s)[i] = s[i + 1]
  BY <1>1
<1>4. 1 \in 1..Len(s)
  BY <1>1
<1>5. Head(s) \in Members(s) /\ Members(Tail(s)) \subseteq Members(s)
  BY <1>1, <1>2, <1>3, <1>4 DEF Members
<1>6. ASSUME Rising(B, s) PROVE Rising(B, Tail(s)) /\ Ahead(B, {Head(s)}, Members(Tail(s)))
  <2>1. \A i, j \in 1..Len(s) - 1 : i < j => i + 1 < j + 1
    BY <1>1
  <2>2. Rising(B, Tail(s))
    BY <1>1, <1>2, <1>3, <1>6, <2>1 DEF Rising
  <2>3. Ahead(B, {Head(s)}, Members(Tail(s)))
    BY <1>1, <1>2, <1>3, <1>4, <1>6 DEF Rising, Ahead, Members
  <2>4. QED BY <2>2, <2>3
<1>7. QED BY <1>1, <1>5, <1>6

\* What is left of the ring when an answer has been handled.
LEMMA RestInTurn ==
  ASSUME NEW B, NEW S, NEW s \in Seq(S), NEW k \in Nat
  PROVE  LET t == SubSeq(s, k + 1, Len(s))
         IN t \in Seq(S) /\ Members(t) = {s[i] : i \in k + 1..Len(s)} /\ (Rising(B, s) => Rising(B, t))
<1> DEFINE t == SubSeq(s, k + 1, Len(s))
<1>1. DOMAIN s = 1..Len(s) /\ Len(s) \in Nat
  BY LenProperties
<1>0. (\A i \in k + 1..Len(s) : s[i] \in S) /\ k + 1 \in Int /\ Len(s) \in Int
  <2>1. \A i \in k + 1..Len(s) : i \in 1..Len(s)
    BY <1>1
  <2>2. QED BY <1>1, <2>1, ElementOfSeq
<1>2. t \in Seq(S)
  BY <1>0, <1>1, SubSeqProperties
<1>3. CASE k >= Len(s)
  <2>1. t = <<>>
    <3>1. Len(s) < k + 1
      BY <1>1, <1>3
    <3>2. QED BY <1>0, <3>1, SubSeqEmpty
  <2>2. k + 1..Len(s) = {}
    BY <1>1, <1>3
  <2> HIDE DEF t
  <2>3. Members(t) = {} /\ Rising(B, t)
    BY <2>1, NothingInTurn
  <2>4. QED BY <1>2, <2>2, <2>3 DEF t
<1>4. CASE k < Len(s)
  <2>1. Len(t) = Len(s) - k /\ \A i \in 1..Len(s) - k : t[i] = s[k + i]
    <3>1. Len(t) = Len(s) - (k + 1) + 1 /\ \A i \in 1..Len(s) - (k + 1) + 1 : t[i] = s[k + 1 + i - 1]
      <4>1. k + 1 <= Len(s)
        BY <1>1, <1>4
      <4>2. QED BY <1>0, <4>1, SubSeqProperties
    <3> HIDE DEF t
    <3>2. Len(s) - (k + 1) + 1 = Len(s) - k /\ \A i \in 1..Len(s) - k : k + 1 + i - 1 = k + i
      BY <1>1
    <3>3. QED BY <3>1, <3>2
  <2> HIDE DEF t
  <2>2. DOMAIN t = 1..Len(s) - k
    BY <1>2, <2>1, LenProperties
  <2>3. \A i \in 1..Len(s) - k : k + i \in k + 1..Len(s) /\ k + i \in 1..Len(s)
    BY <1>1
  <2>4. \A j \in k + 1..Len(s) : j - k \in 1..Len(s) - k /\ k + (j - k) = j
    BY <1>1
  <2>5. Members(t) \subseteq {s[i] : i \in k + 1..Len(s)}
    BY <2>1, <2>2, <2>3 DEF Members
  <2>6. {s[i] : i \in k + 1..Len(s)} \subseteq Members(t)
    <3> SUFFICES ASSUME NEW j \in k + 1..Len(s) PROVE s[j] \in Members(t)
      OBVIOUS
    <3>1. t[j - k] = s[j] /\ j - k \in DOMAIN t
      BY <2>1, <2>2, <2>4
    <3>2. QED BY <3>1 DEF Members
  <2>7. ASSUME Rising(B, s) PROVE Rising(B, t)
    <3>1. \A i, j \in 1..Len(s) - k : i < j => k + i < k + j
      BY <1>1
    <3>2. QED BY <1>1, <2>1, <2>2, <2>3, <2>7, <3>1 DEF Rising
  <2>8. QED BY <1>2, <2>5, <2>6, <2>7 DEF t
<1>5. QED BY <1>1, <1>3, <1>4

LEMMA Pieces ==
  ASSUME NEW S, NEW e \in S, NEW f \in S
  PROVE  <<>> \o <<>> = <<>> /\ <<e>> \o <<>> = <<e>> /\ <<>> \o <<f>> = <<f>> /\ <<e>> \o <<f>> = <<e, f>>
<1>1. <<>> \in Seq(S) /\ <<e>> \in Seq(S) /\ <<f>> \in Seq(S) /\ <<e, f>> \in Seq(S)
  OBVIOUS
<1>2. Append(<<e>>, f) = <<e, f>>
  <2>1. Len(<<e>>) = 1 /\ <<e>>[1] = e /\ Len(<<e, f>>) = 2 /\ <<e, f>>[1] = e /\ <<e, f>>[2] = f
    OBVIOUS
  <2>2. /\ Append(<<e>>, f) \in Seq(S) /\ Len(Append(<<e>>, f)) = 2
        /\ Append(<<e>>, f)[1] = e /\ Append(<<e>>, f)[2] = f
    BY <1>1, <2>1, AppendProperties
  <2>3. \A i \in 1..2 : i = 1 \/ i = 2
    OBVIOUS
  <2>4. \A i \in 1..2 : Append(<<e>>, f)[i] = <<e, f>>[i]
    BY <2>1, <2>2, <2>3
  <2>5. QED BY <1>1, <2>1, <2>2, <2>4, SeqEqual
<1>3. QED BY <1>1, <1>2, ConcatEmptySeq, AppendIsConcat

\* Writing more than one event.
LEMMA TwoInTurn ==
  ASSUME NEW S, NEW s \in Seq(S), NEW e \in S, NEW f \in S
  PROVE  s \o <<>> = s /\ s \o <<e>> = Append(s, e) /\ s \o <<e, f>> = Append(Append(s, e), f)
<1>1. s \o <<>> = s
  BY ConcatEmptySeq
<1>2. s \o <<e>> = Append(s, e)
  BY AppendIsConcat
<1>3. Append(Append(s, e), f) = s \o (<<e>> \o <<f>>)
  <2>1. Append(s, e) \in Seq(S) /\ <<e>> \in Seq(S) /\ <<f>> \in Seq(S)
    BY AppendProperties
  <2>2. Append(Append(s, e), f) = (s \o <<e>>) \o <<f>>
    BY <1>2, <2>1, AppendIsConcat
  <2>3. QED BY <2>1, <2>2, ConcatAssociative
<1>4. <<e>> \o <<f>> = <<e, f>>
  BY Pieces
<1>5. QED BY <1>1, <1>2, <1>3, <1>4

-----------------------------------------------------------------------------
(* What the worker adds *)

\* A worker that goes on has said what it had said.
GoesOn(w, v) ==
  /\ w.blanked \subseteq v.blanked
  /\ \/ w.number < v.number
     \/ w.number = v.number /\ (w.revision <= v.revision \/ w.number \in v.blanked)

\* New: the utterance at hand, a revision above all of it so far.
Newly(w, e) == e \in Voiced /\ e.id = w.number /\ e.revision > w.revision

LEMMA StillSaid ==
  ASSUME NEW w \in Worker, NEW v \in Worker, GoesOn(w, v), NEW e \in Voiced, SaidBy(w, e) PROVE SaidBy(v, e)
<1>1. w.number \in Nat /\ v.number \in Nat /\ w.revision \in Nat /\ v.revision \in Nat
      /\ e.id \in Nat /\ e.revision \in Nat
  BY DEF Worker, Voiced, Event
<1>2. QED BY <1>1 DEF SaidBy, GoesOn

LEMMA NewIsAfter ==
  ASSUME NEW w \in Worker, NEW e \in Voiced, SaidBy(w, e), NEW f, Newly(w, f) PROVE Before(w.blanked, e, f)
<1>1. e.revision \in Nat /\ f.revision \in Nat /\ w.revision \in Nat /\ w.number \in Nat
  BY DEF Worker, Voiced, Event, Newly
<1>2. QED BY <1>1 DEF SaidBy, Newly, Before

LEMMA SaidSound ==
  ASSUME NEW w \in Worker, w.number # 0, NEW phase \in {"partial", "final"}
  PROVE  Newly(w, Said(w, phase)) /\ Said(w, phase).phase = phase /\ Said(w, phase).revision = w.revision + 1
<1>1. Said(w, phase) \in Event
  <2>1. (IF w.heard = <<>> THEN 0 ELSE w.heard[Len(w.heard)]) \in Nat
    <3>1. w.heard \in Seq(Nat) /\ Len(w.heard) \in Nat
      BY LenProperties DEF Worker
    <3>2. w.heard # <<>> => Len(w.heard) \in 1..Len(w.heard)
      BY <3>1, EmptySeq
    <3>3. QED BY <3>1, <3>2, ElementOfSeq
  <2>2. w.number \in Nat /\ w.revision + 1 \in Nat
    BY DEF Worker
  <2>3. QED BY <2>1, <2>2 DEF Said, Event
<1>2. w.number \in Nat /\ w.revision \in Nat
  BY DEF Worker
<1>3. QED BY <1>1, <1>2 DEF Said, Voiced, Newly

\* What is said with an outcome, in turn.
Speaks(w, o) ==
  \/ o.says = <<>>
  \/ \E e : o.says = <<e>> /\ Newly(w, e) /\ SaidBy(o.after, e)
  \/ \E e, f : /\ o.says = <<e, f>> /\ Newly(w, e) /\ Newly(w, f) /\ Before(w.blanked, e, f)
               /\ SaidBy(o.after, e) /\ SaidBy(o.after, f)

LEMMA FinishingSpeaks ==
  ASSUME NEW w \in Worker, w.number # 0, NEW o \in Finishing(w)
  PROVE  /\ o.after \in Worker /\ GoesOn(w, o.after)
         /\ \/ o.says = <<>>
            \/ o.says = <<Said(w, "final")>> /\ w.number < o.after.number
<1>1. w.number \in Nat /\ w.revision \in Nat
  BY DEF Worker
<1>2. /\ Finished(w).number = w.number + 1
      /\ Finished(w).blanked = w.blanked /\ w.blanked \subseteq Dropped(w).blanked
      /\ Dropped(w).number = w.number /\ Dropped(w).revision = 0
      /\ w.revision = 0 \/ w.number \in Dropped(w).blanked
  BY DEF Finished, Dropped, Worker
<1>3. \/ o = [after |-> Finished(w), says |-> <<Said(w, "final")>>]
      \/ o = [after |-> Dropped(w), says |-> <<>>]
  BY DEF Finishing
<1>4. GoesOn(w, Finished(w)) /\ w.number < Finished(w).number
  BY <1>1, <1>2 DEF GoesOn
<1>5. GoesOn(w, Dropped(w))
  BY <1>1, <1>2 DEF GoesOn
<1>6. QED BY <1>3, <1>4, <1>5, FinishingKeeps

LEMMA HearingSpeaks ==
  ASSUME NEW w \in Worker, w.number # 0, NEW o \in Hearing(w)
  PROVE  o.after \in Worker /\ GoesOn(w, o.after) /\ Speaks(w, o)
<1> DEFINE quiet == {[after |-> w, says |-> <<>>]}
           more == [w EXCEPT !.revision = @ + 1]
           partial == IF w.speech /\ w.revision < MaxRevisions
                      THEN {[after |-> more, says |-> <<Said(w, "partial")>>]} ELSE {}
<1>1. PICK first \in quiet \cup partial :
        \E end \in {[after |-> first.after, says |-> <<>>]} \cup Finishing(first.after) :
          o = [after |-> end.after, says |-> first.says \o end.says]
  BY DEF Hearing
<1>2. PICK end \in {[after |-> first.after, says |-> <<>>]} \cup Finishing(first.after) :
        o = [after |-> end.after, says |-> first.says \o end.says]
  BY <1>1
<1>3. w.number \in Nat /\ w.revision \in Nat
  BY DEF Worker
<1>4. more \in Worker /\ more.number = w.number /\ more.revision = w.revision + 1
      /\ more.blanked = w.blanked
  BY <1>3 DEF Worker
<1> HIDE DEF more
<1>5. \/ first.after = w /\ first.says = <<>>
      \/ first.after = more /\ first.says = <<Said(w, "partial")>>
  BY DEF quiet, partial
<1>6. first.after \in Worker /\ first.after.number = w.number /\ first.after.number # 0 /\ GoesOn(w, first.after)
      /\ first.after.blanked = w.blanked /\ w.revision <= first.after.revision
  BY <1>3, <1>4, <1>5 DEF GoesOn
<1>7. /\ end.after \in Worker /\ GoesOn(first.after, end.after)
      /\ \/ end.says = <<>>
         \/ end.says = <<Said(first.after, "final")>> /\ first.after.number < end.after.number
  <2>1. CASE end = [after |-> first.after, says |-> <<>>]
    <3>1. first.after.revision \in Nat
      BY <1>6 DEF Worker
    <3>2. QED BY <1>6, <2>1, <3>1 DEF GoesOn
  <2>2. CASE end \in Finishing(first.after)
    BY <1>6, <2>2, FinishingSpeaks
  <2>3. QED BY <2>1, <2>2
<1>8. GoesOn(w, end.after)
  <2>1. /\ w.number \in Nat /\ first.after.number \in Nat /\ end.after.number \in Nat
        /\ w.revision \in Nat /\ first.after.revision \in Nat /\ end.after.revision \in Nat
    BY <1>6, <1>7 DEF Worker
  <2>2. QED BY <1>6, <1>7, <2>1 DEF GoesOn
<1> DEFINE p == Said(w, "partial")
           f == Said(first.after, "final")
<1>9. Newly(w, p) /\ p.phase = "partial" /\ p.revision = w.revision + 1
  BY SaidSound
<1>10. Newly(first.after, f) /\ f.revision = first.after.revision + 1
  BY <1>6, SaidSound
<1> HIDE DEF p, f
<1>11. Newly(w, f)
  <2>1. w.revision \in Nat /\ first.after.revision \in Nat /\ first.after.revision >= w.revision
    BY <1>3, <1>4, <1>5
  <2>2. QED BY <1>6, <1>10, <2>1 DEF Newly
<1>12. first.says = <<>> \/ (first.says = <<p>> /\ first.after = more)
  BY <1>5 DEF p
<1>13. end.says = <<>> \/ (end.says = <<f>> /\ w.number < end.after.number)
  BY <1>6, <1>7 DEF f
<1>14. ASSUME w.number < end.after.number PROVE SaidBy(end.after, f)
  <2>1. end.after.number \in Nat /\ f.id = w.number
    BY <1>7, <1>11 DEF Worker, Newly
  <2>2. QED BY <1>3, <1>14, <2>1 DEF SaidBy
<1>15. ASSUME first.after = more PROVE SaidBy(end.after, p) /\ Before(w.blanked, p, f)
  <2>1. SaidBy(more, p)
    BY <1>3, <1>4, <1>9 DEF SaidBy, Newly
  <2>2. SaidBy(end.after, p)
    BY <1>4, <1>7, <1>9, <1>15, <2>1, StillSaid DEF Newly
  <2>3. QED BY <1>3, <1>4, <1>9, <1>10, <1>15, <2>2 DEF Before, Newly
<1>16. o.after = end.after /\ o.says = first.says \o end.says
  BY <1>2
<1>17. <<>> \o <<>> = <<>> /\ <<p>> \o <<>> = <<p>> /\ <<>> \o <<f>> = <<f>> /\ <<p>> \o <<f>> = <<p, f>>
  BY <1>9, <1>11, Pieces DEF Newly
<1>18. ASSUME end.says = <<>> PROVE Speaks(w, o)
  <2>1. CASE first.says = <<>>
    BY <1>16, <1>17, <1>18, <2>1 DEF Speaks
  <2>2. CASE first.says = <<p>> /\ first.after = more
    BY <1>9, <1>15, <1>16, <1>17, <1>18, <2>2 DEF Speaks
  <2>3. QED BY <1>12, <2>1, <2>2
<1>19. ASSUME end.says = <<f>>, w.number < end.after.number PROVE Speaks(w, o)
  <2>1. CASE first.says = <<>>
    BY <1>11, <1>14, <1>16, <1>17, <1>19, <2>1 DEF Speaks
  <2>2. CASE first.says = <<p>> /\ first.after = more
    BY <1>9, <1>11, <1>14, <1>15, <1>16, <1>17, <1>19, <2>2 DEF Speaks
  <2>3. QED BY <1>12, <2>1, <2>2
<1>20. QED BY <1>7, <1>8, <1>13, <1>16, <1>18, <1>19

-----------------------------------------------------------------------------
(* Numbers *)

\* The least of a set of numbers.
LEMMA LeastOf ==
  ASSUME NEW S, S \subseteq Nat, S # {} PROVE \E n \in S : \A m \in S : n <= m
<1> DEFINE R == {p \in Nat \X Nat : p[1] < p[2]}
<1>1. IsWellFoundedOn(R, Nat)
  BY NatLessThanWellFounded DEF OpToRel
<1>2. PICK n \in S : \A m \in S : ~(<<m, n>> \in R)
  <2> HIDE DEF R
  <2>1. QED BY <1>1, WFMin
<1>3. ASSUME NEW m \in S, m < n PROVE FALSE
  <2>1. <<m, n>> \in R
    BY <1>3
  <2> HIDE DEF R
  <2>2. QED BY <1>2, <2>1
<1>4. QED BY <1>3

\* Induction, for a set of numbers.
LEMMA Induction ==
  ASSUME NEW T, 0 \in T, \A n \in Nat : n \in T => n + 1 \in T
  PROVE  \A n \in Nat : n \in T
<1> DEFINE U == {n \in Nat : n \notin T}
<1>1. ASSUME U # {} PROVE FALSE
  <2>1. PICK n \in U : \A m \in U : n <= m
    BY <1>1, LeastOf
  <2>2. n \in Nat \ {0} /\ n - 1 \in Nat /\ (n - 1) + 1 = n
    OBVIOUS
  <2>3. n - 1 \in U
    BY <2>2
  <2>4. QED BY <2>1, <2>2, <2>3
<1>2. QED BY <1>1

-----------------------------------------------------------------------------
(* What an answer makes of the transcript *)

Batch(s) == DOMAIN s = {"transcript", "finals"}

LEMMA HadOne ==
  ASSUME NEW map, NEW e \in Event
  PROVE  Had(Put(map, e.id, [revision |-> e.revision, phase |-> e.phase, text |-> e.text])) \subseteq Had(map) \cup {e}
<1> DEFINE u == [revision |-> e.revision, phase |-> e.phase, text |-> e.text]
           put == Put(map, e.id, u)
           As(m, id) == [phase |-> m[id].phase, id |-> id, revision |-> m[id].revision, text |-> m[id].text]
<1>1. DOMAIN put = DOMAIN map \cup {e.id}
  BY DEF Put
<1>2. \A id \in DOMAIN map : id # e.id => put[id] = map[id]
  BY DEF Put
<1>3. put[e.id] = u
  BY DEF Put
<1> HIDE DEF put
<1>4. As(put, e.id) = e
  BY <1>3 DEF Event
<1>5. \A id \in DOMAIN put : As(put, id) \in Had(map) \cup {e}
  <2> TAKE id \in DOMAIN put
  <2>1. CASE id = e.id
    BY <1>4, <2>1
  <2>2. CASE id # e.id
    <3>1. id \in DOMAIN map /\ put[id] = map[id]
      BY <1>1, <1>2, <2>2
    <3>2. As(put, id) = As(map, id)
      BY <3>1
    <3>3. As(map, id) \in Had(map)
      BY <3>1 DEF Had
    <3>4. QED BY <3>2, <3>3
  <2>3. QED BY <2>1, <2>2
<1>6. Had(put) = {As(put, id) : id \in DOMAIN put}
  BY DEF Had
<1>7. QED BY <1>5, <1>6 DEF put

\* What a batch must be, and an event it hears.
Fits(B, s, e) ==
  /\ Batch(s) /\ Had(s.transcript) \subseteq Event /\ Ahead(B, Had(s.transcript), {e})
  /\ e \in Listed /\ e.id # 0 /\ e.phase # "invalid"

\* An event that comes after all the transcript holds is taken, and a final goes to the
\* analysis; whatever it comes after, it touches no other number.
LEMMA HeardInTurn ==
  ASSUME NEW B, NEW s, NEW e, Fits(B, s, e)
  PROVE  LET t == Heard(s, e)
         IN /\ Batch(t) /\ Had(t.transcript) \subseteq Had(s.transcript) \cup {e}
            /\ t.finals = s.finals \/ t.finals = Put(s.finals, e.id, e.text)
            /\ e.phase = "final" /\ e.id \notin B => t.finals = Put(s.finals, e.id, e.text)
<1> DEFINE u == [revision |-> e.revision, phase |-> e.phase, text |-> e.text]
           put == Put(s.transcript, e.id, u)
<1> USE DEF Fits
<1>1. e \in Event /\ e.phase \in {"partial", "final"} /\ e.revision \in Nat
  BY DEF Listed, Voiced, Event
<1>2. ASSUME e.id \in DOMAIN s.transcript, e.id \notin B
      PROVE  /\ s.transcript[e.id].phase = "partial" /\ s.transcript[e.id].revision < e.revision
             /\ s.transcript[e.id].revision \in Nat
  <2> DEFINE had == [phase |-> s.transcript[e.id].phase, id |-> e.id, revision |-> s.transcript[e.id].revision,
                     text |-> s.transcript[e.id].text]
  <2>1. had \in Had(s.transcript)
    BY <1>2 DEF Had
  <2>2. Before(B, had, e)
    BY <2>1 DEF Ahead
  <2>3. had.id = e.id /\ had.phase = s.transcript[e.id].phase /\ had.revision = s.transcript[e.id].revision
    OBVIOUS
  <2>5. had.revision \in Nat
    BY <2>1 DEF Event
  <2> HIDE DEF had
  <2>4. QED BY <1>2, <2>2, <2>3, <2>5 DEF Before
<1>3. u.revision = e.revision /\ u.phase = e.phase /\ u.text = e.text
  OBVIOUS
<1>4. e.id \notin B => ~Stale(s, e.id, u)
  BY <1>1, <1>2, <1>3 DEF Stale
<1>5. e.id \notin B => (NewFinal(s, e.id, u) <=> e.phase = "final")
  BY <1>2, <1>3 DEF NewFinal
<1> HIDE DEF u
<1>6. Heard(s, e) = Receive(s, e.id, u)
  BY DEF Heard, u
<1>7. CASE Stale(s, e.id, u)
  <2>1. Heard(s, e) = s /\ e.id \in B
    BY <1>4, <1>6, <1>7 DEF Receive
  <2>2. QED BY <2>1
<1>8. CASE ~Stale(s, e.id, u)
  <2> DEFINE finals1 == IF NewFinal(s, e.id, u) THEN Put(s.finals, e.id, e.text) ELSE s.finals
  <2>1. Heard(s, e) = [s EXCEPT !.transcript = put, !.finals = finals1]
    BY <1>3, <1>6, <1>8 DEF Receive
  <2>2. Had(put) \subseteq Had(s.transcript) \cup {e}
    BY <1>1, HadOne DEF u
  <2>3. /\ finals1 = s.finals \/ finals1 = Put(s.finals, e.id, e.text)
        /\ e.phase = "final" /\ e.id \notin B => finals1 = Put(s.finals, e.id, e.text)
    BY <1>5
  <2> HIDE DEF put, finals1
  <2>4. QED BY <2>1, <2>2, <2>3 DEF Batch
<1>9. QED BY <1>7, <1>8

\* What the first n events of an answer have made of a batch.
HeardAfter(s, events, f, n) == IF n = 0 THEN s ELSE Heard(f[n - 1], events[n])

LEMMA HeardDefined ==
  ASSUME NEW s, NEW events \in Seq(Listed)
  PROVE  \E f : f = [n \in 0..Len(events) |-> HeardAfter(s, events, f, n)] /\ HeardOf(s, events) = f[Len(events)]
<1> DEFINE IsLoop(f, k) == f = [n \in 0..k |-> HeardAfter(s, events, f, n)]
           T == {k \in Nat : \E f : IsLoop(f, k)}
<1>1. 0 \in T
  <2> DEFINE f == [n \in 0..0 |-> s]
  <2>1. IsLoop(f, 0)
    BY DEF HeardAfter
  <2>2. QED BY <2>1
<1>2. ASSUME NEW k \in Nat, k \in T PROVE k + 1 \in T
  <2>1. PICK f : IsLoop(f, k)
    BY <1>2
  <2> DEFINE g == [n \in 0..k + 1 |-> HeardAfter(s, events, f, n)]
  <2>2. \A n \in 0..k : g[n] = f[n]
    BY <2>1
  <2>3. \A n \in 0..k + 1 : n # 0 => n - 1 \in 0..k
    OBVIOUS
  <2>4. \A n \in 0..k + 1 : HeardAfter(s, events, f, n) = HeardAfter(s, events, g, n)
    <3> TAKE n \in 0..k + 1
    <3>1. n # 0 => g[n - 1] = f[n - 1]
      BY <2>2, <2>3
    <3> HIDE DEF g
    <3>2. QED BY <3>1 DEF HeardAfter
  <2>5. IsLoop(g, k + 1)
    BY <2>4
  <2> HIDE DEF IsLoop, g
  <2>6. QED BY <2>5
<1>3. PICK g : IsLoop(g, Len(events))
  <2>1. Len(events) \in Nat
    BY LenProperties
  <2> HIDE DEF T
  <2>2. Len(events) \in T
    BY <1>1, <1>2, <2>1, Induction
  <2>3. QED BY <2>2 DEF T
<1> DEFINE P(f) == IsLoop(f, Len(events))
<1>4. P(CHOOSE f : P(f))
  <2>1. P(g)
    BY <1>3
  <2> HIDE DEF P
  <2>2. QED BY <2>1
<1>5. HeardOf(s, events) = (CHOOSE f : P(f))[Len(events)]
  BY DEF HeardOf, HeardAfter
<1>6. QED BY <1>4, <1>5

\* What a batch must be, and the events it hears one after the other.
AllFit(B, s, events) ==
  /\ Batch(s) /\ Had(s.transcript) \subseteq Event /\ Ahead(B, Had(s.transcript), Members(events))
  /\ events \in Seq(Listed) /\ Rising(B, events) /\ \A i \in 1..Len(events) : events[i].phase # "invalid"

LEMMA AnswerInTurn ==
  ASSUME NEW B, NEW s, NEW events, AllFit(B, s, events)
  PROVE  LET t == HeardOf(s, events)
         IN /\ Had(t.transcript) \subseteq Had(s.transcript) \cup Members(events)
            /\ \A i \in 1..Len(events) : events[i].phase = "final" /\ events[i].id \notin B =>
                 events[i].id \in DOMAIN t.finals /\ t.finals[events[i].id] = events[i].text
<1>0. /\ Batch(s) /\ Had(s.transcript) \subseteq Event /\ Ahead(B, Had(s.transcript), Members(events))
      /\ events \in Seq(Listed) /\ Rising(B, events) /\ \A i \in 1..Len(events) : events[i].phase # "invalid"
  BY DEF AllFit
<1> USE <1>0
<1>1. PICK f : f = [n \in 0..Len(events) |-> HeardAfter(s, events, f, n)] /\ HeardOf(s, events) = f[Len(events)]
  BY HeardDefined
<1>2. Len(events) \in Nat /\ DOMAIN events = 1..Len(events)
  BY LenProperties
<1>3. \A i \in 1..Len(events) : events[i] \in Listed /\ events[i].id # 0
  <2>1. \A i \in 1..Len(events) : events[i] \in Listed
    BY ElementOfSeq
  <2>2. QED BY <2>1 DEF Listed, Voiced, Event
<1> DEFINE First(n) == {events[i] : i \in 1..n}
           Done(n) == /\ Batch(f[n]) /\ Had(f[n].transcript) \subseteq Had(s.transcript) \cup First(n)
                      /\ \A i \in 1..n : events[i].phase = "final" /\ events[i].id \notin B =>
                           events[i].id \in DOMAIN f[n].finals /\ f[n].finals[events[i].id] = events[i].text
           T == {n \in Nat : n <= Len(events) => Done(n)}
<1>4. 0 \in T
  <2>1. f[0] = s
    BY <1>1, <1>2 DEF HeardAfter
  <2>2. 1..0 = {}
    OBVIOUS
  <2>3. QED BY <2>1, <2>2
<1>5. ASSUME NEW n \in Nat, n \in T PROVE n + 1 \in T
  <2> SUFFICES ASSUME n + 1 <= Len(events) PROVE Done(n + 1)
    OBVIOUS
  <2>1. /\ n + 1 \in 0..Len(events) /\ n + 1 \in 1..Len(events) /\ (n + 1) - 1 = n /\ n + 1 # 0 /\ n <= Len(events)
        /\ 1..n + 1 = 1..n \cup {n + 1} /\ \A i \in 1..n : i \in 1..Len(events) /\ i < n + 1
    BY <1>2
  <2>2. Done(n)
    BY <1>5, <2>1
  <2> DEFINE e == events[n + 1]
             t == f[n + 1]
  <2>3. t = Heard(f[n], e)
    <3>1. f[n + 1] = HeardAfter(s, events, f, n + 1)
      BY <1>1, <2>1
    <3>2. QED BY <2>1, <3>1 DEF HeardAfter
  <2>4. e \in Listed /\ e.id # 0 /\ e.phase # "invalid"
    BY <1>3, <2>1
  <2>5. \A i \in 1..n : Before(B, events[i], e)
    BY <1>2, <2>1 DEF Rising
  <2>6. Ahead(B, Had(s.transcript), {e})
    BY <1>2, <2>1 DEF Ahead, Members
  <2>7. Ahead(B, Had(f[n].transcript), {e})
    BY <2>2, <2>5, <2>6 DEF Ahead
  <2>12. Had(f[n].transcript) \subseteq Event
    <3>1. First(n) \subseteq Event
      BY <1>3, <2>1 DEF Listed, Voiced
    <3>2. QED BY <2>2, <3>1
  <2>8. /\ Batch(t) /\ Had(t.transcript) \subseteq Had(f[n].transcript) \cup {e}
        /\ t.finals = f[n].finals \/ t.finals = Put(f[n].finals, e.id, e.text)
        /\ e.phase = "final" /\ e.id \notin B => t.finals = Put(f[n].finals, e.id, e.text)
    <3>1. Batch(f[n])
      BY <2>2
    <3> DEFINE before == f[n]
    <3> HIDE DEF e, t, before, Done, T, First
    <3>2. /\ Batch(Heard(before, e)) /\ Had(Heard(before, e).transcript) \subseteq Had(before.transcript) \cup {e}
          /\ Heard(before, e).finals = before.finals \/ Heard(before, e).finals = Put(before.finals, e.id, e.text)
          /\ e.phase = "final" /\ e.id \notin B => Heard(before, e).finals = Put(before.finals, e.id, e.text)
      <4>1. Fits(B, before, e)
        BY <2>4, <2>7, <2>12, <3>1 DEF before, Fits
      <4> HIDE DEF before
      <4>2. QED BY <4>1, HeardInTurn
    <3>3. QED BY <2>3, <3>2 DEF before
  <2>9. First(n + 1) = First(n) \cup {e}
    BY <2>1
  <2>10. ASSUME NEW i \in 1..n + 1, events[i].phase = "final", events[i].id \notin B
         PROVE  events[i].id \in DOMAIN t.finals /\ t.finals[events[i].id] = events[i].text
    <3>1. CASE i = n + 1
      BY <2>8, <2>10, <3>1 DEF Put
    <3>2. CASE i # n + 1
      <4>1. i \in 1..n /\ i \in 1..Len(events)
        BY <2>1, <3>2
      <4>2. events[i].id \in DOMAIN f[n].finals /\ f[n].finals[events[i].id] = events[i].text
        BY <2>2, <2>10, <4>1
      <4>3. events[i].id # e.id
        BY <1>3, <2>5, <2>10, <4>1 DEF Before
      <4>4. QED BY <2>8, <4>2, <4>3 DEF Put
    <3>3. QED BY <3>1, <3>2
  <2> HIDE DEF e, t, First
  <2>11. QED BY <2>2, <2>8, <2>9, <2>10 DEF t
<1>6. Len(events) \in T
  <2> HIDE DEF T
  <2>1. QED BY <1>2, <1>4, <1>5, Induction
<1>7. First(Len(events)) = Members(events)
  BY <1>2 DEF Members
<1>8. QED BY <1>1, <1>2, <1>6, <1>7

LEMMA ValidInTurn ==
  ASSUME NEW B, NEW events \in Seq(Listed)
  PROVE  /\ Valid(events) \in Seq(Listed) /\ Len(Valid(events)) <= Len(events)
         /\ \A i \in 1..Len(Valid(events)) : Valid(events)[i] = events[i] /\ events[i].phase # "invalid"
         /\ Members(Valid(events)) \subseteq Members(events)
         /\ Rising(B, events) => Rising(B, Valid(events))
<1> DEFINE bad == {i \in DOMAIN events : events[i].phase = "invalid"}
           least == CHOOSE i \in bad : \A j \in bad : i <= j
           v == Valid(events)
<1>1. Len(events) \in Nat /\ DOMAIN events = 1..Len(events) /\ \A i \in 1..Len(events) : events[i] \in Listed
  BY LenProperties, ElementOfSeq
<1>2. /\ v \in Seq(Listed) /\ Len(v) <= Len(events)
      /\ \A i \in 1..Len(v) : v[i] = events[i] /\ events[i].phase # "invalid"
  <2>1. CASE bad = {}
    <3>1. v = events
      BY <2>1 DEF Valid
    <3>2. QED BY <1>1, <2>1, <3>1
  <2>2. CASE bad # {}
    <3>1. bad \subseteq Nat
      BY <1>1
    <3>2. least \in bad /\ \A j \in bad : least <= j
      <4>1. \E i \in bad : \A j \in bad : i <= j
        BY <2>2, <3>1, LeastOf
      <4> HIDE DEF bad
      <4>2. QED BY <4>1
    <3>3. v = SubSeq(events, 1, least - 1)
      BY <2>2 DEF Valid
    <3>4. least \in 1..Len(events) /\ least - 1 \in Int
      BY <1>1, <3>2
    <3>5. \A i \in 1..least - 1 : events[i] \in Listed /\ i \in 1..Len(events)
      BY <1>1, <3>4
    <3>6. \A i \in 1..least - 1 : events[i].phase # "invalid"
      <4>1. \A i \in 1..least - 1 : i \in DOMAIN events /\ ~(least <= i)
        BY <1>1, <3>4
      <4>2. QED BY <3>2, <4>1
    <3> HIDE DEF v, least, bad
    <3>7. /\ SubSeq(events, 1, least - 1) \in Seq(Listed)
          /\ Len(SubSeq(events, 1, least - 1)) = IF 1 <= least - 1 THEN least - 1 - 1 + 1 ELSE 0
          /\ \A i \in 1..least - 1 - 1 + 1 : SubSeq(events, 1, least - 1)[i] = events[1 + i - 1]
      BY <3>4, <3>5, SubSeqProperties
    <3>8. Len(v) = least - 1
      BY <3>3, <3>4, <3>7
    <3>9. \A i \in 1..least - 1 : i \in 1..least - 1 - 1 + 1 /\ 1 + i - 1 = i
      BY <3>4
    <3>10. \A i \in 1..least - 1 : v[i] = events[i]
      BY <3>3, <3>7, <3>9
    <3>11. Len(v) <= Len(events)
      BY <1>1, <3>4, <3>8
    <3>12. QED BY <3>3, <3>6, <3>7, <3>8, <3>10, <3>11
  <2>3. QED BY <2>1, <2>2
<1> HIDE DEF v
<1>3. DOMAIN v = 1..Len(v) /\ Len(v) \in Nat
  BY <1>2, LenProperties
<1>4. \A i \in 1..Len(v) : i \in 1..Len(events)
  BY <1>1, <1>2, <1>3
<1>5. Members(v) \subseteq Members(events)
  BY <1>1, <1>2, <1>3, <1>4 DEF Members
<1>6. Rising(B, events) => Rising(B, v)
  BY <1>1, <1>2, <1>3, <1>4 DEF Rising
<1>7. QED BY <1>2, <1>5, <1>6 DEF v

-----------------------------------------------------------------------------
(* The steps leave all in turn *)

LEMMA AllVoiced ==
  ASSUME Kinds
  PROVE  /\ Had(transcript) \subseteq Voiced /\ Members(poll.events) \subseteq Listed
         /\ Members(session.ring) \subseteq Listed /\ Members(output) \subseteq Voiced /\ Listed \subseteq Voiced
         /\ Rest \subseteq Members(session.ring)
<1>1. poll.events \in Seq(Listed) /\ session.ring \in Seq(Listed) /\ output \in Seq(Voiced) /\ session.told \in Nat
  BY DEF Kinds, Poll, Session
<1>2. Rest \subseteq Members(session.ring)
  <2>1. \A i \in session.told + 1..Len(session.ring) : i \in 1..Len(session.ring)
    BY <1>1, LenProperties
  <2>2. QED BY <1>1, <2>1, MembersOf DEF Rest
<1>3. QED BY <1>1, <1>2, MembersOf DEF Kinds, Listed

\* A step that says nothing, and drops at most what was not read.
LEMMA TurnKept ==
  ASSUME InTurn, worker' \in Worker, worker'.number = worker.number, worker'.revision = worker.revision,
         worker'.blanked = worker.blanked, output' \in Seq(Voiced), Members(output') \subseteq Members(output), Rising(worker.blanked, output'),
         session' \in Session, session'.ring = session.ring, session'.told = session.told, UNCHANGED transcript,
         \/ poll' = poll
         \/ /\ poll' \in Poll /\ poll'.events = <<>> /\ poll'.phase \in {"asked", "lost"}
            /\ poll'.phase = "asked" => session.told = 0
  PROVE  InTurn'
<1>1. Members(poll'.events) \subseteq Members(poll.events) /\ Rising(worker.blanked, poll'.events)
  BY NothingInTurn DEF InTurn
<1>2. Kinds'
  BY DEF InTurn, Kinds, Spoke, Answers
<1>3. Past'
  BY <1>1 DEF InTurn, Past, SaidBy
<1>4. Rest' = Rest
  BY DEF Rest
<1>5. QED BY <1>1, <1>2, <1>3, <1>4 DEF InTurn, Ahead

\* A step that writes to the pipe what comes after all that was said.
LEMMA OutputGrows ==
  ASSUME InTurn, NEW New, New \subseteq Voiced, output' \in Seq(Voiced), Members(output') = Members(output) \cup New,
         Rising(worker.blanked, output'), UNCHANGED <<session, poll, transcript>>,
         worker' \in Worker, worker'.number # 0, GoesOn(worker, worker'),
         \A e \in New : SaidBy(worker', e),
         \A e \in Voiced, f \in New : SaidBy(worker, e) => Before(worker.blanked, e, f)
  PROVE  InTurn'
<1>1. Kinds /\ worker \in Worker
  BY DEF InTurn, Kinds, Spoke
<1>2. Kinds'
  BY DEF InTurn, Kinds, Spoke, Answers
<1>3. \A e \in Voiced : SaidBy(worker, e) => SaidBy(worker', e)
  BY <1>1, StillSaid
<1>4. Past'
  BY <1>1, <1>3, AllVoiced DEF InTurn, Past
<1>5. Rest' = Rest
  BY DEF Rest
<1>6. Ahead(worker.blanked, Had(transcript) \cup Members(poll.events) \cup Members(session.ring), New)
  BY <1>1, AllVoiced DEF InTurn, Past, Ahead
<1>7. /\ Rising(worker.blanked, output') /\ Rising(worker.blanked, session.ring) /\ Rising(worker.blanked, poll.events)
      /\ Ahead(worker.blanked, Had(transcript), Members(poll.events) \cup Rest \cup Members(output'))
      /\ Ahead(worker.blanked, Members(poll.events), Rest \cup Members(output'))
      /\ Ahead(worker.blanked, Members(session.ring), Members(output'))
  BY <1>6 DEF InTurn, Ahead
<1>8. worker.blanked \subseteq worker'.blanked
  BY DEF GoesOn
<1> DEFINE C == worker'.blanked
<1>9. /\ Rising(C, output') /\ Rising(C, session.ring) /\ Rising(C, poll.events)
      /\ Ahead(C, Had(transcript), Members(poll.events) \cup Rest \cup Members(output'))
      /\ Ahead(C, Members(poll.events), Rest \cup Members(output'))
      /\ Ahead(C, Members(session.ring), Members(output'))
  <2> HIDE DEF C
  <2>1. worker.blanked \subseteq C
    BY <1>8 DEF C
  <2>2. /\ \A s : Rising(worker.blanked, s) => Rising(C, s)
        /\ \A X, Y : Ahead(worker.blanked, X, Y) => Ahead(C, X, Y)
    BY <2>1, FewerInTurn
  <2>3. QED BY <1>7, <2>2, Zenon
<1>10. QED BY <1>2, <1>4, <1>5, <1>9 DEF InTurn

LEMMA PushInTurn ==
  ASSUME InTurn, NEW event \in Listed, Ahead(worker.blanked, Members(session.ring), {event})
  PROVE  LET next == Push(event)
         IN /\ next \in Session /\ Rising(worker.blanked, next.ring) /\ Members(next.ring) \subseteq Members(session.ring) \cup {event}
            /\ {next.ring[i] : i \in next.told + 1..Len(next.ring)} \subseteq Rest \cup {event}
            /\ next.told <= Len(next.ring) /\ (session.told = 0 => next.told = 0)
<1> DEFINE ring == session.ring
           next == Push(event)
<1>1. /\ session \in Session /\ ring \in Seq(Listed) /\ session.told \in Nat /\ Rising(worker.blanked, ring)
      /\ session.told <= Len(ring) /\ Len(ring) \in Nat
  BY LenProperties DEF InTurn, Kinds, Session, Answers
<1>2. CASE Len(ring) < MaxEvents
  <2> DEFINE longer == Append(ring, event)
  <2>1. next = [session EXCEPT !.ring = longer]
    BY <1>2 DEF Push
  <2>2. /\ longer \in Seq(Listed) /\ Len(longer) = Len(ring) + 1 /\ longer[Len(ring) + 1] = event
        /\ \A i \in 1..Len(ring) : longer[i] = ring[i]
    BY <1>1, AppendProperties
  <2>3. Members(longer) = Members(ring) \cup {event} /\ Rising(worker.blanked, longer)
    BY <1>1, AppendedInTurn
  <2> HIDE DEF longer, next
  <2>4. next \in Session /\ next.ring = longer /\ next.told = session.told
    BY <1>1, <2>1, <2>2 DEF Session
  <2>5. {longer[i] : i \in session.told + 1..Len(ring) + 1} \subseteq Rest \cup {event}
    <3> SUFFICES ASSUME NEW i \in session.told + 1..Len(ring) + 1 PROVE longer[i] \in Rest \cup {event}
      OBVIOUS
    <3>1. CASE i = Len(ring) + 1
      BY <2>2, <3>1
    <3>2. CASE i # Len(ring) + 1
      <4>1. i \in session.told + 1..Len(ring) /\ i \in 1..Len(ring)
        BY <1>1, <3>2
      <4>2. QED BY <2>2, <4>1 DEF Rest
    <3>3. QED BY <3>1, <3>2
  <2>6. next.told <= Len(next.ring)
    BY <1>1, <2>2, <2>4
  <2>7. QED BY <2>2, <2>3, <2>4, <2>5, <2>6 DEF next
<1>3. CASE ~(Len(ring) < MaxEvents)
  <2> DEFINE tail == Tail(ring)
             moved == Append(tail, event)
             told == IF session.told = 0 THEN 0 ELSE session.told - 1
  <2>1. next = [session EXCEPT !.ring = moved, !.told = told]
    BY <1>3 DEF Push
  <2>2. ring # <<>> /\ Len(ring) \in Nat \ {0}
    BY <1>1, <1>3, EmptySeq, MicrophoneConstants
  <2>3. /\ tail \in Seq(Listed) /\ Members(tail) \subseteq Members(ring) /\ Rising(worker.blanked, tail)
        /\ Len(tail) = Len(ring) - 1 /\ \A i \in 1..Len(tail) : tail[i] = ring[i + 1]
    BY <1>1, <2>2, TailInTurn, HeadTailProperties
  <2>4. Ahead(worker.blanked, Members(tail), {event})
    BY <2>3 DEF Ahead
  <2> HIDE DEF tail
  <2>5. /\ moved \in Seq(Listed) /\ Len(moved) = Len(ring) /\ moved[Len(ring)] = event
        /\ \A i \in 1..Len(ring) - 1 : moved[i] = ring[i + 1]
    <3>1. /\ moved \in Seq(Listed) /\ Len(moved) = Len(tail) + 1 /\ moved[Len(tail) + 1] = event
          /\ \A i \in 1..Len(tail) : moved[i] = tail[i]
      BY <2>3, AppendProperties
    <3>2. Len(tail) + 1 = Len(ring)
      BY <2>2, <2>3
    <3>3. QED BY <2>3, <3>1, <3>2
  <2>6. Members(moved) \subseteq Members(ring) \cup {event} /\ Rising(worker.blanked, moved)
    BY <2>3, <2>4, AppendedInTurn
  <2>7. told \in Nat /\ told <= Len(ring) /\ told + 1 >= session.told /\ (session.told = 0 => told = 0)
    BY <1>1
  <2> HIDE DEF moved, told, next
  <2>8. next \in Session /\ next.ring = moved /\ next.told = told
    BY <1>1, <2>1, <2>5, <2>7 DEF Session
  <2>9. {moved[i] : i \in told + 1..Len(ring)} \subseteq Rest \cup {event}
    <3> SUFFICES ASSUME NEW i \in told + 1..Len(ring) PROVE moved[i] \in Rest \cup {event}
      OBVIOUS
    <3>1. CASE i = Len(ring)
      BY <2>5, <3>1
    <3>2. CASE i # Len(ring)
      <4>1. i \in 1..Len(ring) - 1 /\ i + 1 \in session.told + 1..Len(ring)
        BY <1>1, <2>7, <3>2
      <4>2. QED BY <2>5, <4>1 DEF Rest
    <3>3. QED BY <3>1, <3>2
  <2>10. QED BY <2>5, <2>6, <2>7, <2>8, <2>9 DEF next
<1>4. QED BY <1>2, <1>3

LEMMA DataInTurn == ASSUME InTurn, Data PROVE InTurn'
<1>1. UNCHANGED <<poll, transcript>>
  BY DEF Data, page
<1>2. /\ Kinds /\ output \in Seq(Voiced) /\ Rising(worker.blanked, output) /\ worker \in Worker /\ session \in Session
      /\ Len(output) \in Nat /\ DOMAIN output = 1..Len(output)
  BY LenProperties DEF InTurn, Kinds, Spoke
<1>3. ASSUME NEW n \in DOMAIN output, Garbled(n), Killed PROVE InTurn'
  <2>1. session' \in Session /\ session'.ring = session.ring /\ session'.told = session.told
    BY <1>2, <1>3 DEF Session, Garbled
  <2>2. worker' \in Worker /\ worker'.number = worker.number /\ worker'.revision = worker.revision
        /\ worker'.blanked = worker.blanked
    BY <1>2, <1>3 DEF Killed, Worker
  <2>3. output' = SubSeq(output, n + 1, Len(output)) /\ n \in Nat
    BY <1>2, <1>3 DEF Garbled
  <2>4. /\ output' \in Seq(Voiced) /\ Members(output') = {output[i] : i \in n + 1..Len(output)}
        /\ Rising(worker.blanked, output')
    BY <1>2, <2>3, RestInTurn
  <2>5. Members(output') \subseteq Members(output)
    <3>1. \A i \in n + 1..Len(output) : i \in DOMAIN output
      BY <1>2, <2>3
    <3>2. QED BY <2>4, <3>1 DEF Members
  <2>6. QED BY <1>1, <2>1, <2>2, <2>4, <2>5, TurnKept
<1>4. CASE Parsed
  <2>1. output # <<>> /\ output' = Tail(output)
    BY <1>4 DEF Parsed
  <2>2. /\ output' \in Seq(Voiced) /\ Head(output) \in Voiced /\ Head(output) \in Members(output)
        /\ Members(output') \subseteq Members(output) /\ Rising(worker.blanked, output')
        /\ Ahead(worker.blanked, {Head(output)}, Members(output'))
    BY <1>2, <2>1, TailInTurn
  <2> DEFINE event == Head(output)
  <2>3. event \in Listed /\ session' = Push(event) /\ UNCHANGED worker
    BY <2>2, <1>4 DEF Listed, Parsed
  <2>4. /\ Ahead(worker.blanked, Members(session.ring), {event}) /\ Ahead(worker.blanked, Had(transcript), {event})
        /\ Ahead(worker.blanked, Members(poll.events), {event}) /\ SaidBy(worker, event)
    BY <2>2 DEF InTurn, Ahead, Past
  <2> HIDE DEF event
  <2>5. /\ session' \in Session /\ Rising(worker.blanked, session'.ring)
        /\ Members(session'.ring) \subseteq Members(session.ring) \cup {event}
        /\ Rest' \subseteq Rest \cup {event} /\ session'.told <= Len(session'.ring)
        /\ session.told = 0 => session'.told = 0
    <3> DEFINE next == Push(event)
    <3>1. /\ next \in Session /\ Rising(worker.blanked, next.ring) /\ Members(next.ring) \subseteq Members(session.ring) \cup {event}
          /\ {next.ring[i] : i \in next.told + 1..Len(next.ring)} \subseteq Rest \cup {event}
          /\ next.told <= Len(next.ring) /\ (session.told = 0 => next.told = 0)
      BY <2>3, <2>4, PushInTurn
    <3>2. session' = next /\ Rest' = {session'.ring[i] : i \in session'.told + 1..Len(session'.ring)}
      BY <2>3 DEF Rest
    <3> HIDE DEF next
    <3>3. QED BY <3>1, <3>2
  <2>6. Kinds'
    BY <1>1, <2>2, <2>3, <2>5 DEF InTurn, Kinds, Spoke, Answers
  <2>7. Past'
    BY <1>1, <2>2, <2>3, <2>4, <2>5 DEF InTurn, Past
  <2>8. Ahead(worker.blanked, Had(transcript'), Members(poll'.events) \cup Rest' \cup Members(output'))
    BY <1>1, <2>2, <2>4, <2>5 DEF InTurn, Ahead
  <2>9. Ahead(worker.blanked, Members(poll'.events), Rest' \cup Members(output'))
    BY <1>1, <2>2, <2>4, <2>5 DEF InTurn, Ahead
  <2>10. Ahead(worker.blanked, Members(session'.ring), Members(output'))
    BY <1>1, <2>2, <2>5 DEF InTurn, Ahead, event
  <2>11. QED BY <1>1, <2>2, <2>3, <2>5, <2>6, <2>7, <2>8, <2>9, <2>10 DEF InTurn
<1>5. QED BY <1>3, <1>4 DEF Data

LEMMA PollServedInTurn == ASSUME InTurn, PollServed PROVE InTurn'
<1>1. /\ poll.phase = "asked" /\ UNCHANGED <<worker, output, transcript>>
      /\ poll' = [phase |-> "answered", events |-> session.ring, stopped |-> session.stopped]
      /\ session' = [session EXCEPT !.told = Len(session.ring)]
  BY DEF PollServed, page
<1>2. /\ Kinds /\ session \in Session /\ session.ring \in Seq(Listed) /\ session.told = 0 /\ Len(session.ring) \in Nat
      /\ session.stopped \in BOOLEAN
  BY <1>1, LenProperties DEF InTurn, Kinds, Session, Answers
<1>3. /\ session' \in Session /\ session'.ring = session.ring /\ session'.told = Len(session.ring)
      /\ poll' \in Poll /\ poll'.events = session.ring /\ poll'.phase = "answered"
  BY <1>1, <1>2 DEF Session, Poll
<1>4. Rest = Members(session.ring)
  <2>1. session.told + 1 = 1
    BY <1>2
  <2>2. QED BY <1>2, <2>1, MembersOf DEF Rest
<1>5. Rest' = {}
  <2>1. Len(session.ring) + 1..Len(session.ring) = {}
    BY <1>2
  <2>2. QED BY <1>3, <2>1 DEF Rest
<1>6. Kinds'
  BY <1>1, <1>2, <1>3 DEF InTurn, Kinds, Spoke, Answers
<1>7. Past'
  BY <1>1, <1>3 DEF InTurn, Past
<1>8. QED BY <1>1, <1>3, <1>4, <1>5, <1>6, <1>7 DEF InTurn, Ahead

\* What an answer makes of the transcript.
LEMMA AnswerTaken ==
  ASSUME InTurn
  PROVE  LET valid == Valid(poll.events)
             t == HeardOf([transcript |-> transcript, finals |-> finals], valid)
         IN /\ valid \in Seq(Listed) /\ Len(valid) <= Len(poll.events)
            /\ Had(t.transcript) \subseteq Had(transcript) \cup {e \in Members(poll.events) : e.id # 0}
            /\ \A i \in DOMAIN valid :
                 valid[i] = poll.events[i] /\ (valid[i].phase = "final" /\ valid[i].id \notin worker.blanked =>
                 valid[i].id \in DOMAIN t.finals /\ t.finals[valid[i].id] = valid[i].text)
<1> DEFINE s == [transcript |-> transcript, finals |-> finals]
           valid == Valid(poll.events)
<1>1. poll.events \in Seq(Listed) /\ Rising(worker.blanked, poll.events) /\ Kinds
  BY DEF InTurn, Kinds, Poll
<1>2. /\ valid \in Seq(Listed) /\ Len(valid) <= Len(poll.events)
      /\ \A i \in 1..Len(valid) : valid[i] = poll.events[i] /\ poll.events[i].phase # "invalid"
      /\ Members(valid) \subseteq Members(poll.events) /\ Rising(worker.blanked, valid)
  BY <1>1, ValidInTurn
<1>3. Batch(s) /\ s.transcript = transcript
  BY DEF Batch
<1>4. Had(transcript) \subseteq Event /\ Ahead(worker.blanked, Had(transcript), Members(valid))
  BY <1>1, <1>2, AllVoiced DEF InTurn, Ahead, Voiced
<1> HIDE DEF s, valid
<1>5. DOMAIN valid = 1..Len(valid) /\ Members(valid) \subseteq Listed
  BY <1>2, LenProperties, MembersOf
<1>6. \A e \in Members(valid) : e.id # 0
  BY <1>2, <1>5 DEF Members, Listed, Voiced, Event
<1>7. \A i \in 1..Len(valid) : valid[i].phase # "invalid"
  BY <1>2
<1>8. AllFit(worker.blanked, s, valid)
  BY <1>2, <1>3, <1>4, <1>7 DEF AllFit
<1>9. /\ Had(HeardOf(s, valid).transcript) \subseteq Had(transcript) \cup Members(valid)
      /\ \A i \in 1..Len(valid) : valid[i].phase = "final" /\ valid[i].id \notin worker.blanked =>
           valid[i].id \in DOMAIN HeardOf(s, valid).finals /\ HeardOf(s, valid).finals[valid[i].id] = valid[i].text
  BY <1>3, <1>8, AnswerInTurn
<1>10. QED BY <1>2, <1>5, <1>6, <1>9 DEF s, valid

LEMMA PollReturnsInTurn == ASSUME InTurn, PollReturns PROVE InTurn'
<1> DEFINE rest == SubSeq(session.ring, session.told + 1, Len(session.ring))
<1>1. /\ poll' = NoPoll /\ session' = [session EXCEPT !.ring = rest, !.told = 0]
      /\ UNCHANGED <<worker, output>>
  BY DEF PollReturns
<1>2. Kinds /\ session \in Session /\ session.ring \in Seq(Listed) /\ session.told \in Nat /\ Rising(worker.blanked, session.ring)
  BY DEF InTurn, Kinds, Session
<1>3. rest \in Seq(Listed) /\ Members(rest) = Rest /\ Rising(worker.blanked, rest)
  BY <1>2, RestInTurn DEF Rest
<1> HIDE DEF rest
<1>4. /\ session' \in Session /\ session'.ring = rest /\ session'.told = 0
      /\ poll' \in Poll /\ poll'.events = <<>> /\ poll'.phase = "idle" /\ Len(rest) \in Nat
  BY <1>1, <1>2, <1>3, LenProperties, EmptySeq DEF Session, Poll, NoPoll
<1>5. Rest' = Rest
  <2>1. 0 + 1 = 1
    OBVIOUS
  <2>2. Rest' = {rest[i] : i \in 1..Len(rest)}
    BY <1>4, <2>1 DEF Rest
  <2>3. Members(rest) = {rest[i] : i \in 1..Len(rest)}
    BY <1>3, MembersOf
  <2>4. QED BY <1>3, <2>2, <2>3
<1>6. Had(transcript') \subseteq Had(transcript) \cup {e \in Members(poll.events) : e.id # 0}
  BY AnswerTaken DEF PollReturns
<1>7. Kinds'
  <2>1. Had(transcript') \subseteq {e \in Voiced : e.id # 0}
    BY <1>2, <1>6, AllVoiced DEF Kinds
  <2>2. QED BY <1>1, <1>2, <1>4, <2>1 DEF Kinds, Spoke, Answers
<1>8. Members(poll'.events) = {} /\ Rising(worker.blanked, poll'.events)
  BY <1>4, NothingInTurn
<1>9. Members(session'.ring) = Rest /\ Rest \subseteq Members(session.ring)
  BY <1>2, <1>3, <1>4, AllVoiced
<1>10. Past'
  BY <1>1, <1>6, <1>8, <1>9 DEF InTurn, Past
<1>11. QED BY <1>1, <1>3, <1>4, <1>5, <1>6, <1>7, <1>8, <1>9, <1>10 DEF InTurn, Ahead

LEMMA WorkerInTurn == ASSUME Shape, InTurn, WorkerStep PROVE InTurn'
<1>1. UNCHANGED <<session, poll, transcript>> /\ Kinds /\ worker \in Worker /\ worker.number # 0
  BY DEF WorkerStep, page, InTurn, Kinds, Spoke
<1>2. PICK w, o : /\ w \in Worker /\ w.number = worker.number /\ w.revision = worker.revision
                  /\ w.blanked = worker.blanked /\ worker'.blanked = o.after.blanked
                  /\ o.after \in Worker /\ GoesOn(w, o.after) /\ Speaks(w, o)
                  /\ worker' \in Worker /\ worker'.number = o.after.number /\ worker'.revision = o.after.revision
                  /\ output' = output \o o.says
  <2>1. CASE Reads
    <3>1. PICK speech \in {worker.speech, TRUE} :
            \E o \in Hearing([worker EXCEPT !.heard = Append(worker.heard, Head(input)),
                                             !.speech = speech]) : Writes(o)
      BY <2>1 DEF Reads
    <3> DEFINE w == [worker EXCEPT !.heard = Append(worker.heard, Head(input)), !.speech = speech]
    <3>2. PICK o \in Hearing(w) : Writes(o)
      BY <3>1
    <3>3. Append(worker.heard, Head(input)) \in Seq(Nat)
      <4>1. Head(input) \in Nat
        BY <2>1, HeadTailProperties DEF Shape, Reads
      <4>2. QED BY <1>1, <4>1, AppendProperties DEF Worker
    <3>4. w \in Worker /\ w.number = worker.number /\ w.revision = worker.revision /\ w.blanked = worker.blanked
      BY <1>1, <3>3 DEF Worker
    <3> HIDE DEF w
    <3>5. o.after \in Worker /\ GoesOn(w, o.after) /\ Speaks(w, o)
      BY <1>1, <3>4, HearingSpeaks
    <3>6. worker' = o.after /\ output' = output \o o.says
      BY <3>2 DEF Writes
    <3>7. QED BY <3>4, <3>5, <3>6
  <2>2. CASE Flushes
    <3>1. PICK o \in Finishing(worker) : Writes([o EXCEPT !.after.phase = "gone"])
      BY <2>2 DEF Flushes
    <3>2. /\ o.after \in Worker /\ GoesOn(worker, o.after)
          /\ \/ o.says = <<>>
             \/ o.says = <<Said(worker, "final")>> /\ worker.number < o.after.number
      BY <1>1, FinishingSpeaks
    <3>3. \E after, says : o = [after |-> after, says |-> says]
      BY DEF Finishing
    <3>4. worker' = [o.after EXCEPT !.phase = "gone"] /\ output' = output \o o.says
      BY <3>1, <3>3 DEF Writes
    <3>5. worker' \in Worker /\ worker'.number = o.after.number /\ worker'.revision = o.after.revision
          /\ worker'.blanked = o.after.blanked
      BY <3>2, <3>4 DEF Worker
    <3>6. Speaks(worker, o)
      <4> DEFINE f == Said(worker, "final")
      <4>1. Newly(worker, f)
        BY <1>1, SaidSound
      <4>2. CASE o.says = <<>>
        BY <4>2 DEF Speaks
      <4>3. CASE o.says = <<f>> /\ worker.number < o.after.number
        <5>1. worker.number \in Nat /\ o.after.number \in Nat /\ f.id = worker.number
          BY <1>1, <3>2, <4>1 DEF Worker, Newly
        <5>2. SaidBy(o.after, f)
          BY <4>3, <5>1 DEF SaidBy
        <5> HIDE DEF f
        <5>3. QED BY <4>1, <4>3, <5>2 DEF Speaks
      <4>4. QED BY <3>2, <4>2, <4>3
    <3>7. QED BY <1>1, <3>2, <3>4, <3>5, <3>6
  <2>3. QED BY <2>1, <2>2 DEF WorkerStep
<1>3. GoesOn(worker, worker')
  BY <1>2 DEF GoesOn
<1>4. worker'.number # 0
  BY <1>1, <1>2, <1>3 DEF GoesOn, Worker
<1>5. output \in Seq(Voiced) /\ Rising(worker.blanked, output)
  BY DEF InTurn, Kinds
<1>6. \A e : Newly(w, e) => e \in Voiced /\ \A d \in Voiced : SaidBy(worker, d) => Before(worker.blanked, d, e)
  BY <1>1, <1>2, NewIsAfter DEF Newly
<1>7. \A e : SaidBy(o.after, e) <=> SaidBy(worker', e)
  BY <1>2 DEF SaidBy
<1>8. \A d \in Members(output) : d \in Voiced /\ SaidBy(worker, d)
  BY <1>1, AllVoiced DEF InTurn, Past
<1>9. CASE o.says = <<>>
  <2>1. output' = output
    BY <1>2, <1>5, <1>9, ConcatEmptySeq
  <2> DEFINE New == {}
  <2>2. /\ New \subseteq Voiced /\ Members(output') = Members(output) \cup New
        /\ \A f \in New : SaidBy(worker', f)
        /\ \A d \in Voiced, f \in New : SaidBy(worker, d) => Before(worker.blanked, d, f)
    BY <2>1
  <2> HIDE DEF New
  <2>3. output' \in Seq(Voiced) /\ Rising(worker.blanked, output')
    BY <1>5, <2>1
  <2>4. QED BY <1>1, <1>2, <1>3, <1>4, <2>2, <2>3, OutputGrows
<1>10. ASSUME NEW e, o.says = <<e>>, Newly(w, e), SaidBy(o.after, e) PROVE InTurn'
  <2>1. e \in Voiced /\ output' = Append(output, e)
    BY <1>2, <1>5, <1>6, <1>10, TwoInTurn
  <2>2. Ahead(worker.blanked, Members(output), {e})
    BY <1>6, <1>8, <1>10 DEF Ahead
  <2>3. output' \in Seq(Voiced) /\ Members(output') = Members(output) \cup {e} /\ Rising(worker.blanked, output')
    BY <1>5, <2>1, <2>2, AppendedInTurn, AppendProperties
  <2> DEFINE New == {e}
  <2>4. New \subseteq Voiced /\ Members(output') = Members(output) \cup New
    BY <2>1, <2>3
  <2>5. /\ \A f \in New : SaidBy(worker', f)
        /\ \A d \in Voiced, f \in New : SaidBy(worker, d) => Before(worker.blanked, d, f)
    BY <1>6, <1>7, <1>10
  <2> HIDE DEF New
  <2>6. QED BY <1>1, <1>2, <1>3, <1>4, <2>3, <2>4, <2>5, OutputGrows
<1>11. ASSUME NEW e, NEW f, o.says = <<e, f>>, Newly(w, e), Newly(w, f), Before(worker.blanked, e, f),
              SaidBy(o.after, e), SaidBy(o.after, f)
       PROVE  InTurn'
  <2>1. e \in Voiced /\ f \in Voiced
    BY <1>6, <1>11
  <2>2. output' = Append(Append(output, e), f)
    BY <1>2, <1>5, <1>11, <2>1, TwoInTurn
  <2> DEFINE one == Append(output, e)
  <2>3. Ahead(worker.blanked, Members(output), {e}) /\ Ahead(worker.blanked, Members(output), {f})
    BY <1>6, <1>8, <1>11 DEF Ahead
  <2>4. one \in Seq(Voiced) /\ Members(one) = Members(output) \cup {e} /\ Rising(worker.blanked, one)
    BY <1>5, <2>1, <2>3, AppendedInTurn, AppendProperties
  <2>5. Ahead(worker.blanked, Members(one), {f})
    BY <1>11, <2>3, <2>4 DEF Ahead
  <2> HIDE DEF one
  <2>6. Append(one, f) \in Seq(Voiced) /\ Members(Append(one, f)) = Members(one) \cup {f} /\ Rising(worker.blanked, Append(one, f))
    <3>1. Append(one, f) \in Seq(Voiced)
      BY <2>1, <2>4, AppendProperties
    <3>2. one \in Seq(Voiced) /\ f \in Voiced /\ Rising(worker.blanked, one) /\ Ahead(worker.blanked, Members(one), {f})
      BY <2>1, <2>4, <2>5
    <3>3. Members(Append(one, f)) = Members(one) \cup {f} /\ Rising(worker.blanked, Append(one, f))
      BY <3>2, AppendedInTurn
    <3>4. QED BY <3>1, <3>3
  <2>7. output' \in Seq(Voiced) /\ Members(output') = Members(output) \cup {e, f} /\ Rising(worker.blanked, output')
    BY <2>2, <2>4, <2>6 DEF one
  <2> DEFINE New == {e, f}
  <2>8. New \subseteq Voiced /\ Members(output') = Members(output) \cup New
    BY <2>1, <2>7
  <2>9. /\ \A g \in New : SaidBy(worker', g)
        /\ \A d \in Voiced, g \in New : SaidBy(worker, d) => Before(worker.blanked, d, g)
    BY <1>6, <1>7, <1>11
  <2> HIDE DEF New
  <2>10. QED BY <1>1, <1>2, <1>3, <1>4, <2>7, <2>8, <2>9, OutputGrows
<1>12. QED BY <1>2, <1>9, <1>10, <1>11 DEF Speaks

LEMMA BabblesInTurn ==
  ASSUME InTurn, Babbles, UNCHANGED <<session, poll, transcript>> PROVE InTurn'
<1>1. PICK phase \in {"garbled", "invalid"} :
        output' = Append(output, [phase |-> phase, id |-> 0, revision |-> 0, text |-> 0])
  BY DEF Babbles
<1> DEFINE e == [phase |-> phase, id |-> 0, revision |-> 0, text |-> 0]
<1>2. e \in Voiced /\ e.id = 0
  BY DEF Voiced, Event
<1> HIDE DEF e
<1>3. /\ output \in Seq(Voiced) /\ Rising(worker.blanked, output) /\ worker \in Worker /\ worker.number # 0
      /\ worker.number \in Nat /\ worker.revision \in Nat /\ UNCHANGED worker
  BY DEF InTurn, Kinds, Spoke, Worker, Babbles
<1>4. \A d : Before(worker.blanked, d, e)
  BY <1>2 DEF Before
<1>5. output' \in Seq(Voiced) /\ Members(output') = Members(output) \cup {e} /\ Rising(worker.blanked, output')
  <2>1. output' = Append(output, e)
    BY <1>1 DEF e
  <2>2. Ahead(worker.blanked, Members(output), {e})
    BY <1>4 DEF Ahead
  <2>3. QED BY <1>2, <1>3, <2>1, <2>2, AppendedInTurn, AppendProperties
<1>6. SaidBy(worker', e)
  BY <1>2, <1>3 DEF SaidBy
<1>7. GoesOn(worker, worker')
  BY <1>3 DEF GoesOn
<1> DEFINE New == {e}
<1>8. /\ New \subseteq Voiced /\ Members(output') = Members(output) \cup New
      /\ \A f \in New : SaidBy(worker', f)
      /\ \A d \in Voiced, f \in New : SaidBy(worker, d) => Before(worker.blanked, d, f)
  BY <1>2, <1>4, <1>5, <1>6
<1> HIDE DEF New
<1>9. worker' \in Worker /\ worker'.number # 0
  BY <1>3
<1>10. QED BY <1>5, <1>7, <1>8, <1>9, OutputGrows

LEMMA StepInTurn == ASSUME Shape, InTurn, Next PROVE InTurn'
<1>1. /\ Kinds /\ output \in Seq(Voiced) /\ Rising(worker.blanked, output) /\ worker \in Worker
      /\ session \in Session /\ poll \in Poll /\ Members(output) \subseteq Members(output)
  BY DEF InTurn, Kinds, Spoke
<1>2. NoPoll.events = <<>> /\ \A phase \in {"asked", "lost"} :
        LET p == [NoPoll EXCEPT !.phase = phase] IN p \in Poll /\ p.events = <<>> /\ p.phase = phase
  BY EmptySeq DEF NoPoll, Poll
<1>3. PollDropped => poll' = poll \/ (poll' \in Poll /\ poll'.events = <<>> /\ poll'.phase = "lost")
  BY <1>2 DEF PollDropped
<1>4. ASSUME UNCHANGED <<worker, output, session, transcript>>, poll' = poll \/ PollDropped PROVE InTurn'
  BY <1>1, <1>3, <1>4, TurnKept
<1>5. ASSUME UNCHANGED <<output, poll, transcript>>,
             session' \in Session, session'.ring = session.ring, session'.told = session.told,
             worker' \in Worker, worker'.number = worker.number, worker'.revision = worker.revision /\ worker'.blanked = worker.blanked
      PROVE  InTurn'
  BY <1>1, <1>5, TurnKept
<1>6. Killed => worker' \in Worker /\ worker'.number = worker.number /\ worker'.revision = worker.revision /\ worker'.blanked = worker.blanked
  BY <1>1 DEF Killed, Worker
<1>7. ASSUME NEW b \in BOOLEAN
      PROVE  /\ [session EXCEPT !.stopped = b] \in Session /\ [session EXCEPT !.paused = b] \in Session
             /\ [session EXCEPT !.timer = b] \in Session
             /\ [session EXCEPT !.stopped = TRUE, !.timer = TRUE] \in Session
  BY <1>1 DEF Session
<1>8. CASE Worklet \/ PcmArrives \/ PostReturns \/ PostLost \/ PollFails
  BY <1>4, <1>8 DEF Worklet, PcmArrives, PostReturns, PostLost, PollFails, page
<1>9. CASE Asks("pause") \/ Asks("resume") \/ ControlReturns \/ ControlLost
  BY <1>4, <1>9 DEF Asks, ControlReturns, ControlLost, PanelMoves
<1>10. CASE StopClicked \/ ClientStops \/ StopSends \/ StopLost \/ AudioServed \/ AudioWritten
  BY <1>4, <1>10 DEF StopClicked, ClientStops, StopSends, StopLost, AudioServed, AudioWritten, page
<1>11. CASE PollSends
  <2>1. poll' \in Poll /\ poll'.events = <<>> /\ poll'.phase = "asked" /\ session.told = 0
    BY <1>2, <1>11 DEF PollSends, InTurn, Kinds, Answers
  <2>2. QED BY <1>1, <1>11, <2>1, TurnKept DEF PollSends, page
<1>12. CASE AudioBroken
  BY <1>1, <1>5, <1>7, <1>12 DEF AudioBroken, page, Session
<1>13. CASE ControlServed
  <2>1. UNCHANGED <<worker, output, poll, transcript>>
    BY <1>13 DEF ControlServed
  <2>2. session' \in {session, [session EXCEPT !.paused = TRUE], [session EXCEPT !.paused = FALSE]}
    BY <1>13 DEF ControlServed
  <2>3. session' \in Session /\ session'.ring = session.ring /\ session'.told = session.told
    BY <1>1, <1>7, <2>2 DEF Session
  <2>4. QED BY <1>1, <1>5, <2>1, <2>3
<1>14. CASE StopServed
  <2>1. UNCHANGED <<worker, output, poll, transcript>>
    BY <1>14 DEF StopServed, page
  <2>2. session' \in {session, [session EXCEPT !.stopped = TRUE, !.timer = TRUE]}
    BY <1>14 DEF StopServed
  <2>3. session' \in Session /\ session'.ring = session.ring /\ session'.told = session.told
    BY <1>1, <1>7, <2>2 DEF Session
  <2>4. QED BY <1>1, <1>5, <2>1, <2>3
<1>15. CASE KillTimer
  BY <1>1, <1>5, <1>6, <1>7, <1>15 DEF KillTimer, page, Session
<1>16. CASE ExitSeen
  <2>1. worker' \in Worker /\ worker'.number = worker.number /\ worker'.revision = worker.revision /\ worker'.blanked = worker.blanked
    BY <1>1, <1>16 DEF ExitSeen, Worker
  <2>2. QED BY <1>1, <1>5, <1>7, <1>16, <2>1 DEF ExitSeen, page, Session
<1>17. CASE (Crashes \/ Babbles) /\ UNCHANGED <<page, post, stop, poll, session>>
  <2>1. CASE Crashes
    BY <1>1, <1>5, <1>6, <1>17, <2>1 DEF Crashes, page
  <2>2. CASE Babbles
    BY <1>17, <2>2, BabblesInTurn DEF page
  <2>3. QED BY <1>17, <2>1, <2>2
<1>18. CASE Work
  BY <1>8, <1>9, <1>10, <1>11, <1>12, <1>13, <1>14, <1>15, <1>16, <1>18, DataInTurn, PollServedInTurn,
     PollReturnsInTurn, WorkerInTurn DEF Work, Sending
<1>19. CASE Fault
  BY <1>8, <1>9, <1>10, <1>17, <1>19 DEF Fault
<1>20. QED BY <1>18, <1>19 DEF Next

LEMMA InitInTurn == Init => InTurn
<1> SUFFICES ASSUME Init PROVE InTurn
  OBVIOUS
<1>1. /\ worker.number = 1 /\ output = <<>> /\ session.ring = <<>> /\ session.told = 0 /\ poll = NoPoll
      /\ transcript = Empty
  BY DEF Init
<1>2. Members(<<>>) = {} /\ Rising(worker.blanked, <<>>) /\ Had(Empty) = {} /\ NoPoll.events = <<>> /\ NoPoll.phase = "idle"
  BY NothingInTurn DEF NoPoll
<1>3. <<>> \in Seq(Listed) /\ <<>> \in Seq(Voiced) /\ Len(<<>>) = 0
  BY EmptySeq
<1>4. session \in Session /\ poll \in Poll
  BY <1>3 DEF Init, Session, Poll, NoPoll
<1>5. worker \in Worker
  BY InitHolds DEF IInv, Shape
<1>6. Rest = {}
  <2>1. 0 + 1..0 = {}
    OBVIOUS
  <2>2. QED BY <1>1, <1>3, <2>1 DEF Rest
<1>7. Kinds
  BY <1>1, <1>2, <1>3, <1>4, <1>5 DEF Kinds, Spoke, Answers
<1>8. QED BY <1>1, <1>2, <1>6, <1>7 DEF InTurn, Past, Ahead

\* The output of the worker, the ring of the companion and the answers of its route keep the
\* utterances in turn, revision after revision, whatever is dropped on the way: every event
\* that the page hears comes after all that its transcript holds of the same utterance.  The
\* numbers of which an utterance ended blank after partials are left out, no others.
THEOREM SpokenInTurn == Spec => []InTurn
<1>1. InTurn /\ IInv /\ [Next]_vars => InTurn'
  <2> SUFFICES ASSUME InTurn, IInv, [Next]_vars PROVE InTurn'
    OBVIOUS
  <2>1. CASE Next
    BY <2>1, StepInTurn DEF IInv
  <2>2. CASE UNCHANGED vars
    BY <2>2 DEF vars, InTurn, Kinds, Spoke, Answers, Past, Rest
  <2>3. QED BY <2>1, <2>2
<1>2. QED BY <1>1, InitInTurn, NothingMissing, PTL DEF Spec

\* applyTranscriptEvent and finishUtterance: a final that reaches a listening panel is never
\* stale, and no later event of its answer overrides it, so that it becomes the text of its
\* utterance in finalForAnalysis; unless an utterance of its number ended blank before.
THEOREM FinalsAreKept == Spec => FinalsStay
<1> DEFINE stay ==
      poll.phase = "answered" /\ poll' = NoPoll /\ Wanted =>
        \A i \in DOMAIN Valid(poll.events) :
          poll.events[i].phase = "final" /\ poll.events[i].id \notin worker.blanked =>
          LET id == poll.events[i].id
          IN id \in DOMAIN finals' /\ finals'[id] = poll.events[i].text
<1>1. InTurn /\ [Next]_vars => [stay]_vars
  <2> SUFFICES ASSUME InTurn, Next, poll.phase = "answered", poll' = NoPoll, Wanted PROVE stay
    OBVIOUS
  <2>1. CASE PollReturns
    <3> DEFINE t == HeardOf([transcript |-> transcript, finals |-> finals], Valid(poll.events))
    <3>1. finals' = t.finals
      BY <2>1 DEF PollReturns
    <3>2. \A i \in DOMAIN Valid(poll.events) :
            /\ Valid(poll.events)[i] = poll.events[i]
            /\ Valid(poll.events)[i].phase = "final" /\ Valid(poll.events)[i].id \notin worker.blanked =>
                 /\ Valid(poll.events)[i].id \in DOMAIN t.finals
                 /\ t.finals[Valid(poll.events)[i].id] = Valid(poll.events)[i].text
      BY AnswerTaken
    <3> HIDE DEF t
    <3>3. QED BY <3>1, <3>2
  <2>2. CASE ~PollReturns
    <3>1. poll'.phase = "idle"
      BY DEF NoPoll
    <3>2. PollDropped => poll' = poll \/ poll'.phase = "lost"
      BY DEF PollDropped, NoPoll
    <3>3. poll' # poll
      BY <3>1
    <3>4. QED BY <2>2, <3>1, <3>2, <3>3 DEF Next, Work, Fault, Worklet, PcmArrives, Sending, AudioServed,
         AudioWritten, AudioBroken, PostReturns, PollSends, PollServed, Asks, ControlServed, ControlReturns, PanelMoves,
         StopClicked, ClientStops, StopSends, StopServed, KillTimer, Data, Parsed, Garbled, ExitSeen, WorkerStep, PostLost, PollFails,
         ControlLost, StopLost
  <2>3. QED BY <2>1, <2>2
<1>2. QED BY <1>1, SpokenInTurn, PTL DEF Spec, FinalsStay

-----------------------------------------------------------------------------
(* Types: what is on its way, and what room it takes *)

\* What may be on its way from a worker that is at this utterance, and what the ring keeps of it.
Known(n) == {e \in Voiced : e.id <= n}

Kept(n) == {e \in Known(n) : e.phase # "garbled"}

\* The page and its requests.
Requests ==
  /\ Len(chain) <= MaxQueued /\ faults \in 0..MaxFaults
  /\ control \in [kind : {"none", "pause", "resume"}, phase : {"sent", "served"}]
  /\ stop \in {"none", "sent", "served", "lost"}
  /\ panel \in {"listening", "paused", "stopping", "draining", "ended", "failed"}

\* Before a full pipe waits the chunk that is being written, then perhaps the flush; a post that
\* was given up leaves its chunk there.
Piped == Len(input) <= MaxPipe + faults + (IF session.stopped THEN 2 ELSE IF post = "writing" THEN 1 ELSE 0)

Numbered(s, n) ==
  Batch(s) /\ DOMAIN s.transcript \subseteq 1..n /\ DOMAIN s.finals \subseteq DOMAIN s.transcript

Page == [transcript |-> transcript, finals |-> finals]

Voices ==
  /\ Spoke /\ session \in Session /\ poll \in Poll
  /\ output \in Seq(Known(worker.number)) /\ Len(output) <= MaxPipe
  /\ session.ring \in Seq(Kept(worker.number)) /\ Len(session.ring) <= MaxEvents
  /\ session.told <= Len(session.ring)
  /\ poll.events \in Seq(Kept(worker.number))
  /\ Numbered(Page, worker.number)

TInv == Requests /\ Piped /\ Voices

LEMMA RequestsInit == Init => Requests /\ Piped
<1> SUFFICES ASSUME Init PROVE Requests /\ Piped
  OBVIOUS
<1>1. chain = <<>> /\ input = <<>> /\ faults = 0 /\ post = "sent" /\ session.stopped = FALSE /\ Len(<<>>) = 0
  BY EmptySeq DEF Init
<1>2. Requests
  BY <1>1, MicrophoneConstants DEF Init, Requests, NoControl
<1>3. Piped
  BY <1>1, MicrophoneConstants DEF Piped
<1>4. QED BY <1>2, <1>3

LEMMA RequestsKept == ASSUME Shape, Requests, Next PROVE Requests'
<1>1. Len(chain) \in Nat /\ Len(chain) <= MaxQueued /\ MaxQueued \in Nat
  BY LenProperties, MicrophoneConstants DEF Shape, Requests
<1>2. Len(chain') <= MaxQueued
  <2>1. CASE PcmArrives
    <3>1. CASE Len(chain) = MaxQueued
      BY <1>1, <2>1, <3>1 DEF PcmArrives
    <3>2. CASE Len(chain) # MaxQueued
      <4>1. mic.port \in Seq(Nat) /\ mic.port # <<>>
        BY <2>1 DEF PcmArrives, Shape, Mic
      <4>2. Head(mic.port) \in Nat
        BY <4>1, HeadTailProperties
      <4>3. chain' = Append(chain, Head(mic.port)) /\ chain \in Seq(Nat)
        BY <2>1, <3>2 DEF PcmArrives, Shape
      <4>4. Len(chain') = Len(chain) + 1
        BY <4>2, <4>3, AppendProperties
      <4>5. QED BY <1>1, <3>2, <4>4
    <3>3. QED BY <3>1, <3>2
  <2>2. CASE PostReturns
    <3>1. chain' = Tail(chain) /\ chain # <<>> /\ chain \in Seq(Nat)
      BY <2>2 DEF PostReturns, Shape
    <3>2. Len(chain') = Len(chain) - 1
      BY <3>1, HeadTailProperties
    <3>3. QED BY <1>1, <3>2
  <2>3. CASE ~PcmArrives /\ ~PostReturns
    <3>1. chain' = chain
      BY <2>3 DEF Next, Work, Fault, Worklet, Sending, PollSends, PollServed, PollReturns, Asks, ControlServed,
         ControlReturns, PanelMoves, StopClicked, ClientStops, StopSends, StopServed, KillTimer, Data, Parsed, Garbled, ExitSeen,
         WorkerStep, PostLost, PollFails, ControlLost, StopLost, AudioServed, AudioWritten, AudioBroken, page
    <3>2. QED BY <1>1, <3>1
  <2>4. QED BY <2>1, <2>2, <2>3
<1>3. faults' \in 0..MaxFaults
  BY MicrophoneConstants DEF Next, Requests
<1>4. control' \in [kind : {"none", "pause", "resume"}, phase : {"sent", "served"}]
  <2>1. control \in [kind : {"none", "pause", "resume"}, phase : {"sent", "served"}]
    BY DEF Requests
  <2>2. CASE Asks("pause") \/ Asks("resume")
    BY <2>2 DEF Asks
  <2>3. CASE ControlServed
    BY <2>1, <2>3 DEF ControlServed
  <2>4. CASE ControlReturns \/ ControlLost
    BY <2>4 DEF ControlReturns, ControlLost, PanelMoves, NoControl
  <2>5. CASE ~(Asks("pause") \/ Asks("resume")) /\ ~ControlServed /\ ~(ControlReturns \/ ControlLost)
    <3>1. control' = control
      BY <2>5 DEF Next, Work, Fault, Worklet, Sending, PcmArrives, PollSends, PollServed, PollReturns,
         StopClicked, ClientStops, StopSends, StopServed, KillTimer, Data, Parsed, Garbled, ExitSeen,
         WorkerStep, PostReturns, PostLost, PollFails, StopLost, AudioServed, AudioWritten, AudioBroken, page
    <3>2. QED BY <2>1, <3>1
  <2>6. QED BY <2>2, <2>3, <2>4, <2>5
<1>5. Fail => stop' \in {stop, "sent"} /\ panel' \in {panel, "failed"}
  BY DEF Fail
<1>6. stop' \in {stop, "sent", "served", "lost"} /\ panel' \in {panel, "failed", "paused", "listening", "stopping", "draining", "ended"}
  <2>1. CASE PcmArrives \/ PostReturns \/ PollReturns \/ PollFails
    BY <1>5, <2>1 DEF PcmArrives, PostReturns, PollReturns, PollFails
  <2>2. CASE Asks("pause") \/ Asks("resume") \/ ControlServed \/ ControlReturns \/ ControlLost
    BY <2>2 DEF Asks, ControlServed, ControlReturns, ControlLost, PanelMoves
  <2>3. CASE StopClicked \/ ClientStops \/ StopSends \/ StopServed \/ StopLost
    BY <2>3 DEF StopClicked, ClientStops, StopSends, StopServed, StopLost, page
  <2>4. CASE Worklet \/ PollSends \/ PollServed \/ KillTimer \/ Data \/ ExitSeen \/ WorkerStep
    BY <2>4 DEF Worklet, PollSends, PollServed, KillTimer, Data, Parsed, Garbled, ExitSeen, WorkerStep, page
  <2>5. CASE PostLost \/ AudioServed \/ AudioWritten \/ AudioBroken
             \/ ((Crashes \/ Babbles) /\ UNCHANGED <<page, post, stop, poll, session>>)
    BY <2>5 DEF PostLost, AudioServed, AudioWritten, AudioBroken, page
  <2>6. QED BY <2>1, <2>2, <2>3, <2>4, <2>5 DEF Next, Work, Fault, Sending
<1>7. QED BY <1>2, <1>3, <1>4, <1>6 DEF Requests

-----------------------------------------------------------------------------
(* The pipe *)

\* No room is taken, and none that was granted is withdrawn.
LEMMA NothingPiped ==
  ASSUME Shape, Piped, faults \in Nat, faults' \in Nat, session.stopped \in BOOLEAN, session'.stopped \in BOOLEAN,
         input' \in Seq(Nat), Len(input') <= Len(input), session.stopped => session'.stopped, faults <= faults',
         post = "writing" => post' = "writing" \/ session'.stopped \/ faults' = faults + 1 \/ Len(input') <= MaxPipe
  PROVE  Piped'
<1> DEFINE n == Len(input)
           m == Len(input')
           f == faults
           g == faults'
           x == IF session.stopped THEN 2 ELSE IF post = "writing" THEN 1 ELSE 0
           y == IF session'.stopped THEN 2 ELSE IF post' = "writing" THEN 1 ELSE 0
<1>1. n \in Nat /\ m \in Nat /\ m <= n /\ MaxPipe \in Nat /\ n <= MaxPipe + f + x /\ f \in Nat /\ g \in Nat /\ f <= g
  BY LenProperties, MicrophoneConstants DEF Shape, Piped
<1>2. x \in Nat /\ y \in Nat /\ (x <= y \/ (x = 1 /\ g = f + 1) \/ m <= MaxPipe)
  OBVIOUS
<1>3. m <= MaxPipe + g + y
  <2> HIDE DEF n, m, f, g, x, y
  <2>1. CASE x <= y
    BY <1>1, <1>2, <2>1
  <2>2. CASE x = 1 /\ g = f + 1
    BY <1>1, <1>2, <2>2
  <2>3. CASE m <= MaxPipe
    BY <1>1, <1>2, <2>3
  <2>4. QED BY <1>2, <2>1, <2>2, <2>3
<1>4. QED BY <1>3 DEF Piped

LEMMA PipedKept == ASSUME Shape, Shape', Requests, Requests', Voices, Voices', Piped, Next PROVE Piped'
<1>1. /\ faults \in Nat /\ faults' \in Nat /\ MaxPipe \in Nat /\ input \in Seq(Nat) /\ input' \in Seq(Nat)
      /\ session.stopped \in BOOLEAN /\ session'.stopped \in BOOLEAN /\ faults <= faults' /\ Len(input) \in Nat
  <2>1. faults \in Nat /\ (faults' = faults \/ faults' = faults + 1)
    BY MicrophoneConstants DEF Requests, Next
  <2>2. faults <= faults'
    <3>1. \A a, b \in Int : (b = a \/ b = a + 1) => a <= b
      OBVIOUS
    <3>2. QED BY <2>1, <3>1
  <2>3. faults' \in Nat /\ MaxPipe \in Nat
    BY MicrophoneConstants DEF Requests
  <2>4. input \in Seq(Nat) /\ input' \in Seq(Nat)
    BY DEF Shape
  <2>5. session.stopped \in BOOLEAN /\ session'.stopped \in BOOLEAN
    BY DEF Voices, Session
  <2>6. Len(input) \in Nat
    BY <2>4, LenProperties
  <2>7. QED BY <2>1, <2>2, <2>3, <2>4, <2>5, <2>6
<1>2. session.stopped => session'.stopped
  <2>1. CASE Work
    BY <2>1 DEF Work, Sending, Worklet, PcmArrives, PostReturns, PollSends, PollServed, PollReturns, Asks,
       ControlServed, ControlReturns, PanelMoves, StopClicked, ClientStops, StopSends, StopServed, KillTimer,
       Data, Parsed, Garbled, Push, ExitSeen, WorkerStep, AudioServed, AudioWritten, AudioBroken, page, Voices, Session
  <2>2. CASE Fault
    BY <2>2 DEF Fault, PostLost, PollFails, ControlLost, PanelMoves, StopLost
  <2>3. QED BY <2>1, <2>2 DEF Next
<1>3. ASSUME Len(input') <= Len(input),
             post = "writing" => post' = "writing" \/ session'.stopped \/ faults' = faults + 1 \/ Len(input') <= MaxPipe
      PROVE  Piped'
  BY <1>1, <1>2, <1>3, NothingPiped
<1>4. ASSUME UNCHANGED <<input, post>> PROVE Piped'
  BY <1>1, <1>3, <1>4
<1>5. CASE AudioServed
  <2>1. chain # <<>> /\ chain \in Seq(Nat) /\ Head(chain) \in Nat /\ post = "sent" /\ UNCHANGED session
    BY <1>5, HeadTailProperties DEF AudioServed, Shape
  <2>2. CASE session.stopped \/ session.paused
    BY <1>1, <1>3, <1>5, <2>1, <2>2 DEF AudioServed
  <2>3. CASE ~(session.paused \/ session.stopped)
    <3>1. post' = "writing" /\ input' = Append(input, Head(chain))
      BY <1>5, <2>3 DEF AudioServed
    <3>2. Len(input') = Len(input) + 1
      BY <1>1, <2>1, <3>1, AppendProperties
    <3>3. Len(input) <= MaxPipe + faults
      BY <1>1, <2>1, <2>3 DEF Piped
    <3>4. QED BY <1>1, <2>1, <2>3, <3>1, <3>2, <3>3 DEF Piped
  <2>4. QED BY <2>2, <2>3
<1>6. CASE AudioWritten
  BY <1>1, <1>3, <1>6 DEF AudioWritten
<1>7. CASE AudioBroken
  <2>1. session'.stopped
    BY <1>7 DEF AudioBroken, Voices, Session
  <2>2. QED BY <1>1, <1>3, <1>7, <2>1 DEF AudioBroken
<1>8. CASE PostReturns
  BY <1>1, <1>3, <1>8 DEF PostReturns
<1>9. CASE StopServed
  <2>1. CASE session.stopped
    BY <1>4, <1>9, <2>1 DEF StopServed
  <2>2. CASE ~session.stopped
    <3>1. session'.stopped /\ input' = Append(input, Flush)
      BY <1>9, <2>2 DEF StopServed, Voices, Session
    <3>2. Len(input') = Len(input) + 1
      BY <1>1, <3>1, AppendProperties DEF Flush
    <3>3. Len(input) <= MaxPipe + faults + 1
      BY <1>1, <2>2 DEF Piped
    <3>4. QED BY <1>1, <3>1, <3>2, <3>3 DEF Piped
  <2>3. QED BY <2>1, <2>2
<1>10. CASE WorkerStep
  <2>1. input # <<>> /\ input' = Tail(input) /\ UNCHANGED post
    BY <1>10 DEF WorkerStep, Reads, Flushes
  <2>2. Len(input') = Len(input) - 1
    BY <1>1, <2>1, HeadTailProperties
  <2>3. QED BY <1>1, <1>3, <2>1, <2>2
<1>11. CASE PostLost /\ faults' = faults + 1
  BY <1>1, <1>3, <1>11 DEF PostLost
<1>12. CASE PollFails \/ ControlLost \/ StopLost \/ ((Crashes \/ Babbles) /\ UNCHANGED <<page, post, stop, poll, session>>)
  BY <1>4, <1>12 DEF PollFails, ControlLost, PanelMoves, StopLost, Crashes, Babbles
<1>13. CASE Worklet \/ PcmArrives \/ PollSends \/ PollServed \/ PollReturns \/ Asks("pause") \/ Asks("resume")
            \/ ControlServed \/ ControlReturns
  BY <1>4, <1>13 DEF Worklet, PcmArrives, PollSends, PollServed, PollReturns, Asks, ControlServed, ControlReturns,
     PanelMoves
<1>14. CASE StopClicked \/ ClientStops \/ StopSends \/ KillTimer \/ Data \/ ExitSeen
  BY <1>4, <1>14 DEF StopClicked, ClientStops, StopSends, KillTimer, Data, Parsed, Garbled, ExitSeen
<1>15. QED BY <1>5, <1>6, <1>7, <1>8, <1>9, <1>10, <1>11, <1>12, <1>13, <1>14 DEF Next, Work, Fault, Sending

-----------------------------------------------------------------------------
(* The numbers of what is on its way *)

LEMMA KnownGrows ==
  ASSUME NEW n \in Nat, NEW m \in Nat, n <= m
  PROVE  Known(n) \subseteq Known(m) /\ Kept(n) \subseteq Kept(m) /\ Kept(n) \subseteq Listed
         /\ Known(n) \subseteq Voiced /\ 1..n \subseteq 1..m
<1>1. \A e \in Voiced : e.id \in Nat
  BY DEF Voiced, Event
<1>2. \A e \in Voiced : e.id <= n => e.id <= m
  BY <1>1
<1>3. Known(n) \subseteq Known(m)
  BY <1>2 DEF Known
<1>4. QED BY <1>3 DEF Kept, Known, Listed

LEMMA SeqGrows == ASSUME NEW S, NEW T, S \subseteq T, NEW s \in Seq(S) PROVE s \in Seq(T)
<1>1. Len(s) \in Nat /\ DOMAIN s = 1..Len(s) /\ s = [i \in 1..Len(s) |-> s[i]]
  BY LenProperties
<1>2. \A i \in 1..Len(s) : s[i] \in T
  BY ElementOfSeq
<1>3. QED BY <1>1, <1>2

\* A step that drops at most what was told, while the worker may go on to later utterances.
LEMMA VoicesKept ==
  ASSUME Voices, worker' \in Worker, worker'.number >= worker.number,
         output' \in Seq(Known(worker'.number)), Len(output') <= MaxPipe,
         session' \in Session, session'.ring = session.ring, session'.told = session.told,
         poll' = poll \/ (poll' \in Poll /\ poll'.events = <<>>), UNCHANGED <<transcript, finals>>
  PROVE  Voices'
<1> DEFINE n == worker.number
           m == worker'.number
<1>1. n \in Nat /\ m \in Nat /\ n <= m /\ n # 0
  BY DEF Voices, Spoke, Worker
<1>2. m # 0
  BY <1>1
<1>3. Kept(n) \subseteq Kept(m) /\ 1..n \subseteq 1..m
  <2> HIDE DEF n, m
  <2>1. QED BY <1>1, KnownGrows
<1>4. session.ring \in Seq(Kept(m)) /\ poll.events \in Seq(Kept(m))
  BY <1>3, SeqGrows DEF Voices
<1>5. poll' \in Poll /\ poll'.events \in Seq(Kept(m))
  <2>1. <<>> \in Seq(Kept(m))
    BY EmptySeq
  <2>2. QED BY <1>4, <2>1 DEF Voices
<1>6. Numbered(Page, m)
  BY <1>3 DEF Voices, Numbered
<1>7. Page' = Page
  BY DEF Page
<1>8. QED BY <1>2, <1>4, <1>5, <1>6, <1>7 DEF Voices, Spoke

LEMMA VoicesInit == Init => Voices
<1> SUFFICES ASSUME Init PROVE Voices
  OBVIOUS
<1>1. /\ worker.number = 1 /\ output = <<>> /\ session.ring = <<>> /\ session.told = 0 /\ poll.events = <<>>
      /\ transcript = Empty /\ finals = Empty
  BY DEF Init, NoPoll
<1>2. Len(<<>>) = 0 /\ <<>> \in Seq(Known(1)) /\ <<>> \in Seq(Kept(1)) /\ MaxPipe \in Nat /\ MaxEvents \in Nat
  BY EmptySeq, MicrophoneConstants
<1>3. Numbered(Page, 1)
  BY <1>1 DEF Numbered, Batch, Page, Empty
<1>4. session \in Session /\ poll \in Poll /\ Spoke
  BY InitInTurn DEF InTurn, Kinds
<1>5. QED BY <1>1, <1>2, <1>3, <1>4 DEF Voices

LEMMA PushKept ==
  ASSUME Voices, NEW event \in Kept(worker.number)
  PROVE  LET next == Push(event)
         IN /\ next \in Session /\ next.ring \in Seq(Kept(worker.number)) /\ Len(next.ring) <= MaxEvents
            /\ next.told <= Len(next.ring)
<1> DEFINE ring == session.ring
           next == Push(event)
           S == Kept(worker.number)
<1>1. /\ session \in Session /\ ring \in Seq(S) /\ session.told \in Nat /\ session.told <= Len(ring)
      /\ Len(ring) \in Nat /\ Len(ring) <= MaxEvents /\ MaxEvents \in Nat \ {0} /\ event \in S
  BY LenProperties, MicrophoneConstants DEF Voices, Session
<1>2. S \subseteq Listed
  BY KnownGrows DEF Voices, Spoke, Worker
<1> HIDE DEF S
<1>3. CASE Len(ring) < MaxEvents
  <2> DEFINE longer == Append(ring, event)
  <2>1. next = [session EXCEPT !.ring = longer]
    BY <1>3 DEF Push
  <2>2. longer \in Seq(S) /\ Len(longer) = Len(ring) + 1
    BY <1>1, AppendProperties
  <2>3. longer \in Seq(Listed)
    BY <1>2, <2>2, SeqGrows
  <2> HIDE DEF longer, next
  <2>4. next \in Session /\ next.ring = longer /\ next.told = session.told
    BY <1>1, <2>1, <2>3 DEF Session
  <2>5. QED BY <1>1, <1>3, <2>2, <2>4 DEF next, S
<1>4. CASE ~(Len(ring) < MaxEvents)
  <2> DEFINE tail == Tail(ring)
             moved == Append(tail, event)
             told == IF session.told = 0 THEN 0 ELSE session.told - 1
  <2>1. next = [session EXCEPT !.ring = moved, !.told = told]
    BY <1>4 DEF Push
  <2>2. ring # <<>>
    BY <1>1, <1>4, EmptySeq
  <2>3. tail \in Seq(S) /\ Len(tail) = Len(ring) - 1
    BY <1>1, <2>2, HeadTailProperties
  <2> HIDE DEF tail
  <2>4. moved \in Seq(S) /\ Len(moved) = Len(ring)
    BY <1>1, <2>3, AppendProperties
  <2>5. moved \in Seq(Listed)
    BY <1>2, <2>4, SeqGrows
  <2>6. told \in Nat /\ told <= Len(ring)
    BY <1>1
  <2> HIDE DEF moved, told, next
  <2>7. next \in Session /\ next.ring = moved /\ next.told = told
    BY <1>1, <2>1, <2>5, <2>6 DEF Session
  <2>8. QED BY <1>1, <2>4, <2>6, <2>7 DEF next, S
<1>5. QED BY <1>3, <1>4

LEMMA DataVoices == ASSUME Voices, Data PROVE Voices'
<1> DEFINE number == worker.number
           event == Head(output)
<1>1. UNCHANGED <<poll, transcript, finals>>
  BY DEF Data, page
<1>2. /\ output \in Seq(Known(number)) /\ Len(output) <= MaxPipe /\ worker \in Worker /\ number \in Nat
      /\ MaxPipe \in Nat /\ Len(output) \in Nat /\ DOMAIN output = 1..Len(output)
  BY LenProperties, MicrophoneConstants DEF Voices, Spoke, Worker
<1>3. ASSUME NEW n \in DOMAIN output, Garbled(n), Killed PROVE Voices'
  <2>1. worker' \in Worker /\ worker'.number = number
    BY <1>2, <1>3 DEF Killed, Worker
  <2>2. session' \in Session /\ session'.ring = session.ring /\ session'.told = session.told
    BY <1>3 DEF Voices, Session, Garbled
  <2>3. output' = SubSeq(output, n + 1, Len(output)) /\ n \in 1..Len(output)
    BY <1>2, <1>3 DEF Garbled
  <2>4. \A i \in n + 1..Len(output) : output[i] \in Known(number)
    <3>1. \A i \in n + 1..Len(output) : i \in 1..Len(output)
      BY <1>2, <2>3
    <3>2. QED BY <1>2, <3>1, ElementOfSeq
  <2>5. /\ output' \in Seq(Known(number))
        /\ Len(output') = IF n + 1 <= Len(output) THEN Len(output) - (n + 1) + 1 ELSE 0
    <3>1. n + 1 \in Int /\ Len(output) \in Int
      BY <1>2, <2>3
    <3>2. QED BY <2>3, <2>4, <3>1, SubSeqProperties
  <2>6. Len(output') <= MaxPipe
    BY <1>2, <2>3, <2>5
  <2>7. QED BY <1>1, <1>2, <2>1, <2>2, <2>5, <2>6, VoicesKept
<1>4. CASE Parsed
  <2>1. output # <<>> /\ output' = Tail(output) /\ event.phase # "garbled" /\ session' = Push(event) /\ UNCHANGED worker
    BY <1>4 DEF Parsed
  <2>2. event \in Known(number) /\ output' \in Seq(Known(number)) /\ Len(output') <= MaxPipe
    BY <1>2, <2>1, HeadTailProperties
  <2> HIDE DEF event
  <2>3. event \in Kept(number)
    BY <2>1, <2>2 DEF Kept
  <2> DEFINE next == Push(event)
  <2>4. next \in Session /\ next.ring \in Seq(Kept(number)) /\ Len(next.ring) <= MaxEvents /\ next.told <= Len(next.ring)
    BY <2>3, PushKept
  <2>5. session' = next
    BY <2>1
  <2> HIDE DEF next
  <2>6. QED BY <1>1, <2>1, <2>2, <2>4, <2>5 DEF Voices, Spoke, Page
<1>5. QED BY <1>3, <1>4 DEF Data

LEMMA PollServedVoices == ASSUME Voices, PollServed PROVE Voices'
<1>1. /\ UNCHANGED <<worker, output, transcript, finals>>
      /\ poll' = [phase |-> "answered", events |-> session.ring, stopped |-> session.stopped]
      /\ session' = [session EXCEPT !.told = Len(session.ring)]
  BY DEF PollServed, page
<1>2. /\ session \in Session /\ session.ring \in Seq(Listed) /\ Len(session.ring) \in Nat
      /\ session.stopped \in BOOLEAN
  BY LenProperties DEF Voices, Session
<1>3. /\ session' \in Session /\ session'.ring = session.ring /\ session'.told = Len(session.ring)
      /\ poll' \in Poll /\ poll'.events = session.ring
  BY <1>1, <1>2 DEF Session, Poll
<1>4. QED BY <1>1, <1>2, <1>3 DEF Voices, Spoke, Page

-----------------------------------------------------------------------------
(* An answer *)

LEMMA HeardNumbered ==
  ASSUME NEW n \in Nat, NEW s, Numbered(s, n), NEW e \in Kept(n), e.phase # "invalid"
  PROVE  Numbered(Heard(s, e), n)
<1> DEFINE u == [revision |-> e.revision, phase |-> e.phase, text |-> e.text]
           put == Put(s.transcript, e.id, u)
           fin == IF NewFinal(s, e.id, u) THEN Put(s.finals, e.id, u.text) ELSE s.finals
           t == [s EXCEPT !.transcript = put, !.finals = fin]
<1>1. e.id \in 1..n
  <2>1. e.id \in Nat /\ e.id <= n /\ e.id # 0
    BY DEF Kept, Known, Voiced, Event
  <2>2. QED BY <2>1
<1>2. DOMAIN put = DOMAIN s.transcript \cup {e.id} /\ DOMAIN fin \subseteq DOMAIN s.finals \cup {e.id}
  BY DEF Put
<1>3. Heard(s, e) = IF Stale(s, e.id, u) THEN s ELSE t
  BY DEF Heard, Receive
<1> HIDE DEF put, fin
<1>4. Batch(t) /\ t.transcript = put /\ t.finals = fin
  BY DEF Numbered, Batch
<1> HIDE DEF t
<1>5. Numbered(t, n)
  BY <1>1, <1>2, <1>4 DEF Numbered
<1>6. QED BY <1>3, <1>5

LEMMA AnswerNumbered ==
  ASSUME NEW n \in Nat, NEW s, Numbered(s, n), NEW events \in Seq(Kept(n)),
         \A i \in 1..Len(events) : events[i].phase # "invalid"
  PROVE  Numbered(HeardOf(s, events), n)
<1>1. events \in Seq(Listed) /\ Len(events) \in Nat
  BY KnownGrows, SeqGrows, LenProperties
<1>2. PICK f : f = [k \in 0..Len(events) |-> HeardAfter(s, events, f, k)] /\ HeardOf(s, events) = f[Len(events)]
  BY <1>1, HeardDefined
<1> DEFINE T == {k \in Nat : k <= Len(events) => Numbered(f[k], n)}
<1>3. 0 \in T
  <2>1. f[0] = s
    BY <1>1, <1>2 DEF HeardAfter
  <2>2. QED BY <2>1
<1>4. ASSUME NEW k \in Nat, k \in T PROVE k + 1 \in T
  <2> SUFFICES ASSUME k + 1 <= Len(events) PROVE Numbered(f[k + 1], n)
    OBVIOUS
  <2>1. k + 1 \in 0..Len(events) /\ k + 1 \in 1..Len(events) /\ (k + 1) - 1 = k /\ k + 1 # 0 /\ k <= Len(events)
    BY <1>1
  <2>2. f[k + 1] = Heard(f[k], events[k + 1])
    <3>1. f[k + 1] = HeardAfter(s, events, f, k + 1)
      BY <1>2, <2>1
    <3>2. QED BY <2>1, <3>1 DEF HeardAfter
  <2>3. events[k + 1] \in Kept(n) /\ events[k + 1].phase # "invalid"
    BY <2>1, ElementOfSeq
  <2>4. Numbered(f[k], n)
    BY <1>4, <2>1
  <2>5. QED BY <2>2, <2>3, <2>4, HeardNumbered
<1>5. Len(events) \in T
  <2> HIDE DEF T
  <2>1. QED BY <1>1, <1>3, <1>4, Induction
<1>6. QED BY <1>2, <1>5

LEMMA PollReturnsVoices == ASSUME Voices, PollReturns PROVE Voices'
<1> DEFINE n == worker.number
           rest == SubSeq(session.ring, session.told + 1, Len(session.ring))
           valid == Valid(poll.events)
           heard == HeardOf(Page, valid)
<1>1. /\ poll' = NoPoll /\ session' = [session EXCEPT !.ring = rest, !.told = 0] /\ UNCHANGED <<worker, output>>
      /\ IF Wanted THEN transcript' = heard.transcript /\ finals' = heard.finals
         ELSE UNCHANGED <<transcript, finals>>
  BY DEF PollReturns, Page
<1>2. /\ session \in Session /\ session.ring \in Seq(Kept(n)) /\ session.told \in Nat
      /\ Len(session.ring) \in Nat /\ Len(session.ring) <= MaxEvents /\ session.told <= Len(session.ring)
      /\ n \in Nat /\ Kept(n) \subseteq Listed /\ MaxEvents \in Nat
  BY LenProperties, KnownGrows, MicrophoneConstants DEF Voices, Session, Spoke, Worker
<1>3. rest \in Seq(Kept(n)) /\ Len(rest) \in Nat /\ Len(rest) <= MaxEvents
  <2> DEFINE a == session.told + 1
             b == Len(session.ring)
  <2>1. a \in Nat /\ b \in Nat /\ 1 <= a /\ b <= MaxEvents
    BY <1>2
  <2>2. \A i \in a..b : session.ring[i] \in Kept(n)
    BY <1>2, <2>1, ElementOfSeq
  <2> HIDE DEF a, b
  <2>3. SubSeq(session.ring, a, b) \in Seq(Kept(n))
        /\ Len(SubSeq(session.ring, a, b)) = IF a <= b THEN b - a + 1 ELSE 0
    BY <2>1, <2>2, SubSeqProperties
  <2>4. (IF a <= b THEN b - a + 1 ELSE 0) \in Nat /\ (IF a <= b THEN b - a + 1 ELSE 0) <= MaxEvents
    BY <1>2, <2>1
  <2>5. QED BY <2>3, <2>4 DEF a, b
<1>4. rest \in Seq(Listed)
  BY <1>2, <1>3, SeqGrows
<1> HIDE DEF rest
<1>5. /\ session' \in Session /\ session'.ring = rest /\ session'.told = 0
      /\ poll' \in Poll /\ poll'.events = <<>> /\ <<>> \in Seq(Kept(n))
  BY <1>1, <1>2, <1>4, EmptySeq DEF Session, Poll, NoPoll
<1>6. Numbered(heard, n)
  <2>1. poll.events \in Seq(Listed) /\ poll.events \in Seq(Kept(n)) /\ Numbered(Page, n)
    BY DEF Voices, Poll
  <2>2. /\ valid \in Seq(Listed) /\ Len(valid) <= Len(poll.events)
        /\ \A i \in 1..Len(valid) : valid[i] = poll.events[i] /\ poll.events[i].phase # "invalid"
    BY <2>1, ValidInTurn
  <2> HIDE DEF valid
  <2>3. Len(valid) \in Nat /\ Len(poll.events) \in Nat /\ DOMAIN valid = 1..Len(valid)
        /\ valid = [i \in 1..Len(valid) |-> valid[i]]
    BY <2>1, <2>2, LenProperties
  <2>4. \A i \in 1..Len(valid) : valid[i] \in Kept(n) /\ valid[i].phase # "invalid"
    BY <2>1, <2>2, <2>3, ElementOfSeq
  <2>5. valid \in Seq(Kept(n))
    BY <2>3, <2>4
  <2>6. QED BY <1>2, <2>1, <2>4, <2>5, AnswerNumbered
<1>7. Numbered(Page', n)
  <2>1. Page' = [transcript |-> transcript', finals |-> finals'] /\ Numbered(Page, n)
    BY DEF Page, Voices
  <2> HIDE DEF heard
  <2>2. CASE Wanted
    <3>1. transcript' = heard.transcript /\ finals' = heard.finals
      BY <1>1, <2>2
    <3>2. QED BY <1>6, <2>1, <3>1 DEF Numbered, Batch
  <2>3. CASE ~Wanted
    BY <1>1, <2>1, <2>3 DEF Page
  <2>4. QED BY <2>2, <2>3
<1>8. QED BY <1>1, <1>3, <1>5, <1>7 DEF Voices, Spoke

-----------------------------------------------------------------------------
(* The worker *)

LEMMA FinishingNumbers ==
  ASSUME NEW w \in Worker, w.number # 0, NEW o \in Finishing(w)
  PROVE  /\ o.after \in Worker /\ o.after.number >= w.number
         /\ o.says = <<>> \/ o.says = <<Said(w, "final")>>
<1>1. w.number \in Nat
  BY DEF Worker
<1>2. Finished(w).number = w.number + 1 /\ Dropped(w).number = w.number
  BY DEF Finished, Dropped, Worker
<1>3. \/ o = [after |-> Finished(w), says |-> <<Said(w, "final")>>]
      \/ o = [after |-> Dropped(w), says |-> <<>>]
  BY DEF Finishing
<1>4. QED BY <1>1, <1>2, <1>3, FinishingKeeps

LEMMA SaidKnown ==
  ASSUME NEW w \in Worker, w.number # 0, NEW phase \in {"partial", "final"}, NEW m \in Nat, w.number <= m
  PROVE  <<Said(w, phase)>> \in Seq(Known(m))
<1>1. Said(w, phase) \in Voiced /\ Said(w, phase).id = w.number
  BY SaidSound DEF Newly
<1>2. Said(w, phase) \in Known(m)
  BY <1>1 DEF Known
<1>3. QED BY <1>2

LEMMA HearingNumbers ==
  ASSUME NEW w \in Worker, w.number # 0, NEW o \in Hearing(w)
  PROVE  o.after \in Worker /\ o.after.number >= w.number /\ o.says \in Seq(Known(o.after.number))
<1> DEFINE quiet == {[after |-> w, says |-> <<>>]}
           more == [w EXCEPT !.revision = @ + 1]
           partial == IF w.speech /\ w.revision < MaxRevisions
                      THEN {[after |-> more, says |-> <<Said(w, "partial")>>]} ELSE {}
<1>1. PICK first \in quiet \cup partial :
        \E end \in {[after |-> first.after, says |-> <<>>]} \cup Finishing(first.after) :
          o = [after |-> end.after, says |-> first.says \o end.says]
  BY DEF Hearing
<1>2. PICK end \in {[after |-> first.after, says |-> <<>>]} \cup Finishing(first.after) :
        o = [after |-> end.after, says |-> first.says \o end.says]
  BY <1>1
<1>3. w.number \in Nat
  BY DEF Worker
<1>4. more \in Worker /\ more.number = w.number
  BY DEF Worker
<1> HIDE DEF more
<1>5. \/ first.after = w /\ first.says = <<>>
      \/ first.after = more /\ first.says = <<Said(w, "partial")>>
  BY DEF quiet, partial
<1> HIDE DEF quiet, partial
<1>6. first.after \in Worker /\ first.after.number = w.number
  BY <1>4, <1>5
<1>7. /\ end.after \in Worker /\ end.after.number >= w.number
      /\ end.says = <<>> \/ end.says = <<Said(first.after, "final")>>
  <2>1. CASE end = [after |-> first.after, says |-> <<>>]
    BY <1>3, <1>6, <2>1
  <2>2. CASE end \in Finishing(first.after)
    BY <1>6, <2>2, FinishingNumbers
  <2>3. QED BY <2>1, <2>2
<1> DEFINE m == end.after.number
<1>8. m \in Nat /\ w.number <= m
  BY <1>3, <1>7 DEF Worker
<1>9. <<>> \in Seq(Known(m))
  BY EmptySeq
<1> HIDE DEF m
<1>10. first.says \in Seq(Known(m))
  BY <1>5, <1>8, <1>9, SaidKnown
<1>11. end.says \in Seq(Known(m))
  BY <1>6, <1>7, <1>8, <1>9, SaidKnown
<1>12. first.says \o end.says \in Seq(Known(m))
  BY <1>10, <1>11, ConcatProperties
<1>13. QED BY <1>2, <1>7, <1>12 DEF m

LEMMA WorkerVoices == ASSUME Shape, Voices, WorkerStep PROVE Voices'
<1>1. UNCHANGED <<session, poll, transcript, finals>> /\ worker \in Worker /\ worker.number # 0
  BY DEF WorkerStep, page, Voices, Spoke
<1>2. PICK o : /\ o.after \in Worker /\ o.after.number >= worker.number
               /\ o.says \in Seq(Known(o.after.number))
               /\ worker' \in Worker /\ worker'.number = o.after.number
               /\ Len(output) + Len(o.says) <= MaxPipe /\ output' = output \o o.says
  <2>1. CASE Reads
    <3>1. PICK speech \in {worker.speech, TRUE} :
            \E o \in Hearing([worker EXCEPT !.heard = Append(worker.heard, Head(input)),
                                             !.speech = speech]) : Writes(o)
      BY <2>1 DEF Reads
    <3> DEFINE w == [worker EXCEPT !.heard = Append(worker.heard, Head(input)), !.speech = speech]
    <3>2. PICK o \in Hearing(w) : Writes(o)
      BY <3>1
    <3>3. Append(worker.heard, Head(input)) \in Seq(Nat)
      <4>1. Head(input) \in Nat
        BY <2>1, HeadTailProperties DEF Shape, Reads
      <4>2. QED BY <1>1, <4>1, AppendProperties DEF Worker
    <3>4. w \in Worker /\ w.number = worker.number
      BY <1>1, <3>3 DEF Worker
    <3> HIDE DEF w
    <3>5. o.after \in Worker /\ o.after.number >= worker.number /\ o.says \in Seq(Known(o.after.number))
      BY <1>1, <3>4, HearingNumbers
    <3>6. worker' = o.after /\ output' = output \o o.says /\ Len(output) + Len(o.says) <= MaxPipe
      BY <3>2 DEF Writes
    <3>7. QED BY <3>5, <3>6
  <2>2. CASE Flushes
    <3>1. PICK o \in Finishing(worker) : Writes([o EXCEPT !.after.phase = "gone"])
      BY <2>2 DEF Flushes
    <3>2. /\ o.after \in Worker /\ o.after.number >= worker.number
          /\ o.says = <<>> \/ o.says = <<Said(worker, "final")>>
      BY <1>1, FinishingNumbers
    <3>3. \E after, says : o = [after |-> after, says |-> says]
      BY DEF Finishing
    <3>4. worker' = [o.after EXCEPT !.phase = "gone"] /\ output' = output \o o.says
          /\ Len(output) + Len(o.says) <= MaxPipe
      BY <3>1, <3>3 DEF Writes
    <3>5. worker' \in Worker /\ worker'.number = o.after.number
      BY <3>2, <3>4 DEF Worker
    <3>6. o.says \in Seq(Known(o.after.number))
      <4>1. o.after.number \in Nat /\ worker.number \in Nat /\ worker.number <= o.after.number
        BY <1>1, <3>2 DEF Worker
      <4>2. <<>> \in Seq(Known(o.after.number))
        BY EmptySeq
      <4>3. QED BY <1>1, <3>2, <4>1, <4>2, SaidKnown
    <3>7. QED BY <3>2, <3>4, <3>5, <3>6
  <2>3. QED BY <2>1, <2>2 DEF WorkerStep
<1> DEFINE n == worker.number
           m == worker'.number
<1>3. n \in Nat /\ m \in Nat /\ n <= m /\ m = o.after.number /\ output \in Seq(Known(n))
  BY <1>1, <1>2 DEF Worker, Voices
<1> HIDE DEF n, m
<1>4. output \in Seq(Known(m)) /\ o.says \in Seq(Known(m))
  <2>1. Known(n) \subseteq Known(m)
    BY <1>3, KnownGrows
  <2>2. QED BY <1>2, <1>3, <2>1, SeqGrows
<1>5. output' \in Seq(Known(m)) /\ Len(output') = Len(output) + Len(o.says)
  BY <1>2, <1>4, ConcatProperties
<1>6. Len(output') <= MaxPipe /\ worker'.number >= worker.number
  BY <1>2, <1>5
<1>7. session' \in Session /\ session'.ring = session.ring /\ session'.told = session.told
  BY <1>1 DEF Voices
<1>8. QED BY <1>1, <1>2, <1>5, <1>6, <1>7, VoicesKept DEF m

LEMMA BabblesVoices ==
  ASSUME Voices, Babbles, UNCHANGED <<session, poll, transcript, finals>> PROVE Voices'
<1>1. PICK phase \in {"garbled", "invalid"} :
        output' = Append(output, [phase |-> phase, id |-> 0, revision |-> 0, text |-> 0])
  BY DEF Babbles
<1> DEFINE e == [phase |-> phase, id |-> 0, revision |-> 0, text |-> 0]
<1>2. worker.number \in Nat /\ output \in Seq(Known(worker.number)) /\ Len(output) < MaxPipe /\ UNCHANGED worker
      /\ Len(output) \in Nat /\ MaxPipe \in Nat
  BY LenProperties, MicrophoneConstants DEF Voices, Spoke, Worker, Babbles
<1>3. e \in Known(worker.number)
  BY <1>2 DEF Known, Voiced, Event
<1> HIDE DEF e
<1>4. output' \in Seq(Known(worker'.number)) /\ Len(output') = Len(output) + 1
  BY <1>1, <1>2, <1>3, AppendProperties DEF e
<1>5. Len(output') <= MaxPipe /\ worker' \in Worker /\ worker'.number >= worker.number
  BY <1>2, <1>4 DEF Voices, Spoke
<1>6. session' \in Session
  BY DEF Voices
<1>7. QED BY <1>4, <1>5, <1>6, VoicesKept

LEMMA VoicesStep == ASSUME Shape, Voices, Next PROVE Voices'
<1>1. /\ worker \in Worker /\ session \in Session /\ poll \in Poll /\ worker.number \in Nat
      /\ output \in Seq(Known(worker.number)) /\ Len(output) <= MaxPipe /\ worker.number >= worker.number
  BY DEF Voices, Spoke, Worker
<1>2. NoPoll.events = <<>> /\ \A phase \in {"asked", "lost"} :
        LET p == [NoPoll EXCEPT !.phase = phase] IN p \in Poll /\ p.events = <<>>
  BY EmptySeq DEF NoPoll, Poll
<1>3. PollDropped => poll' = poll \/ (poll' \in Poll /\ poll'.events = <<>>)
  BY <1>2 DEF PollDropped
<1>4. ASSUME UNCHANGED <<worker, output, session, transcript, finals>>,
             poll' = poll \/ PollDropped \/ (poll' \in Poll /\ poll'.events = <<>>)
      PROVE  Voices'
  BY <1>1, <1>3, <1>4, VoicesKept
<1>5. ASSUME UNCHANGED <<output, poll, transcript, finals>>,
             session' \in Session, session'.ring = session.ring, session'.told = session.told,
             worker' \in Worker, worker'.number = worker.number
      PROVE  Voices'
  BY <1>1, <1>5, VoicesKept
<1>6. Killed => worker' \in Worker /\ worker'.number = worker.number
  BY <1>1 DEF Killed, Worker
<1>7. ASSUME NEW b \in BOOLEAN
      PROVE  /\ [session EXCEPT !.stopped = b] \in Session /\ [session EXCEPT !.paused = b] \in Session
             /\ [session EXCEPT !.timer = b] \in Session
             /\ [session EXCEPT !.stopped = TRUE, !.timer = TRUE] \in Session
  BY <1>1 DEF Session
<1>8. CASE Worklet \/ PcmArrives \/ PostReturns \/ PostLost \/ PollFails
  BY <1>4, <1>8 DEF Worklet, PcmArrives, PostReturns, PostLost, PollFails, page
<1>9. CASE Asks("pause") \/ Asks("resume") \/ ControlReturns \/ ControlLost
  BY <1>4, <1>9 DEF Asks, ControlReturns, ControlLost, PanelMoves
<1>10. CASE StopClicked \/ ClientStops \/ StopSends \/ StopLost \/ AudioServed \/ AudioWritten
  BY <1>4, <1>10 DEF StopClicked, ClientStops, StopSends, StopLost, AudioServed, AudioWritten, page
<1>11. CASE PollSends
  <2>1. poll' \in Poll /\ poll'.events = <<>>
    BY <1>2, <1>11 DEF PollSends
  <2>2. QED BY <1>4, <1>11, <2>1 DEF PollSends, page
<1>12. CASE AudioBroken
  BY <1>1, <1>5, <1>7, <1>12 DEF AudioBroken, page, Session
<1>13. CASE ControlServed
  <2>1. UNCHANGED <<worker, output, poll, transcript, finals>>
    BY <1>13 DEF ControlServed
  <2>2. session' \in {session, [session EXCEPT !.paused = TRUE], [session EXCEPT !.paused = FALSE]}
    BY <1>13 DEF ControlServed
  <2>3. session' \in Session /\ session'.ring = session.ring /\ session'.told = session.told
    BY <1>1, <1>7, <2>2 DEF Session
  <2>4. QED BY <1>1, <1>5, <2>1, <2>3
<1>14. CASE StopServed
  <2>1. UNCHANGED <<worker, output, poll, transcript, finals>>
    BY <1>14 DEF StopServed, page
  <2>2. session' \in {session, [session EXCEPT !.stopped = TRUE, !.timer = TRUE]}
    BY <1>14 DEF StopServed
  <2>3. session' \in Session /\ session'.ring = session.ring /\ session'.told = session.told
    BY <1>1, <1>7, <2>2 DEF Session
  <2>4. QED BY <1>1, <1>5, <2>1, <2>3
<1>15. CASE KillTimer
  BY <1>1, <1>5, <1>6, <1>7, <1>15 DEF KillTimer, page, Session
<1>16. CASE ExitSeen
  <2>1. worker' \in Worker /\ worker'.number = worker.number
    BY <1>1, <1>16 DEF ExitSeen, Worker
  <2>2. QED BY <1>1, <1>5, <1>7, <1>16, <2>1 DEF ExitSeen, page, Session
<1>17. CASE (Crashes \/ Babbles) /\ UNCHANGED <<page, post, stop, poll, session>>
  <2>1. CASE Crashes
    BY <1>1, <1>5, <1>6, <1>17, <2>1 DEF Crashes, page
  <2>2. CASE Babbles
    BY <1>17, <2>2, BabblesVoices DEF page
  <2>3. QED BY <1>17, <2>1, <2>2
<1>18. CASE Work
  BY <1>8, <1>9, <1>10, <1>11, <1>12, <1>13, <1>14, <1>15, <1>16, <1>18, DataVoices, PollServedVoices,
     PollReturnsVoices, WorkerVoices DEF Work, Sending
<1>19. CASE Fault
  BY <1>8, <1>9, <1>10, <1>17, <1>19 DEF Fault
<1>20. QED BY <1>18, <1>19 DEF Next

\* The chain of sendPcm is capped at the queue's limit and the ring at its own, an answer never
\* tells more than the ring holds, no event or utterance has a number the worker has not
\* reached, and every final belongs to an utterance of the transcript.  Nothing is
\* assumed of what whisper makes of silence.  A pipe that is not read takes one more chunk
\* for each post that was given up: the host goes on with the next one.
THEOREM MicrophoneTypes == Spec => []TypeOK
<1>1. Init => TInv
  BY RequestsInit, VoicesInit DEF TInv
<1>2. TInv /\ IInv /\ IInv' /\ [Next]_vars => TInv'
  <2> SUFFICES ASSUME TInv, IInv, IInv', [Next]_vars PROVE TInv'
    OBVIOUS
  <2>1. Shape /\ Shape' /\ Requests /\ Piped /\ Voices
    BY DEF TInv, IInv
  <2>2. CASE Next
    <3>1. Requests' /\ Voices'
      BY <2>1, <2>2, RequestsKept, VoicesStep
    <3>2. Piped'
      BY <2>1, <2>2, <3>1, PipedKept
    <3>3. QED BY <3>1, <3>2 DEF TInv
  <2>3. CASE UNCHANGED vars
    BY <2>1, <2>3 DEF vars, TInv, Requests, Piped, Voices, Spoke, Numbered, Page
  <2>4. QED BY <2>2, <2>3
<1>3. TInv /\ IInv => TypeOK
  <2> SUFFICES ASSUME TInv, IInv PROVE TypeOK
    OBVIOUS
  <2>1. Shape /\ Requests /\ Piped /\ Voices
    BY DEF TInv, IInv
  <2>2. Listed \subseteq Event
    BY DEF Listed, Voiced
  <2>3. \A s \in Seq(Listed) : s \in Seq(Event)
    BY <2>2, SeqGrows
  <2>4. poll \in [phase : {"idle", "asked", "answered", "lost"}, events : Seq(Event), stopped : BOOLEAN]
    <3>1. poll.events \in Seq(Event)
      BY <2>1, <2>3 DEF Voices, Poll
    <3>2. QED BY <2>1, <3>1 DEF Voices, Poll
  <2>5. session \in [paused : BOOLEAN, stopped : BOOLEAN, ring : Seq(Event), told : Nat, timer : BOOLEAN]
    <3>1. session.ring \in Seq(Event)
      BY <2>1, <2>3 DEF Voices, Session
    <3>2. QED BY <2>1, <3>1 DEF Voices, Session
  <2>6. Len(input) <= MaxPipe + 2 + faults
    <3>1. Len(input) \in Nat /\ MaxPipe \in Nat /\ faults \in Nat
      BY <2>1, LenProperties, MicrophoneConstants DEF Shape, Requests
    <3>2. QED BY <2>1, <3>1 DEF Piped
  <2>7. mic \in [on : BOOLEAN, muted : BOOLEAN, asked : BOOLEAN, next : Nat, port : Seq(Nat)]
        /\ worker \in [phase : {"running", "gone", "reaped"}, number : Nat, revision : Nat, heard : Seq(Nat),
                       speech : BOOLEAN, blanked : SUBSET Nat]
    BY <2>1 DEF Shape, Mic, Worker
  <2>8. DOMAIN transcript \subseteq 1..worker.number /\ DOMAIN finals \subseteq DOMAIN transcript
    BY <2>1 DEF Voices, Numbered, Page
  <2>9. QED BY <2>1, <2>4, <2>5, <2>6, <2>7, <2>8 DEF TypeOK, Shape, Requests, Voices
<1>4. QED BY <1>1, <1>2, <1>3, NothingMissing, PTL DEF Spec

=============================================================================
