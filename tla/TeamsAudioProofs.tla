-------------------------- MODULE TeamsAudioProofs --------------------------
(***************************************************************************)
(* Theorems about TeamsBridge and TeamsAudio, for every size of group,     *)
(* pipes and ring, any number of samples and changes of state and any      *)
(* number of faults: type correctness; that the session implements         *)
(* AudioFeed, from the packets of the helper to what the transcriber       *)
(* reads; that a start rests on a probe made under the consent that holds; *)
(* and that the panel comes to show the state the helper is in.            *)
(***************************************************************************)
EXTENDS TeamsAudio, SequenceTheorems, WellFoundedInduction, TLAPS

-----------------------------------------------------------------------------
(* Consecutive numbers in sequences, and in sequences of sequences *)

\* The numbers from one on, up to the other.
Run(s, from, to) ==
  /\ s \in Seq(Nat) /\ from \in Nat /\ to = from + Len(s)
  /\ \A j \in 1..Len(s) : s[j] = from + j - 1

\* Runs, each of which continues the one before.
Chain(q, from, to) ==
  \E mark \in [1..Len(q) + 1 -> Nat] :
    /\ mark[1] = from /\ mark[Len(q) + 1] = to
    /\ \A i \in 1..Len(q) : Run(q[i], mark[i], mark[i + 1])

LEMMA RunType ==
  ASSUME NEW s, NEW a, NEW b, Run(s, a, b)
  PROVE  a \in Nat /\ b \in Nat /\ a <= b /\ Len(s) = b - a
<1>1. Len(s) \in Nat /\ a \in Nat /\ b = a + Len(s)
  BY LenProperties DEF Run
<1>2. QED BY <1>1

\* Nothing is the run that ends where it begins.
LEMMA RunEmpty == ASSUME NEW a \in Nat PROVE Run(<<>>, a, a)
  BY EmptySeq DEF Run

\* A run from 1 on is the sequence of its indices.
LEMMA RunFromOne ==
  ASSUME NEW s, NEW b, Run(s, 1, b) PROVE s = [i \in 1..Len(s) |-> i]
<1>1. s \in Seq(Nat) /\ \A j \in 1..Len(s) : s[j] = 1 + j - 1
  BY DEF Run
<1>2. DOMAIN s = 1..Len(s) /\ Len(s) \in Nat /\ s = [i \in DOMAIN s |-> s[i]]
  BY <1>1, LenProperties
<1>3. \A j \in 1..Len(s) : s[j] = j
  BY <1>1, <1>2
<1>4. QED BY <1>2, <1>3

\* A run followed by the next is a run.
LEMMA RunConcat ==
  ASSUME NEW s, NEW t, NEW a, NEW b, NEW c, Run(s, a, b), Run(t, b, c)
  PROVE  Run(s \o t, a, c)
<1>1. s \in Seq(Nat) /\ t \in Seq(Nat) /\ Len(s) \in Nat /\ Len(t) \in Nat /\ a \in Nat
  BY LenProperties DEF Run
<1>2. b = a + Len(s) /\ c = b + Len(t)
  BY DEF Run
<1>3. /\ s \o t \in Seq(Nat) /\ Len(s \o t) = Len(s) + Len(t)
      /\ \A i \in 1..Len(s) + Len(t) : (s \o t)[i] = IF i <= Len(s) THEN s[i] ELSE t[i - Len(s)]
  BY <1>1, ConcatProperties
<1>4. ASSUME NEW j \in 1..Len(s \o t) PROVE (s \o t)[j] = a + j - 1
  <2>1. CASE j <= Len(s)
    <3>1. j \in 1..Len(s)
      BY <1>1, <1>3, <2>1
    <3>2. s[j] = a + j - 1
      BY <3>1 DEF Run
    <3>3. QED BY <1>1, <1>3, <2>1, <3>2
  <2>2. CASE ~(j <= Len(s))
    <3>1. j - Len(s) \in 1..Len(t)
      BY <1>1, <1>3, <2>2
    <3>2. t[j - Len(s)] = b + (j - Len(s)) - 1
      BY <3>1 DEF Run
    <3>3. (s \o t)[j] = t[j - Len(s)]
      BY <1>1, <1>3, <2>2
    <3>4. QED BY <1>1, <1>2, <1>3, <3>2, <3>3
  <2>3. QED BY <2>1, <2>2
<1>5. QED BY <1>1, <1>2, <1>3, <1>4 DEF Run

\* A run cut in two.
LEMMA RunSplit ==
  ASSUME NEW s, NEW a, NEW c, Run(s, a, c), NEW n \in 0..Len(s)
  PROVE  Run(SubSeq(s, 1, n), a, a + n) /\ Run(SubSeq(s, n + 1, Len(s)), a + n, c)
<1>1. s \in Seq(Nat) /\ Len(s) \in Nat /\ a \in Nat /\ c = a + Len(s) /\ n \in Nat /\ n <= Len(s)
  BY LenProperties DEF Run
<1>2. \A i \in 1..Len(s) : s[i] \in Nat /\ s[i] = a + i - 1
  BY <1>1 DEF Run
<1>3. Run(SubSeq(s, 1, n), a, a + n)
  <2>1. \A i \in 1..n : s[i] \in Nat
    BY <1>1, <1>2
  <2>2. /\ SubSeq(s, 1, n) \in Seq(Nat) /\ Len(SubSeq(s, 1, n)) = IF 1 <= n THEN n - 1 + 1 ELSE 0
        /\ \A i \in 1..n - 1 + 1 : SubSeq(s, 1, n)[i] = s[1 + i - 1]
    BY <1>1, <2>1, SubSeqProperties
  <2>3. Len(SubSeq(s, 1, n)) = n
    BY <1>1, <2>2
  <2>4. \A i \in 1..n : SubSeq(s, 1, n)[i] = a + i - 1
    BY <1>1, <1>2, <2>2
  <2>5. QED BY <1>1, <2>2, <2>3, <2>4 DEF Run
<1>4. Run(SubSeq(s, n + 1, Len(s)), a + n, c)
  <2> DEFINE r == SubSeq(s, n + 1, Len(s))
  <2>1. \A i \in n + 1..Len(s) : s[i] \in Nat
    BY <1>1, <1>2
  <2>2. /\ r \in Seq(Nat) /\ Len(r) = IF n + 1 <= Len(s) THEN Len(s) - (n + 1) + 1 ELSE 0
        /\ \A i \in 1..Len(s) - (n + 1) + 1 : r[i] = s[(n + 1) + i - 1]
    BY <1>1, <2>1, SubSeqProperties
  <2> HIDE DEF r
  <2>3. Len(r) = Len(s) - n
    BY <1>1, <2>2
  <2>4. \A i \in 1..Len(r) : r[i] = (a + n) + i - 1
    <3> TAKE i \in 1..Len(r)
    <3>1. i \in 1..Len(s) - (n + 1) + 1 /\ n + i \in 1..Len(s) /\ (n + 1) + i - 1 = n + i
      BY <1>1, <2>3
    <3>2. QED BY <1>1, <1>2, <2>2, <3>1
  <2>5. a + n \in Nat /\ c = (a + n) + Len(r)
    BY <1>1, <2>3
  <2>6. Run(r, a + n, c)
    BY <2>2, <2>4, <2>5 DEF Run
  <2>7. QED BY <2>6 DEF r
<1>5. QED BY <1>3, <1>4

\* An empty chain ends where it begins.
LEMMA ChainEmpty == ASSUME NEW a \in Nat PROVE Chain(<<>>, a, a)
<1>1. Len(<<>>) = 0
  BY EmptySeq
<1> DEFINE m == [i \in 1..1 |-> a]
<1>2. m \in [1..1 -> Nat] /\ m[1] = a
  OBVIOUS
<1> HIDE DEF m
<1>3. m \in [1..Len(<<>>) + 1 -> Nat] /\ m[Len(<<>>) + 1] = a /\ 1..Len(<<>>) = {}
  BY <1>1, <1>2
<1>4. QED BY <1>2, <1>3 DEF Chain

LEMMA ChainOfNone == ASSUME NEW a, NEW b, Chain(<<>>, a, b) PROVE a = b
<1>1. Len(<<>>) = 0
  BY EmptySeq
<1>2. QED BY <1>1 DEF Chain

\* A run after a chain continues it.
LEMMA ChainAppend ==
  ASSUME NEW q \in Seq(Seq(Nat)), NEW s, NEW a, NEW b, NEW c, Chain(q, a, b), Run(s, b, c)
  PROVE  Chain(Append(q, s), a, c)
<1> DEFINE l == Len(q)
           p == Append(q, s)
<1>1. s \in Seq(Nat) /\ l \in Nat /\ c \in Nat
  BY RunType, LenProperties DEF Run
<1>2. p \in Seq(Seq(Nat)) /\ Len(p) = l + 1 /\ (\A i \in 1..l : p[i] = q[i]) /\ p[l + 1] = s
  BY <1>1, AppendProperties
<1>3. PICK mark \in [1..l + 1 -> Nat] :
        mark[1] = a /\ mark[l + 1] = b /\ \A i \in 1..l : Run(q[i], mark[i], mark[i + 1])
  BY DEF Chain
<1> HIDE DEF p, l
<1> DEFINE m == [i \in 1..l + 1 + 1 |-> IF i = l + 1 + 1 THEN c ELSE mark[i]]
<1>4. m \in [1..l + 1 + 1 -> Nat]
  <2>1. \A i \in 1..l + 1 + 1 : i # l + 1 + 1 => i \in 1..l + 1
    BY <1>1
  <2>2. QED BY <1>1, <2>1
<1>5. m[1] = a /\ m[l + 1 + 1] = c /\ m[l + 1] = b
  BY <1>1, <1>3
<1>6. ASSUME NEW i \in 1..l + 1 PROVE Run(p[i], m[i], m[i + 1])
  <2>1. CASE i = l + 1
    <3>1. p[i] = s /\ m[i] = b /\ m[i + 1] = c
      BY <1>2, <1>5, <2>1
    <3>2. QED BY <3>1
  <2>2. CASE i # l + 1
    <3>1. i \in 1..l /\ i + 1 \in 1..l + 1 /\ i \in 1..l + 1 + 1 /\ i + 1 \in 1..l + 1 + 1
          /\ i # l + 1 + 1 /\ i + 1 # l + 1 + 1
      BY <1>1, <2>2
    <3>2. p[i] = q[i] /\ m[i] = mark[i] /\ m[i + 1] = mark[i + 1]
      BY <1>2, <3>1
    <3>3. Run(q[i], mark[i], mark[i + 1])
      BY <1>3, <3>1
    <3> HIDE DEF m
    <3>4. QED BY <3>2, <3>3
  <2>3. QED BY <2>1, <2>2
<1> HIDE DEF m
<1>7. Chain(p, a, c)
  BY <1>2, <1>4, <1>5, <1>6 DEF Chain
<1>8. QED BY <1>7 DEF p

\* The first run of a chain, and the chain that is left.
LEMMA ChainTail ==
  ASSUME NEW q \in Seq(Seq(Nat)), NEW a, NEW c, Chain(q, a, c), q # <<>>
  PROVE  \E b \in Nat : Run(Head(q), a, b) /\ Chain(Tail(q), b, c)
<1> DEFINE l == Len(q)
           t == Tail(q)
<1>1. l \in Nat \ {0} /\ t \in Seq(Seq(Nat)) /\ Len(t) = l - 1
      /\ \A i \in 1..Len(t) : t[i] = q[i + 1]
  BY EmptySeq, HeadTailProperties
<1>2. Head(q) = q[1]
  OBVIOUS
<1>3. PICK mark \in [1..l + 1 -> Nat] :
        mark[1] = a /\ mark[l + 1] = c /\ \A i \in 1..l : Run(q[i], mark[i], mark[i + 1])
  BY DEF Chain
<1> HIDE DEF t, l
<1> DEFINE m == [i \in 1..Len(t) + 1 |-> mark[i + 1]]
<1>4. 2 \in 1..l + 1 /\ 1 \in 1..l /\ l - 1 \in Nat
  BY <1>1
<1>5. m \in [1..Len(t) + 1 -> Nat]
  <2>1. \A i \in 1..Len(t) + 1 : i + 1 \in 1..l + 1
    BY <1>1
  <2>2. QED BY <2>1
<1>6. m[1] = mark[2] /\ m[Len(t) + 1] = c
  <2>1. 1 \in 1..Len(t) + 1 /\ Len(t) + 1 \in 1..Len(t) + 1 /\ (Len(t) + 1) + 1 = l + 1
    BY <1>1
  <2>2. QED BY <1>3, <2>1
<1>7. ASSUME NEW i \in 1..Len(t) PROVE Run(t[i], m[i], m[i + 1])
  <2>1. i \in 1..Len(t) + 1 /\ i + 1 \in 1..Len(t) + 1 /\ i + 1 \in 1..l
    BY <1>1
  <2>2. t[i] = q[i + 1] /\ m[i] = mark[i + 1] /\ m[i + 1] = mark[(i + 1) + 1]
    BY <1>1, <2>1
  <2>3. Run(q[i + 1], mark[i + 1], mark[(i + 1) + 1])
    BY <1>3, <2>1
  <2> HIDE DEF m
  <2>4. QED BY <2>2, <2>3
<1> HIDE DEF m
<1>8. Chain(t, mark[2], c)
  BY <1>5, <1>6, <1>7 DEF Chain
<1>9. Run(Head(q), a, mark[2])
  BY <1>2, <1>3, <1>4
<1>10. QED BY <1>3, <1>4, <1>8, <1>9 DEF t

-----------------------------------------------------------------------------
(* Types *)

SessionType == [present : BOOLEAN, over : BOOLEAN, leased : BOOLEAN, timer : BOOLEAN,
                lost : BOOLEAN, ring : Seq(Events), told : Nat]

SessionShape(s) == s \in SessionType /\ s.told <= Len(s.ring) /\ Len(s.ring) <= MaxEvents

HelperType == [phase : {"none", "opening", "streaming", "gone", "reaped"}, state : CaptureStates,
               ends : BOOLEAN, next : Nat, todo : Seq(Frame)]

BridgeType == [format : BOOLEAN, paused : BOOLEAN, frames : Seq(Frame), carry : Seq(Nat)]

TranscriberType == [phase : {"none", "running", "gone", "reaped"}, hung : BOOLEAN, heard : Seq(Nat)]

LEMMA Types ==
  TypeOK <=> /\ SessionShape(session) /\ helper \in HelperType /\ pipe \in Seq(Frame)
             /\ bridge \in BridgeType /\ input \in Seq(Seq(Nat)) /\ transcriber \in TranscriberType
             /\ output \in {"none", "utterance", "garbage"} /\ changes \in Nat /\ faults \in Nat
  BY DEF TypeOK, SessionShape, SessionType, HelperType, BridgeType, TranscriberType

LEMMA Constants ==
  /\ Group \in Nat /\ Group # 0 /\ MaxPipe \in Nat /\ MaxInput \in Nat
  /\ MaxEvents \in Nat /\ MaxEvents # 0 /\ MaxPacket \in Nat /\ MaxSamples \in Nat
  BY BridgeConstants

LEMMA StateFrame ==
  ASSUME NEW state \in CaptureStates
  PROVE  State(state) \in Frame /\ State(state).samples = <<>> /\ State(state).type = "state"
<1>1. <<>> \in Seq(Nat)
  BY EmptySeq
<1>2. QED BY <1>1 DEF State, Frame, CaptureStates

LEMMA PlainFrames ==
  /\ Format \in Frame /\ Format.samples = <<>>
  /\ Garbage \in Frame /\ Garbage.samples = <<>>
<1>1. <<>> \in Seq(Nat)
  BY EmptySeq
<1>2. QED BY <1>1 DEF Format, Garbage, Frame

LEMMA PcmFrame ==
  ASSUME NEW samples \in Seq(Nat) PROVE Pcm(samples) \in Frame /\ Pcm(samples).samples = samples
  BY DEF Pcm, Frame

LEMMA OneFrame ==
  ASSUME NEW frame \in Frame PROVE <<frame>> \in Seq(Frame) /\ Len(<<frame>>) = 1
  OBVIOUS

LEMMA TwoFrames ==
  ASSUME NEW f \in Frame, NEW g \in Frame PROVE Append(<<f>>, g) = <<f, g>>
<1>1. <<f>> \in Seq(Frame) /\ Len(<<f>>) = 1 /\ <<f>>[1] = f
  OBVIOUS
<1>2. <<f, g>> \in Seq(Frame) /\ Len(<<f, g>>) = 2 /\ <<f, g>>[1] = f /\ <<f, g>>[2] = g
  OBVIOUS
<1> DEFINE p == Append(<<f>>, g)
           q == <<f, g>>
<1>3. p \in Seq(Frame) /\ Len(p) = 2 /\ p[1] = f /\ p[2] = g
  BY <1>1, AppendProperties
<1> HIDE DEF p, q
<1>4. ASSUME NEW i \in 1..2 PROVE p[i] = q[i]
  <2>1. i = 1 \/ i = 2
    OBVIOUS
  <2>2. QED BY <1>2, <1>3, <2>1 DEF q
<1>5. p = q
  BY <1>2, <1>3, <1>4, SeqEqual DEF q
<1>6. QED BY <1>5 DEF p, q

\* pushEvent keeps the ring within its bound and the cursor within the ring.
LEMMA PushShape ==
  ASSUME NEW s, SessionShape(s), NEW event, event \in Events \/ s.over
  PROVE  SessionShape(Push(s, event)) /\ Push(s, event).over = s.over
<1>0. s \in SessionType /\ s.ring \in Seq(Events) /\ Len(s.ring) \in Nat /\ s.told \in Nat
      /\ s.told <= Len(s.ring) /\ Len(s.ring) <= MaxEvents
  BY LenProperties DEF SessionShape, SessionType
<1>1. CASE s.over
  BY <1>1 DEF Push
<1>2. CASE ~s.over /\ Len(s.ring) < MaxEvents
  <2> DEFINE r == Append(s.ring, event)
  <2>1. r \in Seq(Events) /\ Len(r) = Len(s.ring) + 1
    BY <1>0, <1>2, AppendProperties
  <2>2. Push(s, event) = [s EXCEPT !.ring = r]
    BY <1>2 DEF Push
  <2> HIDE DEF r
  <2>3. Push(s, event) \in SessionType /\ Push(s, event).ring = r /\ Push(s, event).told = s.told
        /\ Push(s, event).over = s.over
    BY <1>0, <2>1, <2>2 DEF SessionType
  <2>4. s.told <= Len(r) /\ Len(r) <= MaxEvents
    BY <1>0, <1>2, <2>1, Constants
  <2>5. QED BY <2>3, <2>4 DEF SessionShape
<1>3. CASE ~s.over /\ ~(Len(s.ring) < MaxEvents)
  <2> DEFINE r == Append(Tail(s.ring), event)
             t == IF s.told = 0 THEN 0 ELSE s.told - 1
  <2>1. Len(s.ring) = MaxEvents /\ s.ring # <<>>
    BY <1>0, <1>3, Constants, EmptySeq
  <2>2. Tail(s.ring) \in Seq(Events) /\ Len(Tail(s.ring)) = MaxEvents - 1
    BY <1>0, <2>1, HeadTailProperties
  <2>3. r \in Seq(Events) /\ Len(r) = Len(Tail(s.ring)) + 1
    BY <1>3, <2>2, AppendProperties
  <2>4. t \in Nat /\ t <= MaxEvents
    BY <1>0, Constants
  <2>5. Push(s, event) = [s EXCEPT !.ring = r, !.told = t, !.lost = TRUE]
    BY <1>3 DEF Push
  <2> HIDE DEF r, t
  <2>6. Push(s, event) \in SessionType /\ Push(s, event).ring = r /\ Push(s, event).told = t
        /\ Push(s, event).over = s.over
    BY <1>0, <2>3, <2>4, <2>5 DEF SessionType
  <2>7. t <= Len(r) /\ Len(r) <= MaxEvents
    BY <2>2, <2>3, <2>4, Constants
  <2>8. QED BY <2>6, <2>7 DEF SessionShape
<1>4. QED BY <1>1, <1>2, <1>3

\* Nothing is left to write of a helper that was killed.
LEMMA HelperKilledType ==
  ASSUME NEW h \in HelperType
  PROVE  /\ HelperKilled(h) \in HelperType /\ HelperKilled(h).todo = <<>>
         /\ HelperKilled(h).phase \notin {"opening", "streaming"}
         /\ HelperKilled(h).phase = "none" => h.phase = "none"
         /\ HelperKilled(h).next = h.next
<1>1. <<>> \in Seq(Frame)
  BY EmptySeq
<1>2. Killed(h) \in HelperType /\ Killed(h).phase \notin {"opening", "streaming"} /\ Killed(h).next = h.next
      /\ (Killed(h).phase = "none" => h.phase = "none")
  BY DEF Killed, Alive, HelperType
<1>3. QED BY <1>1, <1>2 DEF HelperKilled, Left, HelperType, CaptureStates

LEMMA KilledType ==
  ASSUME NEW t \in TranscriberType
  PROVE  Killed(t) \in TranscriberType /\ Killed(t).heard = t.heard
  BY DEF Killed, Alive, TranscriberType

\* fail and onFailure.
LEMMA FailTypes ==
  ASSUME SessionShape(session), bridge \in BridgeType,
         NEW h \in HelperType, NEW t \in TranscriberType, Fail(h, t)
  PROVE  /\ SessionShape(session') /\ session'.over
         /\ helper' = HelperKilled(h) /\ helper' \in HelperType /\ helper'.todo = <<>>
         /\ helper'.phase \notin {"opening", "streaming"}
         /\ transcriber' \in TranscriberType /\ transcriber'.heard = t.heard
         /\ bridge' \in BridgeType /\ bridge'.frames = <<>>
<1> DEFINE s == Push(session, "degraded")
<1>1. SessionShape(s)
  BY PushShape DEF Events, CaptureStates
<1>2. session' = [s EXCEPT !.over = TRUE, !.leased = FALSE]
  BY DEF Fail
<1> HIDE DEF s
<1>3. SessionShape(session') /\ session'.over
  BY <1>1, <1>2 DEF SessionShape, SessionType
<1>4. bridge' \in BridgeType /\ bridge'.frames = <<>>
  <2>1. <<>> \in Seq(Frame) /\ <<>> \in Seq(Nat)
    BY EmptySeq
  <2>2. QED BY <2>1 DEF Fail, Cleared, BridgeType
<1>5. helper' = HelperKilled(h) /\ transcriber' = Killed(t)
  BY DEF Fail
<1>6. QED BY <1>3, <1>4, <1>5, HelperKilledType, KilledType

\* The stop route and the idle timer.
LEMMA EndTypes ==
  ASSUME TypeOK, NEW s, SessionShape(s), s.over = session.over, End(s)
  PROVE  /\ SessionShape(session') /\ session'.over
         /\ helper' \in HelperType /\ bridge' \in BridgeType /\ input' \in Seq(Seq(Nat))
         /\ IF s.over THEN UNCHANGED <<helper, bridge, input>>
            ELSE /\ helper' = HelperKilled(helper)
                 /\ bridge'.frames = <<>> /\ input' = Append(input, Flush)
<1>0. helper \in HelperType /\ bridge \in BridgeType /\ input \in Seq(Seq(Nat))
  BY Types
<1>1. <<>> \in Seq(Frame) /\ <<>> \in Seq(Nat) /\ <<>> \in Seq(Events) /\ Len(<<>>) = 0
  BY EmptySeq
<1>2. SessionShape(session') /\ session'.over
  <2>1. session' = [s EXCEPT !.over = TRUE, !.leased = FALSE, !.ring = <<>>, !.told = 0,
                             !.timer = @ \/ ~s.over]
    BY DEF End
  <2>2. (s.timer \/ ~s.over) \in BOOLEAN /\ s \in SessionType
    BY DEF SessionShape, SessionType
  <2>3. session' \in SessionType /\ session'.ring = <<>> /\ session'.told = 0 /\ session'.over
    BY <1>1, <2>1, <2>2 DEF SessionType
  <2>4. QED BY <1>1, <2>3, Constants DEF SessionShape
<1>3. CASE s.over
  BY <1>0, <1>2, <1>3 DEF End
<1>4. CASE ~s.over
  <2>1. helper' = HelperKilled(helper) /\ Cleared /\ input' = Append(input, Flush)
    BY <1>4 DEF End
  <2>2. helper' \in HelperType
    BY <1>0, <2>1, HelperKilledType
  <2>3. bridge' \in BridgeType /\ bridge'.frames = <<>>
    BY <1>0, <1>1, <2>1 DEF Cleared, BridgeType
  <2>4. input' \in Seq(Seq(Nat))
    BY <1>0, <1>1, <2>1, AppendProperties DEF Flush
  <2>5. QED BY <1>2, <1>4, <2>1, <2>2, <2>3, <2>4
<1>5. QED BY <1>3, <1>4

-----------------------------------------------------------------------------
(* The samples in frames *)

Samples(q) == [i \in 1..Len(q) |-> q[i].samples]

Flow(q, from, to) == Chain(Samples(q), from, to)

LEMMA FrameSamples == ASSUME NEW frame \in Frame PROVE frame.samples \in Seq(Nat)
  BY DEF Frame

LEMMA SamplesType ==
  ASSUME NEW q \in Seq(Frame)
  PROVE  Samples(q) \in Seq(Seq(Nat)) /\ Len(Samples(q)) = Len(q) /\ Len(q) \in Nat
<1>1. Len(q) \in Nat /\ \A i \in 1..Len(q) : q[i] \in Frame
  BY LenProperties, ElementOfSeq
<1>2. \A i \in 1..Len(q) : q[i].samples \in Seq(Nat)
  BY <1>1, FrameSamples
<1>3. Samples(q) \in [1..Len(q) -> Seq(Nat)]
  BY <1>2 DEF Samples
<1>4. Samples(q) \in Seq(Seq(Nat))
  BY <1>1, <1>3, SeqDef
<1>5. DOMAIN Samples(q) = 1..Len(q) /\ DOMAIN Samples(q) = 1..Len(Samples(q)) /\ Len(Samples(q)) \in Nat
  BY <1>3, <1>4, LenProperties
<1>6. QED BY <1>1, <1>4, <1>5

LEMMA SamplesOfNone == Samples(<<>>) = <<>>
<1>1. <<>> \in Seq(Frame) /\ Len(<<>>) = 0
  BY EmptySeq
<1>2. Samples(<<>>) \in Seq(Seq(Nat)) /\ Len(Samples(<<>>)) = 0
  BY <1>1, SamplesType
<1>3. QED BY <1>2, EmptySeq

LEMMA SamplesAppend ==
  ASSUME NEW q \in Seq(Frame), NEW frame \in Frame
  PROVE  Samples(Append(q, frame)) = Append(Samples(q), frame.samples)
<1> DEFINE l == Len(q)
           p == Append(q, frame)
           s == Samples(p)
           t == Append(Samples(q), frame.samples)
<1>1. l \in Nat /\ Samples(q) \in Seq(Seq(Nat)) /\ Len(Samples(q)) = l /\ frame.samples \in Seq(Nat)
  BY SamplesType, FrameSamples
<1>2. p \in Seq(Frame) /\ Len(p) = l + 1 /\ (\A i \in 1..l : p[i] = q[i]) /\ p[l + 1] = frame
  BY AppendProperties
<1>3. s \in Seq(Seq(Nat)) /\ Len(s) = l + 1
  BY <1>2, SamplesType
<1>4. /\ t \in Seq(Seq(Nat)) /\ Len(t) = l + 1
      /\ (\A i \in 1..l : t[i] = Samples(q)[i]) /\ t[l + 1] = frame.samples
  BY <1>1, AppendProperties
<1>5. \A i \in 1..l + 1 : s[i] = p[i].samples
  BY <1>2 DEF Samples
<1>6. \A i \in 1..l : Samples(q)[i] = q[i].samples
  BY DEF Samples
<1> HIDE DEF s, t, p, l
<1>7. ASSUME NEW i \in 1..l + 1 PROVE s[i] = t[i]
  <2>1. CASE i \in 1..l
    BY <1>2, <1>4, <1>5, <1>6, <2>1
  <2>2. CASE i = l + 1
    BY <1>2, <1>4, <1>5, <2>2
  <2>3. QED BY <1>1, <2>1, <2>2
<1>8. s = t
  BY <1>3, <1>4, <1>7, SeqEqual
<1>9. QED BY <1>8 DEF s, t, p

LEMMA SamplesTail ==
  ASSUME NEW q \in Seq(Frame), q # <<>>
  PROVE  /\ Samples(q) # <<>> /\ Head(Samples(q)) = Head(q).samples
         /\ Samples(Tail(q)) = Tail(Samples(q))
<1> DEFINE l == Len(q)
           u == Samples(q)
           s == Samples(Tail(q))
           t == Tail(u)
<1>1. l \in Nat \ {0} /\ u \in Seq(Seq(Nat)) /\ Len(u) = l
  BY SamplesType, EmptySeq
<1>2. u # <<>>
  BY <1>1, EmptySeq
<1>3. \A i \in 1..l : u[i] = q[i].samples
  BY DEF Samples
<1>4. /\ Tail(q) \in Seq(Frame) /\ Len(Tail(q)) = l - 1
      /\ \A i \in 1..Len(Tail(q)) : Tail(q)[i] = q[i + 1]
  BY HeadTailProperties
<1>5. /\ t \in Seq(Seq(Nat)) /\ Len(t) = l - 1
      /\ \A i \in 1..Len(t) : t[i] = u[i + 1]
  BY <1>1, <1>2, HeadTailProperties
<1>6. s \in Seq(Seq(Nat)) /\ Len(s) = l - 1
  BY <1>4, SamplesType
<1>7. \A i \in 1..l - 1 : s[i] = Tail(q)[i].samples
  BY <1>4 DEF Samples
<1>8. Head(u) = u[1] /\ Head(q) = q[1] /\ 1 \in 1..l
  BY <1>1
<1> HIDE DEF s, t, u, l
<1>9. ASSUME NEW i \in 1..l - 1 PROVE s[i] = t[i]
  <2>1. i + 1 \in 1..l
    BY <1>1
  <2>2. QED BY <1>3, <1>4, <1>5, <1>7, <2>1
<1>10. s = t
  BY <1>5, <1>6, <1>9, SeqEqual
<1>11. QED BY <1>2, <1>3, <1>8, <1>10 DEF s, t, u

LEMMA FlowEmpty == ASSUME NEW a \in Nat PROVE Flow(<<>>, a, a)
  BY SamplesOfNone, ChainEmpty DEF Flow

LEMMA FlowOfNone == ASSUME NEW a, NEW b, Flow(<<>>, a, b) PROVE a = b
  BY SamplesOfNone, ChainOfNone DEF Flow

\* A frame after others continues them.
LEMMA FlowAppend ==
  ASSUME NEW q \in Seq(Frame), NEW frame \in Frame, NEW a, NEW b, NEW c,
         Flow(q, a, b), Run(frame.samples, b, c)
  PROVE  Flow(Append(q, frame), a, c)
  BY SamplesType, SamplesAppend, ChainAppend DEF Flow

\* The first of some frames, and what is left of them.
LEMMA FlowTail ==
  ASSUME NEW q \in Seq(Frame), q # <<>>, NEW a, NEW c, Flow(q, a, c)
  PROVE  \E b \in Nat : Run(Head(q).samples, a, b) /\ Flow(Tail(q), b, c)
<1>1. Samples(q) \in Seq(Seq(Nat)) /\ Samples(q) # <<>>
  BY SamplesType, SamplesTail
<1>2. PICK b \in Nat : Run(Head(Samples(q)), a, b) /\ Chain(Tail(Samples(q)), b, c)
  BY <1>1, ChainTail DEF Flow
<1>3. QED BY <1>2, SamplesTail DEF Flow

\* One frame.
LEMMA FlowOne ==
  ASSUME NEW frame \in Frame, NEW a \in Nat, NEW b, Run(frame.samples, a, b)
  PROVE  Flow(<<frame>>, a, b)
<1>1. <<>> \in Seq(Frame) /\ Append(<<>>, frame) = <<frame>>
  BY EmptySeq
<1>2. QED BY <1>1, FlowEmpty, FlowAppend

\* What is written for a packet.
LEMMA FlowOfPacket ==
  ASSUME NEW samples \in Seq(Nat), NEW a \in Nat, NEW b \in Nat, Run(samples, a, b),
         NEW state \in CaptureStates,
         NEW before, before \in {<<>>, <<State(state)>>}, NEW after, after \in {<<>>, <<State(state)>>}
  PROVE  before \o <<Pcm(samples)>> \o after \in Seq(Frame)
         /\ Flow(before \o <<Pcm(samples)>> \o after, a, b)
<1> DEFINE pcm == Pcm(samples)
           says == State(state)
<1>1. pcm \in Frame /\ pcm.samples = samples /\ says \in Frame /\ says.samples = <<>>
  BY PcmFrame, StateFrame
<1>2. Run(<<>>, a, a) /\ Run(<<>>, b, b)
  BY RunEmpty
<1>0. (before = <<>> \/ before = <<says>>) /\ (after = <<>> \/ after = <<says>>)
  OBVIOUS
<1> HIDE DEF pcm, says
<1>3. before \in Seq(Frame) /\ Flow(before, a, a)
  <2>1. CASE before = <<>>
    BY <2>1, EmptySeq, FlowEmpty
  <2>2. CASE before = <<says>>
    BY <1>1, <1>2, <2>2, OneFrame, FlowOne
  <2>3. QED BY <1>0, <2>1, <2>2
<1>4. before \o <<pcm>> = Append(before, pcm)
  BY <1>1, <1>3, AppendIsConcat
<1> DEFINE q == before \o <<pcm>>
<1>5. q \in Seq(Frame) /\ Flow(q, a, b)
  <2>1. Run(pcm.samples, a, b)
    BY <1>1
  <2>2. Append(before, pcm) \in Seq(Frame)
    BY <1>1, <1>3, AppendProperties
  <2>3. Flow(Append(before, pcm), a, b)
    BY <1>1, <1>3, <2>1, FlowAppend
  <2>4. QED BY <1>4, <2>2, <2>3
<1> HIDE DEF q
<1>6. q \o after \in Seq(Frame) /\ Flow(q \o after, a, b)
  <2>1. CASE after = <<>>
    BY <1>5, <2>1, ConcatEmptySeq
  <2>2. CASE after = <<says>>
    <3>1. q \o after = Append(q, says)
      BY <1>1, <1>5, <2>2, AppendIsConcat
    <3>2. QED BY <1>1, <1>2, <1>5, <3>1, AppendProperties, FlowAppend
  <2>3. QED BY <1>0, <2>1, <2>2
<1>7. QED BY <1>6 DEF q, pcm

-----------------------------------------------------------------------------
(* The inductive invariant *)

Dead == {"gone", "reaped"}

\* Only a helper that records, or refuses to, has something to write.
Writing ==
  /\ helper.todo # <<>> => helper.phase \in {"opening", "streaming"}
  /\ helper.phase = "opening" /\ ~helper.ends => helper.todo = <<>>

\* The end of the session leaves no frame of a chunk behind.
Handled == session.over => bridge.frames = <<>>

Grouped == \A i \in 1..Len(input) : input[i] # Flush => Len(input[i]) % Group = 0

\* What was heard and what is in the transcriber's pipe continue each other.  As long as the
\* session is not over, what makes no group yet continues it, then the frames of the chunk
\* being handled, then the helper's pipe, and then what the helper still has to write.
Path(a, b, c, d, e) ==
  /\ Run(transcriber.heard, 1, a) /\ Chain(input, a, b)
  /\ ~session.over => Run(bridge.carry, b, c) /\ Flow(bridge.frames, c, d) /\ Flow(pipe, d, e)
  /\ ~session.over /\ helper.phase \notin Dead => Flow(helper.todo, e, helper.next)

Whole == \E a, b, c, d, e \in Nat : Path(a, b, c, d, e)

IInv == TypeOK /\ Writing /\ Handled /\ Grouped /\ Whole

LEMMA InitHolds == Init => IInv
<1> SUFFICES ASSUME Init PROVE IInv
  OBVIOUS
<1>1. /\ <<>> \in Seq(Frame) /\ <<>> \in Seq(Nat) /\ <<>> \in Seq(Seq(Nat)) /\ <<>> \in Seq(Events)
      /\ Len(<<>>) = 0
  BY EmptySeq
<1>2. /\ session = [present |-> FALSE, over |-> FALSE, leased |-> FALSE, timer |-> FALSE,
                    lost |-> FALSE, ring |-> <<>>, told |-> 0]
      /\ helper = [phase |-> "none", state |-> "stopped", ends |-> FALSE, next |-> 1, todo |-> <<>>]
      /\ bridge = [format |-> FALSE, paused |-> FALSE, frames |-> <<>>, carry |-> <<>>]
      /\ transcriber = [phase |-> "none", hung |-> FALSE, heard |-> <<>>]
      /\ pipe = <<>> /\ input = <<>> /\ output = "none" /\ changes = 0 /\ faults = 0
  BY DEF Init
<1>3. TypeOK
  <2>1. SessionShape(session)
    BY <1>1, <1>2, Constants DEF SessionShape, SessionType
  <2>2. helper \in HelperType
    BY <1>1, <1>2 DEF HelperType, CaptureStates
  <2>3. bridge \in BridgeType
    BY <1>1, <1>2 DEF BridgeType
  <2>4. transcriber \in TranscriberType
    BY <1>1, <1>2 DEF TranscriberType
  <2>5. QED BY <1>1, <1>2, <2>1, <2>2, <2>3, <2>4, Types
<1>4. Path(1, 1, 1, 1, 1)
  BY <1>2, RunEmpty, ChainEmpty, FlowEmpty DEF Path
<1>5. Whole
  BY <1>4 DEF Whole
<1>6. QED BY <1>1, <1>2, <1>3, <1>5 DEF IInv, Writing, Handled, Grouped

-----------------------------------------------------------------------------
(* What kinds of steps preserve it *)

LEMMA GroupedTail ==
  ASSUME input \in Seq(Seq(Nat)), Grouped, input # <<>>, input' = Tail(input) PROVE Grouped'
<1>1. Len(input) \in Nat /\ Len(Tail(input)) = Len(input) - 1
      /\ \A i \in 1..Len(Tail(input)) : Tail(input)[i] = input[i + 1]
  BY LenProperties, HeadTailProperties
<1>2. \A i \in 1..Len(Tail(input)) : i + 1 \in 1..Len(input)
  BY <1>1
<1>3. ASSUME NEW i \in 1..Len(Tail(input)), Tail(input)[i] # Flush
      PROVE  Len(Tail(input)[i]) % Group = 0
  BY <1>1, <1>2, <1>3 DEF Grouped
<1>4. QED BY <1>3 DEF Grouped

LEMMA GroupedAppend ==
  ASSUME input \in Seq(Seq(Nat)), Grouped, NEW x \in Seq(Nat), x # Flush => Len(x) % Group = 0,
         input' = Append(input, x)
  PROVE  Grouped'
<1> DEFINE p == Append(input, x)
<1>1. Len(input) \in Nat /\ Len(p) = Len(input) + 1 /\ (\A i \in 1..Len(input) : p[i] = input[i])
      /\ p[Len(input) + 1] = x
  BY LenProperties, AppendProperties
<1> HIDE DEF p
<1>2. ASSUME NEW i \in 1..Len(p), p[i] # Flush PROVE Len(p[i]) % Group = 0
  <2>1. CASE i \in 1..Len(input)
    BY <1>1, <1>2, <2>1 DEF Grouped
  <2>2. CASE i = Len(input) + 1
    BY <1>1, <1>2, <2>2
  <2>3. i \in 1..Len(input) \/ i = Len(input) + 1
    BY <1>1
  <2>4. QED BY <2>1, <2>2, <2>3
<1>3. QED BY <1>2 DEF Grouped, p

\* Steps that move no sample, and the death of the helper.
LEMMA Elsewhere ==
  ASSUME IInv, TypeOK', Writing', session'.over = session.over, transcriber'.heard = transcriber.heard,
         bridge'.frames = bridge.frames, bridge'.carry = bridge.carry, UNCHANGED <<input, pipe>>,
         helper'.phase \notin Dead =>
           helper.phase \notin Dead /\ helper'.todo = helper.todo /\ helper'.next = helper.next
  PROVE  IInv'
<1>1. Grouped' /\ Handled'
  BY DEF IInv, Grouped, Handled
<1>2. ASSUME NEW a \in Nat, NEW b \in Nat, NEW c \in Nat, NEW d \in Nat, NEW e \in Nat,
             Path(a, b, c, d, e)
      PROVE  Path(a, b, c, d, e)'
  BY <1>2 DEF Path
<1>3. QED BY <1>1, <1>2 DEF IInv, Whole

\* After the end of the session only what the transcriber was sent counts.
LEMMA Ends ==
  ASSUME IInv, TypeOK', Writing', session'.over, bridge'.frames = <<>>,
         transcriber'.heard = transcriber.heard, input' = input \/ input' = Append(input, Flush)
  PROVE  IInv'
<1>1. input \in Seq(Seq(Nat)) /\ Flush \in Seq(Nat) /\ Flush = <<>>
  BY Types, EmptySeq DEF IInv, Flush
<1>2. Handled'
  BY DEF Handled
<1>3. Grouped'
  <2>1. CASE input' = input
    BY <2>1 DEF IInv, Grouped
  <2>2. CASE input' = Append(input, Flush)
    BY <1>1, <2>2, GroupedAppend DEF IInv
  <2>3. QED BY <2>1, <2>2
<1>4. PICK a, b, c, d, e \in Nat : Path(a, b, c, d, e)
  BY DEF IInv, Whole
<1>5. Chain(input', a, b)
  <2>1. Chain(input, a, b) /\ Run(Flush, b, b)
    BY <1>1, <1>4, RunEmpty DEF Path
  <2>2. Chain(Append(input, Flush), a, b)
    BY <1>1, <2>1, ChainAppend
  <2>3. QED BY <2>1, <2>2
<1>6. Path(a, b, c, d, e)'
  BY <1>4, <1>5 DEF Path
<1>7. QED BY <1>2, <1>3, <1>6 DEF IInv, Whole

\* The helper, which has written everything, has something to write.
LEMMA HelperSays ==
  ASSUME IInv, TypeOK', Writing', UNCHANGED <<session, pipe, bridge, input, transcriber>>,
         helper.phase \notin Dead, helper.todo = <<>>,
         Flow(helper'.todo, helper.next, helper'.next)
  PROVE  IInv'
<1>1. Grouped' /\ Handled'
  BY DEF IInv, Grouped, Handled
<1>2. PICK a, b, c, d, e \in Nat : Path(a, b, c, d, e)
  BY DEF IInv, Whole
<1>3. ~session.over => e = helper.next
  BY <1>2, FlowOfNone DEF Path
<1>4. Path(a, b, c, d, e)'
  BY <1>2, <1>3 DEF Path
<1>5. QED BY <1>1, <1>4 DEF IInv, Whole

-----------------------------------------------------------------------------
(* The steps of the helper *)

LEMMA ObservedType == ASSUME helper \in HelperType, NEW signal PROVE Observed(signal) \subseteq CaptureStates
  BY DEF Observed, HelperType, CaptureStates

LEMMA PacketSamples ==
  ASSUME NEW from \in Nat, NEW n \in Nat
  PROVE  /\ [i \in 1..n |-> from + i - 1] \in Seq(Nat)
         /\ Run([i \in 1..n |-> from + i - 1], from, from + n)
<1> DEFINE s == [i \in 1..n |-> from + i - 1]
<1>1. s \in [1..n -> Nat] /\ \A i \in 1..n : s[i] = from + i - 1
  <2>1. \A i \in 1..n : from + i - 1 \in Nat
    OBVIOUS
  <2>2. QED BY <2>1
<1> HIDE DEF s
<1>2. s \in Seq(Nat)
  BY <1>1, SeqDef
<1>3. Len(s) = n
  BY <1>1, <1>2, LenProperties
<1>4. QED BY <1>1, <1>2, <1>3 DEF Run, s

LEMMA HelperHolds == ASSUME IInv, Helper PROVE IInv'
<1>0. /\ SessionShape(session) /\ helper \in HelperType /\ pipe \in Seq(Frame)
      /\ bridge \in BridgeType /\ input \in Seq(Seq(Nat)) /\ transcriber \in TranscriberType
      /\ output \in {"none", "utterance", "garbage"} /\ changes \in Nat /\ faults \in Nat
      /\ helper.next \in Nat
  BY Types DEF IInv, HelperType
<1>1. UNCHANGED <<session, bridge, input, transcriber, output, faults>>
  BY DEF Helper
<1>2. ASSUME helper' \in HelperType, pipe' \in Seq(Frame), changes' \in Nat PROVE TypeOK'
  <2>1. SessionShape(session')
    BY <1>0, <1>1
  <2>2. QED BY <1>0, <1>1, <1>2, <2>1 DEF TypeOK, SessionShape, SessionType, HelperType, BridgeType, TranscriberType
<1>3. <<>> \in Seq(Frame)
  BY EmptySeq
<1>4. ASSUME NEW state \in CaptureStates
      PROVE  <<State(state)>> \in Seq(Frame) /\ Flow(<<State(state)>>, helper.next, helper.next)
             /\ <<State(state)>> # <<>>
  BY <1>0, StateFrame, OneFrame, FlowOne, RunEmpty
<1>5. CASE HelperOpens
  <2>0. helper.phase = "opening" /\ ~helper.ends /\ helper.todo = <<>> /\ UNCHANGED <<pipe, changes>>
    BY <1>5 DEF HelperOpens, IInv, Writing
  <2>1. CASE helper' = [helper EXCEPT !.ends = TRUE, !.todo = <<State("stopped")>>]
    <3>1. helper' \in HelperType /\ helper'.todo = <<State("stopped")>> /\ helper'.next = helper.next
          /\ helper'.phase = "opening" /\ helper'.ends
      BY <1>0, <1>4, <2>0, <2>1 DEF HelperType, CaptureStates
    <3>2. TypeOK' /\ Writing'
      BY <1>0, <1>2, <2>0, <3>1 DEF Writing
    <3>3. Flow(helper'.todo, helper.next, helper'.next)
      BY <1>4, <3>1 DEF CaptureStates
    <3>4. QED BY <1>1, <2>0, <3>2, <3>3, HelperSays DEF Dead
  <2>2. CASE helper' = [helper EXCEPT !.phase = "streaming", !.state = "active",
                                      !.todo = <<Format, State("active")>>]
    <3>1. State("active") \in Frame /\ State("active").samples = <<>> /\ Format \in Frame /\ Format.samples = <<>>
      BY StateFrame, PlainFrames DEF CaptureStates
    <3>2. Append(<<Format>>, State("active")) = <<Format, State("active")>>
      BY <3>1, TwoFrames
    <3>3. <<Format>> \in Seq(Frame) /\ Flow(<<Format>>, helper.next, helper.next)
      BY <1>0, <3>1, OneFrame, FlowOne, RunEmpty
    <3>4. Append(<<Format>>, State("active")) \in Seq(Frame)
          /\ Flow(Append(<<Format>>, State("active")), helper.next, helper.next)
      BY <1>0, <3>1, <3>3, AppendProperties, FlowAppend, RunEmpty
    <3>5. helper' \in HelperType /\ helper'.todo = <<Format, State("active")>> /\ helper'.next = helper.next
          /\ helper'.phase = "streaming"
      BY <1>0, <2>2, <3>2, <3>4 DEF HelperType, CaptureStates
    <3>6. TypeOK' /\ Writing'
      BY <1>0, <1>2, <2>0, <3>5 DEF Writing
    <3>7. Flow(helper'.todo, helper.next, helper'.next)
      BY <3>2, <3>4, <3>5
    <3>8. QED BY <1>1, <2>0, <3>6, <3>7, HelperSays DEF Dead
  <2>3. QED BY <1>5, <2>1, <2>2 DEF HelperOpens
<1>6. CASE HelperRecords
  <2>0. helper.phase = "streaming" /\ helper.todo = <<>> /\ UNCHANGED pipe
    BY <1>6 DEF HelperRecords, Captures
  <2>1. PICK n \in 1..MaxPacket, signal \in BOOLEAN, broken \in BOOLEAN, state \in CaptureStates :
         LET samples == [i \in 1..n |-> helper.next + i - 1]
             told == (IF broken THEN 1 ELSE 0) + (IF state # helper.state THEN 1 ELSE 0)
         IN /\ changes' = changes + told
            /\ helper' = [helper EXCEPT !.next = @ + n, !.state = state, !.todo =
                 (IF broken THEN <<State(state)>> ELSE <<>>) \o <<Pcm(samples)>>
                   \o (IF state # helper.state THEN <<State(state)>> ELSE <<>>)]
    BY <1>0, <1>6, ObservedType DEF HelperRecords
  <2> DEFINE samples == [i \in 1..n |-> helper.next + i - 1]
             told == (IF broken THEN 1 ELSE 0) + (IF state # helper.state THEN 1 ELSE 0)
             before == IF broken THEN <<State(state)>> ELSE <<>>
             after == IF state # helper.state THEN <<State(state)>> ELSE <<>>
             todo == before \o <<Pcm(samples)>> \o after
  <2>2. n \in Nat /\ state \in CaptureStates /\ helper.next + n \in Nat /\ told \in Nat
    BY <1>0, Constants
  <2>3. /\ changes' = changes + told
        /\ helper' = [helper EXCEPT !.next = helper.next + n, !.state = state, !.todo = todo]
    BY <2>1
  <2>4. samples \in Seq(Nat) /\ Run(samples, helper.next, helper.next + n)
    BY <1>0, <2>2, PacketSamples
  <2> HIDE DEF samples, told
  <2>5. before \in {<<>>, <<State(state)>>} /\ after \in {<<>>, <<State(state)>>}
    OBVIOUS
  <2> HIDE DEF before, after
  <2>6. todo \in Seq(Frame) /\ Flow(todo, helper.next, helper.next + n)
    BY <1>0, <2>2, <2>4, <2>5, FlowOfPacket
  <2> HIDE DEF todo
  <2>7. helper' \in HelperType /\ helper'.todo = todo /\ helper'.next = helper.next + n
        /\ helper'.phase = "streaming"
    BY <1>0, <2>0, <2>2, <2>3, <2>6 DEF HelperType
  <2>8. changes' \in Nat
    BY <1>0, <2>2, <2>3
  <2>9. TypeOK' /\ Writing'
    BY <1>0, <1>2, <2>0, <2>7, <2>8 DEF Writing
  <2>10. Flow(helper'.todo, helper.next, helper'.next)
    BY <2>6, <2>7
  <2>11. QED BY <1>1, <2>0, <2>9, <2>10, HelperSays DEF Dead
<1>7. CASE HelperWaits \/ HelperDegrades
  <2>0. helper.phase = "streaming" /\ helper.todo = <<>> /\ UNCHANGED pipe /\ changes' \in Nat
    <3>1. changes' = changes + 1 \/ changes' = changes
      BY <1>7 DEF HelperWaits, HelperDegrades
    <3>2. Captures /\ UNCHANGED pipe
      BY <1>7 DEF HelperWaits, HelperDegrades
    <3>3. QED BY <1>0, <3>1, <3>2 DEF Captures
  <2>1. PICK state \in CaptureStates :
          \/ helper' = [helper EXCEPT !.state = state, !.todo = <<State(state)>>]
          \/ helper' = [helper EXCEPT !.state = state, !.ends = TRUE, !.todo = <<State(state)>>]
    <3>1. CASE HelperWaits
      BY <1>0, <3>1, ObservedType DEF HelperWaits
    <3>2. CASE HelperDegrades
      BY <3>2 DEF HelperDegrades, CaptureStates
    <3>3. QED BY <1>7, <3>1, <3>2
  <2>2. helper' \in HelperType /\ helper'.todo = <<State(state)>> /\ helper'.next = helper.next
        /\ helper'.phase = "streaming"
    BY <1>0, <1>4, <2>0, <2>1 DEF HelperType
  <2>3. TypeOK' /\ Writing'
    BY <1>0, <1>2, <2>0, <2>2 DEF Writing
  <2>4. Flow(helper'.todo, helper.next, helper'.next)
    BY <1>4, <2>2
  <2>5. QED BY <1>1, <2>0, <2>3, <2>4, HelperSays DEF Dead
<1>8. CASE HelperWrites
  <2> DEFINE frame == Head(helper.todo)
  <2>1. helper.todo # <<>> /\ pipe' = Append(pipe, frame) /\ helper' = [helper EXCEPT !.todo = Tail(helper.todo)]
        /\ UNCHANGED changes
    BY <1>8 DEF HelperWrites
  <2>2. helper.todo \in Seq(Frame)
    BY <1>0 DEF HelperType
  <2>3. frame \in Frame /\ Tail(helper.todo) \in Seq(Frame)
    BY <2>1, <2>2, HeadTailProperties
  <2>4. helper' \in HelperType /\ helper'.todo = Tail(helper.todo) /\ helper'.next = helper.next
        /\ helper'.phase = helper.phase /\ helper'.ends = helper.ends
    BY <1>0, <2>1, <2>3 DEF HelperType
  <2>5. pipe' \in Seq(Frame)
    BY <1>0, <2>1, <2>3, AppendProperties
  <2>6. helper.phase \in {"opening", "streaming"} /\ (helper.phase = "opening" => helper.ends)
    BY <2>1 DEF IInv, Writing
  <2>7. helper.ends \in BOOLEAN /\ changes' \in Nat
    BY <1>0, <2>1 DEF HelperType
  <2>8. TypeOK' /\ Writing'
    BY <1>2, <2>4, <2>5, <2>6, <2>7 DEF Writing
  <2>9. PICK a, b, c, d, e \in Nat : Path(a, b, c, d, e)
    BY DEF IInv, Whole
  <2>10. Whole'
    <3>1. CASE session.over
      <4>1. Path(a, b, c, d, e)'
        BY <1>1, <2>9, <3>1 DEF Path
      <4>2. QED BY <4>1 DEF Whole
    <3>2. CASE ~session.over
      <4>1. Flow(pipe, d, e) /\ Flow(helper.todo, e, helper.next)
        BY <2>6, <2>9, <3>2 DEF Path, Dead
      <4>2. PICK f \in Nat : Run(frame.samples, e, f) /\ Flow(Tail(helper.todo), f, helper.next)
        BY <2>1, <2>2, <4>1, FlowTail
      <4>3. Flow(pipe', d, f)
        BY <1>0, <2>1, <2>3, <4>1, <4>2, FlowAppend
      <4>4. Path(a, b, c, d, f)'
        BY <1>1, <2>4, <2>9, <3>2, <4>2, <4>3 DEF Path
      <4>5. QED BY <4>4 DEF Whole
    <3>3. QED BY <3>1, <3>2
  <2>11. QED BY <1>1, <2>8, <2>10 DEF IInv, Handled, Grouped
<1>9. CASE HelperExits
  <2>1. helper' = Left([helper EXCEPT !.phase = "gone"]) /\ UNCHANGED <<pipe, changes>>
    BY <1>9 DEF HelperExits
  <2>2. helper' \in HelperType /\ helper'.todo = <<>> /\ helper'.phase = "gone"
    BY <1>0, <1>3, <2>1 DEF Left, HelperType, CaptureStates
  <2>3. TypeOK' /\ Writing'
    BY <1>0, <1>2, <2>1, <2>2 DEF Writing
  <2>4. QED BY <1>1, <2>1, <2>2, <2>3, Elsewhere DEF Dead
<1>10. QED BY <1>5, <1>6, <1>7, <1>8, <1>9 DEF Helper

-----------------------------------------------------------------------------
(* The steps of the transcriber *)

LEMMA Retyped ==
  ASSUME SessionShape(session'), helper' \in HelperType, pipe' \in Seq(Frame), bridge' \in BridgeType,
         input' \in Seq(Seq(Nat)), transcriber' \in TranscriberType,
         output' \in {"none", "utterance", "garbage"}, changes' \in Nat, faults' \in Nat
  PROVE  TypeOK'
  BY DEF TypeOK, SessionShape, SessionType, HelperType, BridgeType, TranscriberType

\* The first message is taken off, and what was heard grows by it.
LEMMA Takes ==
  ASSUME IInv, TypeOK', UNCHANGED <<session, helper, pipe, bridge>>, input # <<>>, input' = Tail(input),
         transcriber'.heard = transcriber.heard \o Head(input)
  PROVE  IInv'
<1>1. input \in Seq(Seq(Nat))
  BY Types DEF IInv
<1>2. Grouped' /\ Writing' /\ Handled'
  BY <1>1, GroupedTail DEF IInv, Writing, Handled
<1>3. PICK a, b, c, d, e \in Nat : Path(a, b, c, d, e)
  BY DEF IInv, Whole
<1>4. Run(transcriber.heard, 1, a) /\ Chain(input, a, b)
  BY <1>3 DEF Path
<1>5. PICK f \in Nat : Run(Head(input), a, f) /\ Chain(Tail(input), f, b)
  BY <1>1, <1>4, ChainTail
<1>6. Run(transcriber'.heard, 1, f)
  BY <1>4, <1>5, RunConcat
<1>7. Path(f, b, c, d, e)'
  BY <1>3, <1>5, <1>6 DEF Path
<1>8. QED BY <1>2, <1>7 DEF IInv, Whole

\* What a step may do to what was heard: add a message of whole groups, or nothing.
Promise ==
  \/ transcriber'.heard = transcriber.heard
  \/ \E x \in Seq(Nat) :
       x # <<>> /\ Len(x) % Group = 0 /\ transcriber'.heard = transcriber.heard \o x

LEMMA TranscriberHolds == ASSUME IInv, Transcriber PROVE IInv' /\ Promise
<1>0. /\ SessionShape(session) /\ helper \in HelperType /\ pipe \in Seq(Frame)
      /\ bridge \in BridgeType /\ input \in Seq(Seq(Nat)) /\ transcriber \in TranscriberType
      /\ output \in {"none", "utterance", "garbage"} /\ changes \in Nat /\ faults \in Nat
      /\ transcriber.heard \in Seq(Nat)
  BY Types DEF IInv, TranscriberType
<1>1. /\ UNCHANGED <<session, helper, pipe, bridge, changes, faults>>
      /\ input # <<>> /\ input' = Tail(input)
  BY DEF Transcriber, Reads, Flushes, Listens
<1>2. Head(input) \in Seq(Nat) /\ Tail(input) \in Seq(Seq(Nat))
  BY <1>0, <1>1, HeadTailProperties
<1>3. SessionShape(session')
  BY <1>0, <1>1
<1> DEFINE x == Head(input)
<1>4. CASE Reads
  <2>1. x # Flush /\ transcriber' = [transcriber EXCEPT !.heard = transcriber.heard \o x]
        /\ output' \in {output, IF output = "none" THEN "utterance" ELSE output}
    BY <1>4 DEF Reads
  <2>2. transcriber.heard \o x \in Seq(Nat)
    BY <1>0, <1>2, ConcatProperties
  <2>3. transcriber' \in TranscriberType /\ transcriber'.heard = transcriber.heard \o x
    BY <1>0, <2>1, <2>2 DEF TranscriberType
  <2>4. output' \in {"none", "utterance", "garbage"}
    BY <1>0, <2>1
  <2>5. TypeOK'
    BY <1>0, <1>1, <1>2, <1>3, <2>3, <2>4, Retyped
  <2>6. IInv'
    BY <1>1, <2>3, <2>5, Takes
  <2>7. Len(x) % Group = 0 /\ x # <<>>
    <3>1. x = input[1]
      OBVIOUS
    <3>2. 1 \in 1..Len(input)
      BY <1>0, <1>1, EmptySeq
    <3> HIDE DEF x
    <3>3. QED BY <2>1, <3>1, <3>2 DEF IInv, Grouped, Flush
  <2>8. QED BY <1>2, <2>3, <2>6, <2>7 DEF Promise
<1>5. CASE Flushes
  <2>1. x = <<>> /\ transcriber' = [transcriber EXCEPT !.phase = "gone"] /\ UNCHANGED output
    BY <1>5 DEF Flushes, Flush
  <2>2. transcriber' \in TranscriberType /\ transcriber'.heard = transcriber.heard
    BY <1>0, <2>1 DEF TranscriberType
  <2>3. TypeOK'
    BY <1>0, <1>1, <1>2, <1>3, <2>1, <2>2, Retyped
  <2>4. transcriber.heard \o x = transcriber.heard
    BY <1>0, <2>1, ConcatEmptySeq
  <2>5. IInv'
    BY <1>1, <2>2, <2>3, <2>4, Takes
  <2>6. QED BY <2>2, <2>5 DEF Promise
<1>6. QED BY <1>4, <1>5 DEF Transcriber

-----------------------------------------------------------------------------
(* The steps of the bridge *)

\* A chunk is taken from the helper's pipe.
LEMMA AudioDataHolds == ASSUME IInv, AudioData PROVE IInv' /\ transcriber'.heard = transcriber.heard
<1>0. /\ SessionShape(session) /\ helper \in HelperType /\ pipe \in Seq(Frame)
      /\ bridge \in BridgeType /\ input \in Seq(Seq(Nat)) /\ transcriber \in TranscriberType
      /\ output \in {"none", "utterance", "garbage"} /\ changes \in Nat /\ faults \in Nat
  BY Types DEF IInv
<1>1. bridge.frames = <<>> /\ pipe' = <<>> /\ UNCHANGED <<input, output, changes, faults>>
  BY DEF AudioData, Quiet
<1>2. <<>> \in Seq(Frame)
  BY EmptySeq
<1>3. CASE session.over
  <2>1. UNCHANGED <<session, helper, bridge, transcriber>>
    BY <1>3 DEF AudioData
  <2>2. SessionShape(session')
    BY <1>0, <2>1
  <2>3. TypeOK' /\ Writing'
    BY <1>0, <1>1, <1>2, <2>1, <2>2, Retyped DEF IInv, Writing
  <2>4. QED BY <1>1, <1>3, <2>1, <2>3, Ends
<1>4. CASE ~session.over /\ Fail(helper, transcriber)
  <2>1. TypeOK' /\ Writing'
    BY <1>0, <1>1, <1>2, <1>4, FailTypes, Retyped DEF Writing
  <2>2. QED BY <1>0, <1>1, <1>4, <2>1, FailTypes, Ends
<1>5. CASE /\ ~session.over /\ bridge' = [bridge EXCEPT !.frames = pipe]
           /\ UNCHANGED <<session, helper, transcriber>>
  <2>1. bridge' \in BridgeType /\ bridge'.frames = pipe /\ bridge'.carry = bridge.carry
    BY <1>0, <1>5 DEF BridgeType
  <2>2. SessionShape(session')
    BY <1>0, <1>5
  <2>3. TypeOK' /\ Writing'
    BY <1>0, <1>1, <1>2, <1>5, <2>1, <2>2, Retyped DEF IInv, Writing
  <2>4. Handled' /\ Grouped'
    BY <1>1, <1>5 DEF IInv, Handled, Grouped
  <2>5. PICK a, b, c, d, e \in Nat : Path(a, b, c, d, e)
    BY DEF IInv, Whole
  <2>6. c = d /\ Flow(<<>>, e, e)
    BY <1>1, <1>5, <2>5, FlowOfNone, FlowEmpty DEF Path
  <2>7. Path(a, b, c, e, e)'
    BY <1>1, <1>5, <2>1, <2>5, <2>6 DEF Path
  <2>8. QED BY <1>5, <2>3, <2>4, <2>7 DEF IInv, Whole
<1>6. QED BY <1>3, <1>4, <1>5 DEF AudioData

\* writeRemotePcm: what it sends and what it keeps continue what was sent before.
LEMMA RemotePcm ==
  ASSUME IInv, NEW rest \in BridgeType, rest.carry = bridge.carry, NEW samples \in Seq(Nat),
         NEW a \in Nat, NEW b \in Nat, NEW c \in Nat, NEW d \in Nat,
         Chain(input, a, b), Run(bridge.carry, b, c), Run(samples, c, d), WriteRemotePcm(rest, samples)
  PROVE  /\ bridge' \in BridgeType /\ bridge'.frames = rest.frames
         /\ input' \in Seq(Seq(Nat)) /\ Grouped'
         /\ \E f \in Nat : Chain(input', a, f) /\ Run(bridge'.carry, f, d)
<1> DEFINE combined == bridge.carry \o samples
<1>1. input \in Seq(Seq(Nat)) /\ bridge \in BridgeType /\ bridge.carry \in Seq(Nat) /\ Grouped
  BY Types DEF IInv, BridgeType
<1>2. combined \in Seq(Nat) /\ Len(combined) \in Nat
  BY <1>1, ConcatProperties, LenProperties
<1>3. Run(combined, b, d)
  BY RunConcat
<1>4. PICK n \in 0..Len(combined) :
        /\ n % Group = 0
        /\ input' = IF n = 0 THEN input ELSE Append(input, SubSeq(combined, 1, n))
        /\ bridge' = [rest EXCEPT !.carry = SubSeq(combined, n + 1, Len(combined)),
                                  !.paused = @ \/ (n > 0 /\ Len(input') > MaxInput)]
  BY DEF WriteRemotePcm
<1> HIDE DEF combined
<1> DEFINE sent == SubSeq(combined, 1, n)
           kept == SubSeq(combined, n + 1, Len(combined))
<1>5. Run(sent, b, b + n) /\ Run(kept, b + n, d)
  BY <1>3, RunSplit
<1>6. sent \in Seq(Nat) /\ kept \in Seq(Nat)
  BY <1>5 DEF Run
<1>7. Len(sent) = n
  <2>1. Len(sent) \in Nat /\ b + n = b + Len(sent) /\ n \in Nat
    BY <1>2, <1>5, <1>6, LenProperties DEF Run
  <2>2. QED BY <2>1
<1> HIDE DEF sent, kept
<1>8. bridge' \in BridgeType /\ bridge'.frames = rest.frames /\ bridge'.carry = kept
  <2>1. (rest.paused \/ (n > 0 /\ Len(input') > MaxInput)) \in BOOLEAN
    OBVIOUS
  <2>2. bridge' = [rest EXCEPT !.carry = kept, !.paused = rest.paused \/ (n > 0 /\ Len(input') > MaxInput)]
    BY <1>4 DEF kept
  <2>3. QED BY <1>6, <2>1, <2>2 DEF BridgeType
<1>9. b + n \in Nat
  BY <1>2
<1>10. CASE n = 0
  <2>1. input' = input /\ b + n = b
    BY <1>4, <1>10
  <2>2. Grouped'
    BY <1>1, <2>1 DEF Grouped
  <2>3. Chain(input', a, b) /\ Run(bridge'.carry, b, d)
    BY <1>5, <1>8, <2>1
  <2>4. QED BY <1>1, <1>8, <2>1, <2>2, <2>3
<1>11. CASE n # 0
  <2>1. input' = Append(input, sent)
    BY <1>4, <1>11 DEF sent
  <2>2. input' \in Seq(Seq(Nat))
    BY <1>1, <1>6, <2>1, AppendProperties
  <2>3. Grouped'
    BY <1>1, <1>4, <1>6, <1>7, <2>1, GroupedAppend
  <2>4. Chain(input', a, b + n)
    BY <1>1, <1>5, <2>1, ChainAppend
  <2>5. QED BY <1>5, <1>8, <1>9, <2>2, <2>3, <2>4
<1>12. QED BY <1>10, <1>11

\* The next frame of a chunk.
LEMMA FrameHandledHolds == ASSUME IInv, FrameHandled PROVE IInv' /\ transcriber'.heard = transcriber.heard
<1> DEFINE frame == Head(bridge.frames)
           rest == [bridge EXCEPT !.frames = Tail(bridge.frames)]
<1>0. /\ SessionShape(session) /\ helper \in HelperType /\ pipe \in Seq(Frame)
      /\ bridge \in BridgeType /\ input \in Seq(Seq(Nat)) /\ transcriber \in TranscriberType
      /\ output \in {"none", "utterance", "garbage"} /\ changes \in Nat /\ faults \in Nat
      /\ bridge.frames \in Seq(Frame) /\ bridge.carry \in Seq(Nat)
  BY Types DEF IInv, BridgeType
<1>1. bridge.frames # <<>> /\ ~session.over /\ UNCHANGED <<pipe, output, changes, faults>>
  BY DEF FrameHandled, Quiet, IInv, Handled
<1>2. frame \in Frame /\ Tail(bridge.frames) \in Seq(Frame) /\ frame.samples \in Seq(Nat)
  BY <1>0, <1>1, HeadTailProperties, FrameSamples
<1>3. rest \in BridgeType /\ rest.frames = Tail(bridge.frames) /\ rest.carry = bridge.carry
  BY <1>0, <1>2 DEF BridgeType
<1>4. PICK a, b, c, d, e \in Nat : Path(a, b, c, d, e)
  BY DEF IInv, Whole
<1>5. PICK f \in Nat : Run(frame.samples, c, f) /\ Flow(Tail(bridge.frames), f, d)
  BY <1>0, <1>1, <1>4, FlowTail DEF Path
<1>6. \/ /\ frame.type = "format" /\ bridge' = [rest EXCEPT !.format = TRUE]
         /\ UNCHANGED <<session, helper, input, transcriber>>
      \/ /\ frame.type = "state" /\ bridge' = rest /\ session' = Push(session, frame.state)
         /\ UNCHANGED <<helper, input, transcriber>>
      \/ /\ frame.type = "pcm" /\ Fail(helper, transcriber) /\ UNCHANGED input
      \/ /\ frame.type = "pcm" /\ WriteRemotePcm(rest, frame.samples)
         /\ UNCHANGED <<session, helper, transcriber>>
  BY DEF FrameHandled
<1> HIDE DEF rest, frame
\* A frame without samples.
<1>7. ASSUME frame.type # "pcm", bridge' \in BridgeType, bridge'.frames = Tail(bridge.frames),
             bridge'.carry = bridge.carry, SessionShape(session'), ~session'.over,
             UNCHANGED <<helper, input, transcriber>>
      PROVE  IInv'
  <2>1. frame.samples = <<>>
    BY <1>2, <1>7 DEF Frame
  <2>2. c = f
    <3>1. Len(<<>>) = 0 /\ f = c + Len(frame.samples)
      BY <1>5, EmptySeq DEF Run
    <3>2. QED BY <2>1, <3>1
  <2>3. TypeOK' /\ Writing'
    BY <1>0, <1>1, <1>7, Retyped DEF IInv, Writing
  <2>4. Handled' /\ Grouped'
    BY <1>7 DEF IInv, Handled, Grouped
  <2>5. Path(a, b, c, d, e)'
    BY <1>1, <1>4, <1>5, <1>7, <2>2 DEF Path
  <2>6. QED BY <2>3, <2>4, <2>5 DEF IInv, Whole
<1>8. CASE /\ frame.type = "format" /\ bridge' = [rest EXCEPT !.format = TRUE]
           /\ UNCHANGED <<session, helper, input, transcriber>>
  <2>1. bridge' \in BridgeType /\ bridge'.frames = Tail(bridge.frames) /\ bridge'.carry = bridge.carry
    BY <1>3, <1>8 DEF BridgeType
  <2>2. SessionShape(session') /\ ~session'.over
    BY <1>0, <1>1, <1>8
  <2>3. QED BY <1>7, <1>8, <2>1, <2>2
<1>9. CASE /\ frame.type = "state" /\ bridge' = rest /\ session' = Push(session, frame.state)
           /\ UNCHANGED <<helper, input, transcriber>>
  <2>1. frame.state \in Events
    BY <1>2, <1>9 DEF Frame, Events
  <2>2. SessionShape(session') /\ ~session'.over
    BY <1>0, <1>1, <1>9, <2>1, PushShape
  <2>3. QED BY <1>3, <1>7, <1>9, <2>2
<1>10. CASE Fail(helper, transcriber) /\ UNCHANGED input
  <2>1. TypeOK' /\ Writing'
    BY <1>0, <1>1, <1>10, FailTypes, Retyped DEF Writing
  <2>2. QED BY <1>0, <1>10, <2>1, FailTypes, Ends
<1>11. CASE WriteRemotePcm(rest, frame.samples) /\ UNCHANGED <<session, helper, transcriber>>
  <2>1. Chain(input, a, b) /\ Run(bridge.carry, b, c)
    BY <1>1, <1>4 DEF Path
  <2>2. /\ bridge' \in BridgeType /\ bridge'.frames = Tail(bridge.frames)
        /\ input' \in Seq(Seq(Nat)) /\ Grouped'
        /\ \E g \in Nat : Chain(input', a, g) /\ Run(bridge'.carry, g, f)
    BY <1>2, <1>3, <1>5, <1>11, <2>1, RemotePcm
  <2>3. PICK g \in Nat : Chain(input', a, g) /\ Run(bridge'.carry, g, f)
    BY <2>2
  <2>4. SessionShape(session') /\ ~session'.over
    BY <1>0, <1>1, <1>11
  <2>5. TypeOK' /\ Writing'
    BY <1>0, <1>1, <1>11, <2>2, <2>4, Retyped DEF IInv, Writing
  <2>6. Path(a, g, f, d, e)'
    BY <1>1, <1>4, <1>5, <1>11, <2>2, <2>3 DEF Path
  <2>7. QED BY <1>11, <2>2, <2>4, <2>5, <2>6 DEF IInv, Whole, Handled
<1>12. QED BY <1>6, <1>8, <1>9, <1>10, <1>11, FailTypes, <1>0

\* A failure, wherever the bridge meets one.
LEMMA FailHolds ==
  ASSUME IInv, NEW h \in HelperType, NEW t \in TranscriberType, t.heard = transcriber.heard, Fail(h, t),
         UNCHANGED <<pipe, input, changes>>, output' \in {"none", "utterance", "garbage"}, faults' \in Nat
  PROVE  IInv' /\ transcriber'.heard = transcriber.heard
<1>0. /\ SessionShape(session) /\ helper \in HelperType /\ pipe \in Seq(Frame)
      /\ bridge \in BridgeType /\ input \in Seq(Seq(Nat)) /\ transcriber \in TranscriberType
      /\ output \in {"none", "utterance", "garbage"} /\ changes \in Nat /\ faults \in Nat
  BY Types DEF IInv
<1>1. TypeOK' /\ Writing'
  BY <1>0, FailTypes, Retyped DEF Writing
<1>2. QED BY <1>0, <1>1, FailTypes, Ends

LEMMA TranscriptDataHolds == ASSUME IInv, TranscriptData PROVE IInv' /\ transcriber'.heard = transcriber.heard
<1>0. /\ SessionShape(session) /\ helper \in HelperType /\ pipe \in Seq(Frame)
      /\ bridge \in BridgeType /\ input \in Seq(Seq(Nat)) /\ transcriber \in TranscriberType
      /\ output \in {"none", "utterance", "garbage"} /\ changes \in Nat /\ faults \in Nat
  BY Types DEF IInv
<1>1. output' = "none" /\ output # "none" /\ UNCHANGED <<pipe, input, changes, faults>>
  BY DEF TranscriptData
<1>2. CASE output = "garbage" /\ ~session.over
  BY <1>0, <1>1, <1>2, FailHolds DEF TranscriptData
<1>3. CASE ~(output = "garbage" /\ ~session.over)
  <2>1. session' = Push(session, output) /\ UNCHANGED <<helper, bridge, transcriber>>
    BY <1>3 DEF TranscriptData
  <2>2. output \in Events \/ session.over
    BY <1>0, <1>1, <1>3 DEF Events
  <2>3. SessionShape(session') /\ session'.over = session.over
    BY <1>0, <2>1, <2>2, PushShape
  <2>4. TypeOK' /\ Writing'
    BY <1>0, <1>1, <2>1, <2>3, Retyped DEF IInv, Writing
  <2>5. QED BY <1>1, <2>1, <2>3, <2>4, Elsewhere
<1>4. QED BY <1>2, <1>3

LEMMA WorkerLostHolds == ASSUME IInv, WorkerLost PROVE IInv' /\ transcriber'.heard = transcriber.heard
<1>0. /\ SessionShape(session) /\ helper \in HelperType /\ pipe \in Seq(Frame)
      /\ bridge \in BridgeType /\ input \in Seq(Seq(Nat)) /\ transcriber \in TranscriberType
      /\ output \in {"none", "utterance", "garbage"} /\ changes \in Nat /\ faults \in Nat
  BY Types DEF IInv
<1>1. UNCHANGED <<pipe, input, output, changes, faults>>
  BY DEF WorkerLost
<1> DEFINE h == [helper EXCEPT !.phase = "reaped"]
           t == [transcriber EXCEPT !.phase = "reaped"]
<1>2. h \in HelperType /\ h.phase = "reaped" /\ h.todo = helper.todo
  BY <1>0 DEF HelperType
<1>3. t \in TranscriberType /\ t.heard = transcriber.heard
  BY <1>0 DEF TranscriberType
<1>4. \/ helper.phase = "gone" /\ helper' = h /\ UNCHANGED <<session, bridge, transcriber>>
      \/ transcriber' = t /\ UNCHANGED <<session, bridge, helper>>
      \/ Fail(h, transcriber) \/ Fail(helper, t)
  BY DEF WorkerLost
<1> HIDE DEF h, t
<1>5. CASE helper.phase = "gone" /\ helper' = h /\ UNCHANGED <<session, bridge, transcriber>>
  <2>1. SessionShape(session')
    BY <1>0, <1>5
  <2>2. helper.todo = <<>>
    BY <1>5 DEF IInv, Writing
  <2>3. TypeOK' /\ Writing'
    BY <1>0, <1>1, <1>2, <1>5, <2>1, <2>2, Retyped DEF Writing
  <2>4. QED BY <1>1, <1>2, <1>5, <2>3, Elsewhere DEF Dead
<1>6. CASE transcriber' = t /\ UNCHANGED <<session, bridge, helper>>
  <2>1. SessionShape(session')
    BY <1>0, <1>6
  <2>2. TypeOK' /\ Writing'
    BY <1>0, <1>1, <1>3, <1>6, <2>1, Retyped DEF IInv, Writing
  <2>3. QED BY <1>1, <1>3, <1>6, <2>2, Elsewhere
<1>7. CASE Fail(h, transcriber) \/ Fail(helper, t)
  BY <1>0, <1>1, <1>2, <1>3, <1>7, FailHolds
<1>8. QED BY <1>4, <1>5, <1>6, <1>7

LEMMA BridgeHolds == ASSUME IInv, Bridge PROVE IInv' /\ transcriber'.heard = transcriber.heard
<1>0. /\ SessionShape(session) /\ helper \in HelperType /\ pipe \in Seq(Frame)
      /\ bridge \in BridgeType /\ input \in Seq(Seq(Nat)) /\ transcriber \in TranscriberType
      /\ output \in {"none", "utterance", "garbage"} /\ changes \in Nat /\ faults \in Nat
  BY Types DEF IInv
<1>1. CASE Removal
  <2>1. session' = [session EXCEPT !.present = FALSE]
        /\ UNCHANGED <<helper, pipe, bridge, input, transcriber, output, changes, faults>>
    BY <1>1 DEF Removal
  <2>2. SessionShape(session') /\ session'.over = session.over
    BY <1>0, <2>1 DEF SessionShape, SessionType
  <2>3. TypeOK' /\ Writing'
    BY <1>0, <2>1, <2>2, Retyped DEF IInv, Writing
  <2>4. QED BY <2>1, <2>2, <2>3, Elsewhere
<1>2. CASE KillTimer
  <2>1. session' = [session EXCEPT !.timer = FALSE] /\ transcriber' = Killed(transcriber)
        /\ UNCHANGED <<helper, pipe, bridge, input, output, changes, faults>>
    BY <1>2 DEF KillTimer
  <2>2. SessionShape(session') /\ session'.over = session.over
    BY <1>0, <2>1 DEF SessionShape, SessionType
  <2>3. transcriber' \in TranscriberType /\ transcriber'.heard = transcriber.heard
    BY <1>0, <2>1, KilledType
  <2>4. TypeOK' /\ Writing'
    BY <1>0, <2>1, <2>2, <2>3, Retyped DEF IInv, Writing
  <2>5. QED BY <2>1, <2>2, <2>3, <2>4, Elsewhere
<1>3. CASE Drains
  <2>1. bridge' = [bridge EXCEPT !.paused = FALSE]
        /\ UNCHANGED <<session, helper, pipe, input, transcriber, output, changes, faults>>
    BY <1>3 DEF Drains
  <2>2. bridge' \in BridgeType /\ bridge'.frames = bridge.frames /\ bridge'.carry = bridge.carry
    BY <1>0, <2>1 DEF BridgeType
  <2>3. SessionShape(session')
    BY <1>0, <2>1
  <2>4. TypeOK' /\ Writing'
    BY <1>0, <2>1, <2>2, <2>3, Retyped DEF IInv, Writing
  <2>5. QED BY <2>1, <2>2, <2>4, Elsewhere
<1>4. QED
  BY <1>1, <1>2, <1>3, AudioDataHolds, FrameHandledHolds, TranscriptDataHolds, WorkerLostHolds DEF Bridge

-----------------------------------------------------------------------------
(* The routes, the idle timer and faults *)

LEMMA EndHolds ==
  ASSUME IInv, NEW s, SessionShape(s), s.over = session.over, End(s),
         UNCHANGED <<pipe, transcriber, output, changes, faults>>
  PROVE  IInv' /\ transcriber'.heard = transcriber.heard
<1>0. /\ SessionShape(session) /\ helper \in HelperType /\ pipe \in Seq(Frame)
      /\ bridge \in BridgeType /\ input \in Seq(Seq(Nat)) /\ transcriber \in TranscriberType
      /\ output \in {"none", "utterance", "garbage"} /\ changes \in Nat /\ faults \in Nat
  BY Types DEF IInv
<1>1. /\ SessionShape(session') /\ session'.over
      /\ helper' \in HelperType /\ bridge' \in BridgeType /\ input' \in Seq(Seq(Nat))
      /\ IF s.over THEN UNCHANGED <<helper, bridge, input>>
         ELSE /\ helper' = HelperKilled(helper)
              /\ bridge'.frames = <<>> /\ input' = Append(input, Flush)
  BY EndTypes DEF IInv
<1>2. TypeOK'
  BY <1>0, <1>1, Retyped
<1>3. CASE s.over
  <2>1. bridge'.frames = <<>> /\ Writing' /\ input' = input
    BY <1>1, <1>3 DEF IInv, Handled, Writing
  <2>2. QED BY <1>1, <1>2, <2>1, Ends
<1>4. CASE ~s.over
  <2>1. bridge'.frames = <<>> /\ input' = Append(input, Flush) /\ helper' = HelperKilled(helper)
    BY <1>1, <1>4
  <2>2. Writing'
    BY <1>0, <2>1, HelperKilledType DEF Writing
  <2>3. QED BY <1>1, <1>2, <2>1, <2>2, Ends
<1>5. QED BY <1>3, <1>4

LEMMA ClientHolds ==
  ASSUME IInv, Create \/ CreateFails \/ StopRoute \/ LeaseRunsOut
  PROVE  IInv' /\ transcriber'.heard = transcriber.heard
<1>0. /\ SessionShape(session) /\ helper \in HelperType /\ pipe \in Seq(Frame)
      /\ bridge \in BridgeType /\ input \in Seq(Seq(Nat)) /\ transcriber \in TranscriberType
      /\ output \in {"none", "utterance", "garbage"} /\ changes \in Nat /\ faults \in Nat
  BY Types DEF IInv
<1>1. CASE Create
  <2>1. /\ helper.phase = "none" /\ helper' = [helper EXCEPT !.phase = "opening"]
        /\ session' = [session EXCEPT !.present = TRUE, !.leased = TRUE]
        /\ transcriber' = [transcriber EXCEPT !.phase = "running"]
        /\ UNCHANGED <<pipe, bridge, input, output, changes, faults>>
    BY <1>1 DEF Create
  <2>2. SessionShape(session') /\ session'.over = session.over
    BY <1>0, <2>1 DEF SessionShape, SessionType
  <2>3. helper' \in HelperType /\ helper'.todo = helper.todo /\ helper'.next = helper.next
    BY <1>0, <2>1 DEF HelperType
  <2>4. transcriber' \in TranscriberType /\ transcriber'.heard = transcriber.heard
    BY <1>0, <2>1 DEF TranscriberType
  <2>5. helper.todo = <<>>
    BY <2>1 DEF IInv, Writing
  <2>6. TypeOK' /\ Writing'
    BY <1>0, <2>1, <2>2, <2>3, <2>4, <2>5, Retyped DEF Writing
  <2>7. QED BY <2>1, <2>2, <2>3, <2>4, <2>6, Elsewhere DEF Dead
<1>2. CASE CreateFails
  <2>1. /\ helper.phase = "none" /\ helper' = [helper EXCEPT !.phase = "reaped"]
        /\ UNCHANGED <<session, pipe, bridge, input, transcriber, output, changes, faults>>
    BY <1>2 DEF CreateFails
  <2>2. helper' \in HelperType /\ helper'.todo = helper.todo /\ helper'.phase = "reaped"
    BY <1>0, <2>1 DEF HelperType
  <2>3. helper.todo = <<>> /\ SessionShape(session')
    BY <1>0, <2>1 DEF IInv, Writing
  <2>4. TypeOK' /\ Writing'
    BY <1>0, <2>1, <2>2, <2>3, Retyped DEF Writing
  <2>5. QED BY <2>1, <2>2, <2>4, Elsewhere DEF Dead
<1>3. CASE StopRoute
  BY <1>0, <1>3, EndHolds DEF StopRoute
<1>4. CASE LeaseRunsOut
  <2> DEFINE s == [session EXCEPT !.present = FALSE]
  <2>1. SessionShape(s) /\ s.over = session.over
    BY <1>0 DEF SessionShape, SessionType
  <2>2. End(s) /\ UNCHANGED <<pipe, transcriber, output, changes, faults>>
    BY <1>4 DEF LeaseRunsOut
  <2> HIDE DEF s
  <2>3. QED BY <2>1, <2>2, EndHolds
<1>5. QED BY <1>1, <1>2, <1>3, <1>4

LEMMA FaultHolds == ASSUME IInv, Fault PROVE IInv' /\ transcriber'.heard = transcriber.heard
<1>0. /\ SessionShape(session) /\ helper \in HelperType /\ pipe \in Seq(Frame)
      /\ bridge \in BridgeType /\ input \in Seq(Seq(Nat)) /\ transcriber \in TranscriberType
      /\ output \in {"none", "utterance", "garbage"} /\ changes \in Nat /\ faults \in Nat
  BY Types DEF IInv
<1>1. /\ UNCHANGED <<session, bridge, input, changes>> /\ faults' \in Nat
      /\ SessionShape(session')
  BY <1>0 DEF Fault
<1>2. CASE Crashes
  <2>1. CASE helper' = HelperKilled(helper) /\ UNCHANGED <<transcriber, pipe, output>> /\ helper.phase \in Alive
    <3>1. helper' \in HelperType /\ helper'.todo = <<>> /\ helper'.phase \in Dead
      BY <1>0, <2>1, HelperKilledType DEF HelperKilled, Left, Killed, Dead, HelperType
    <3>2. TypeOK' /\ Writing'
      BY <1>0, <1>1, <2>1, <3>1, Retyped DEF Writing
    <3>3. QED BY <1>1, <2>1, <3>1, <3>2, Elsewhere
  <2>2. CASE transcriber' = Killed(transcriber) /\ UNCHANGED <<helper, pipe, output>>
    <3>1. transcriber' \in TranscriberType /\ transcriber'.heard = transcriber.heard
      BY <1>0, <2>2, KilledType
    <3>2. TypeOK' /\ Writing'
      BY <1>0, <1>1, <2>2, <3>1, Retyped DEF IInv, Writing
    <3>3. QED BY <1>1, <2>2, <3>1, <3>2, Elsewhere
  <2>3. QED BY <1>2, <2>1, <2>2 DEF Crashes
<1>3. CASE Hangs
  <2>1. transcriber' = [transcriber EXCEPT !.hung = TRUE] /\ UNCHANGED <<helper, pipe, output>>
    BY <1>3 DEF Hangs
  <2>2. transcriber' \in TranscriberType /\ transcriber'.heard = transcriber.heard
    BY <1>0, <2>1 DEF TranscriberType
  <2>3. TypeOK' /\ Writing'
    BY <1>0, <1>1, <2>1, <2>2, Retyped DEF IInv, Writing
  <2>4. QED BY <1>1, <2>1, <2>2, <2>3, Elsewhere
<1>4. CASE Babbles
  <2>1. UNCHANGED <<helper, transcriber>> /\ output' \in {"none", "utterance", "garbage"}
    BY <1>0, <1>4 DEF Babbles
  <2>2. CASE pipe' = pipe
    <3>1. TypeOK' /\ Writing'
      BY <1>0, <1>1, <2>1, <2>2, Retyped DEF IInv, Writing
    <3>2. QED BY <1>1, <2>1, <2>2, <3>1, Elsewhere
  <2>3. CASE pipe' = Append(pipe, Garbage)
    <3>1. Garbage \in Frame /\ Garbage.samples = <<>>
      BY PlainFrames
    <3>2. pipe' \in Seq(Frame)
      BY <1>0, <2>3, <3>1, AppendProperties
    <3>3. TypeOK' /\ Writing'
      BY <1>0, <1>1, <2>1, <3>2, Retyped DEF IInv, Writing
    <3>4. Handled' /\ Grouped'
      BY <1>1 DEF IInv, Handled, Grouped
    <3>5. PICK a, b, c, d, e \in Nat : Path(a, b, c, d, e)
      BY DEF IInv, Whole
    <3>6. ~session.over => Flow(pipe', d, e)
      <4>1. Run(Garbage.samples, e, e)
        BY <3>1, RunEmpty
      <4>2. QED BY <1>0, <2>3, <3>1, <3>5, <4>1, FlowAppend DEF Path
    <3>7. Path(a, b, c, d, e)'
      BY <1>1, <2>1, <3>5, <3>6 DEF Path
    <3>8. QED BY <2>1, <3>3, <3>4, <3>7 DEF IInv, Whole
  <2>4. QED BY <1>4, <2>2, <2>3 DEF Babbles
<1>5. QED BY <1>2, <1>3, <1>4 DEF Fault

-----------------------------------------------------------------------------
(* A step of the whole *)

LEMMA StepHolds == ASSUME IInv, [Next]_vars PROVE IInv' /\ Promise
<1>1. CASE Helper
  BY <1>1, HelperHolds DEF Helper, Promise
<1>2. CASE Transcriber
  BY <1>2, TranscriberHolds
<1>3. CASE Bridge
  BY <1>3, BridgeHolds DEF Promise
<1>4. CASE Fault
  BY <1>4, FaultHolds DEF Promise
<1>5. CASE Create \/ CreateFails \/ StopRoute \/ LeaseRunsOut
  BY <1>5, ClientHolds DEF Promise
<1>6. CASE UNCHANGED vars
  <2>1. TypeOK' /\ Writing'
    BY <1>6 DEF IInv, TypeOK, Writing, vars
  <2>2. QED BY <1>6, <2>1, Elsewhere DEF vars, Promise
<1>7. QED BY <1>1, <1>2, <1>3, <1>4, <1>5, <1>6 DEF Next

\* The inductive invariant: until the session is over, no sample is missing between the
\* capture and the transcriber.
THEOREM NothingMissing == Spec => []IInv
<1>1. Init => IInv
  BY InitHolds
<1>2. IInv /\ [Next]_vars => IInv'
  BY StepHolds
<1>3. QED BY <1>1, <1>2, PTL DEF Spec

\* Type correctness, with the ring of events within its bound and the client's cursor
\* within the ring.
THEOREM TypeCorrect == Spec => []TypeOK
<1>1. IInv => TypeOK
  BY DEF IInv
<1>2. QED BY <1>1, NothingMissing, PTL

-----------------------------------------------------------------------------
(* The refinement *)

LEMMA StepImplements ==
  ASSUME IInv, IInv', Promise PROVE [Feed!Next]_<<transcriber.heard, FALSE>>
<1>1. transcriber.heard \in Seq(Nat) /\ transcriber'.heard \in Seq(Nat)
  BY DEF IInv, TypeOK
<1>2. CASE transcriber'.heard = transcriber.heard
  BY <1>2
<1>3. ASSUME NEW x \in Seq(Nat), x # <<>>, Len(x) % Group = 0,
             transcriber'.heard = transcriber.heard \o x
      PROVE  Feed!Next
  <2>1. Len(transcriber'.heard) = Len(transcriber.heard) + Len(x)
        /\ Len(transcriber.heard) \in Nat /\ Len(x) \in Nat \ {0}
    BY <1>1, <1>3, ConcatProperties, LenProperties, EmptySeq
  <2>2. Len(transcriber'.heard) - Len(transcriber.heard) = Len(x)
        /\ Len(transcriber'.heard) > Len(transcriber.heard)
    BY <2>1
  <2>3. transcriber'.heard = [i \in 1..Len(transcriber'.heard) |-> i]
    <3>1. PICK a, b, c, d, e \in Nat : Path(a, b, c, d, e)'
      BY DEF IInv, Whole
    <3>2. QED BY <3>1, RunFromOne DEF Path
  <2>4. QED BY <1>3, <2>2, <2>3 DEF Feed!Next, Feed!Hear
<1>4. QED BY <1>2, <1>3 DEF Promise

\* The session implements AudioFeed: every message the transcriber reads holds the next
\* samples of the helper, in whole groups.
THEOREM HeardInOrder == Spec => InOrder
<1>1. Init => Feed!Init
  BY DEF Init, Feed!Init
<1>2. IInv /\ IInv' /\ [Next]_vars => [Feed!Next]_<<transcriber.heard, FALSE>>
  BY StepHolds, StepImplements
<1>3. QED BY <1>1, <1>2, NothingMissing, PTL DEF Spec, InOrder, Feed!Spec

-----------------------------------------------------------------------------
(* The last state among events *)

\* A set of numbers with a bound has a greatest one.
LEMMA Greatest ==
  ASSUME NEW n \in Nat, NEW T, T \subseteq 1..n, T # {}
  PROVE  \E m \in T : \A k \in T : k <= m
<1> DEFINE R == {p \in Nat \X Nat : p[1] < p[2]}
           U == {n - k : k \in T}
<1>1. IsWellFoundedOn(R, Nat)
  BY NatLessThanWellFounded DEF OpToRel
<1>2. U \subseteq Nat /\ U # {}
  <2>1. \A k \in T : k \in Nat /\ k <= n
    OBVIOUS
  <2>2. \A k \in T : n - k \in Nat
    BY <2>1
  <2>3. QED BY <2>2
<1> HIDE DEF R
<1>3. PICK x \in U : \A y \in U : ~(<<y, x>> \in R)
  BY <1>1, <1>2, WFMin
<1>4. PICK m \in T : x = n - m
  BY <1>3
<1>5. ASSUME NEW k \in T PROVE k <= m
  <2>1. n - k \in U /\ n - k \in Nat /\ n - m \in Nat /\ n - m = x
    BY <1>2, <1>4
  <2>2. ~(n - k < n - m)
    BY <1>3, <2>1 DEF R
  <2>3. QED BY <2>2
<1>6. QED BY <1>5

LEMMA ShownIs ==
  ASSUME NEW s \in Seq(Events), NEW before
  PROVE  /\ (\A i \in 1..Len(s) : s[i] = "utterance") => Shown(s, before) = before
         /\ \A i \in 1..Len(s) : s[i] # "utterance" /\ (\A j \in i + 1..Len(s) : s[j] = "utterance")
              => Shown(s, before) = s[i]
         /\ \/ \A i \in 1..Len(s) : s[i] = "utterance"
            \/ \E i \in 1..Len(s) : s[i] # "utterance" /\ \A j \in i + 1..Len(s) : s[j] = "utterance"
<1> DEFINE told == {i \in 1..Len(s) : s[i] # "utterance"}
<1>0. Len(s) \in Nat
  BY LenProperties
<1>1. (\A i \in 1..Len(s) : s[i] = "utterance") => Shown(s, before) = before
  BY DEF Shown
<1>2. ASSUME NEW i \in 1..Len(s), s[i] # "utterance", \A j \in i + 1..Len(s) : s[j] = "utterance"
      PROVE  Shown(s, before) = s[i]
  <2> DEFINE c == CHOOSE k \in told : \A j \in told : j <= k
  <2>1. i \in told /\ \A j \in told : j <= i
    <3>1. \A j \in told : j \in 1..Len(s) /\ j \notin i + 1..Len(s)
      BY <1>2
    <3>2. QED BY <1>0, <1>2, <3>1
  <2>2. c \in told /\ \A j \in told : j <= c
    BY <2>1
  <2>3. c = i
    BY <1>0, <2>1, <2>2
  <2>4. Shown(s, before) = s[c]
    BY <2>1 DEF Shown
  <2>5. QED BY <2>3, <2>4
<1>3. ASSUME ~\A i \in 1..Len(s) : s[i] = "utterance"
      PROVE  \E i \in 1..Len(s) : s[i] # "utterance" /\ \A j \in i + 1..Len(s) : s[j] = "utterance"
  <2>1. told \subseteq 1..Len(s) /\ told # {}
    BY <1>3
  <2>2. PICK m \in told : \A k \in told : k <= m
    <3> HIDE DEF told
    <3>1. QED BY <1>0, <2>1, Greatest
  <2>3. \A j \in m + 1..Len(s) : j \in 1..Len(s) /\ ~(j <= m)
    BY <1>0
  <2>4. QED BY <2>2, <2>3
<1>4. QED BY <1>1, <1>2, <1>3

LEMMA ShownEmpty == ASSUME NEW before PROVE Shown(<<>>, before) = before
<1>1. <<>> \in Seq(Events) /\ 1..Len(<<>>) = {}
  BY EmptySeq
<1>2. QED BY <1>1, ShownIs

LEMMA ShownAppend ==
  ASSUME NEW s \in Seq(Events), NEW event \in Events, NEW before
  PROVE  Shown(Append(s, event), before) = IF event = "utterance" THEN Shown(s, before) ELSE event
<1> DEFINE t == Append(s, event)
           n == Len(s)
<1>1. /\ t \in Seq(Events) /\ Len(t) = n + 1 /\ n \in Nat
      /\ (\A i \in 1..n : t[i] = s[i]) /\ t[n + 1] = event
  BY AppendProperties, LenProperties
<1> HIDE DEF t
<1>2. CASE event # "utterance"
  <2>1. n + 1 \in 1..Len(t) /\ (n + 1) + 1..Len(t) = {}
    BY <1>1
  <2>2. Shown(t, before) = t[n + 1]
    BY <1>1, <1>2, <2>1, ShownIs
  <2>3. QED BY <1>1, <1>2, <2>2 DEF t
<1>3. CASE event = "utterance"
  <2>1. \A i \in 1..Len(t) : i \in 1..n \/ i = n + 1
    BY <1>1
  <2>2. CASE \A i \in 1..n : s[i] = "utterance"
    <3>1. \A i \in 1..Len(t) : t[i] = "utterance"
      BY <1>1, <1>3, <2>1, <2>2
    <3>2. Shown(t, before) = before
      BY <1>1, <3>1, ShownIs
    <3>3. Shown(s, before) = before
      BY <2>2, ShownIs
    <3>4. QED BY <1>3, <3>2, <3>3 DEF t
  <2>3. CASE \E i \in 1..n : s[i] # "utterance" /\ \A j \in i + 1..n : s[j] = "utterance"
    <3>1. PICK i \in 1..n : s[i] # "utterance" /\ \A j \in i + 1..n : s[j] = "utterance"
      BY <2>3
    <3>2. Shown(s, before) = s[i]
      BY <3>1, ShownIs
    <3>3. i \in 1..Len(t) /\ t[i] = s[i]
      BY <1>1
    <3>4. \A j \in i + 1..Len(t) : (j \in i + 1..n /\ j \in 1..n) \/ j = n + 1
      BY <1>1
    <3>5. \A j \in i + 1..Len(t) : t[j] = "utterance"
      BY <1>1, <1>3, <3>1, <3>4
    <3>6. Shown(t, before) = t[i]
      BY <1>1, <3>1, <3>3, <3>5, ShownIs
    <3>7. QED BY <1>3, <3>2, <3>3, <3>6 DEF t
  <2>4. QED BY <2>2, <2>3, ShownIs
<1>4. QED BY <1>2, <1>3

\* Events shown one part after the other.
LEMMA ShownSplit ==
  ASSUME NEW s \in Seq(Events), NEW n \in 0..Len(s), NEW before
  PROVE  Shown(SubSeq(s, n + 1, Len(s)), Shown(SubSeq(s, 1, n), before)) = Shown(s, before)
<1> DEFINE p == SubSeq(s, 1, n)
           q == SubSeq(s, n + 1, Len(s))
           l == Len(s)
<1>1. l \in Nat /\ n \in Nat /\ n <= l /\ \A i \in 1..l : s[i] \in Events
  BY LenProperties, ElementOfSeq
<1>2. p \in Seq(Events) /\ Len(p) = n /\ \A i \in 1..n : p[i] = s[i]
  <2>1. \A i \in 1..n : s[i] \in Events
    BY <1>1
  <2>2. /\ p \in Seq(Events) /\ Len(p) = IF 1 <= n THEN n - 1 + 1 ELSE 0
        /\ \A i \in 1..n - 1 + 1 : p[i] = s[1 + i - 1]
    BY <1>1, <2>1, SubSeqProperties
  <2> HIDE DEF p
  <2>3. QED BY <1>1, <2>2
<1>3. q \in Seq(Events) /\ Len(q) = l - n /\ \A i \in 1..l - n : q[i] = s[n + i]
  <2>1. \A i \in n + 1..l : s[i] \in Events
    BY <1>1
  <2>2. /\ q \in Seq(Events) /\ Len(q) = IF n + 1 <= l THEN l - (n + 1) + 1 ELSE 0
        /\ \A i \in 1..l - (n + 1) + 1 : q[i] = s[(n + 1) + i - 1]
    BY <1>1, <2>1, SubSeqProperties
  <2> HIDE DEF q
  <2>3. ASSUME NEW i \in 1..l - n PROVE q[i] = s[n + i]
    <3>1. i \in 1..l - (n + 1) + 1 /\ (n + 1) + i - 1 = n + i
      BY <1>1
    <3>2. QED BY <2>2, <3>1
  <2>4. QED BY <1>1, <2>2, <2>3
<1> HIDE DEF p, q
<1>4. CASE \A i \in 1..l - n : q[i] = "utterance"
  <2>1. Shown(q, Shown(p, before)) = Shown(p, before)
    BY <1>3, <1>4, ShownIs
  <2>2. \A i \in n + 1..l : s[i] = "utterance"
    <3> TAKE i \in n + 1..l
    <3>1. i - n \in 1..l - n /\ n + (i - n) = i
      BY <1>1
    <3>2. q[i - n] = s[n + (i - n)]
      BY <1>3, <3>1
    <3>3. QED BY <1>4, <3>1, <3>2
  <2>3. \A i \in 1..l : i \in 1..n \/ i \in n + 1..l
    BY <1>1
  <2>4. CASE \A i \in 1..n : p[i] = "utterance"
    <3>1. \A i \in 1..l : s[i] = "utterance"
      BY <1>2, <2>2, <2>3, <2>4
    <3>2. Shown(s, before) = before
      BY <3>1, ShownIs
    <3>3. Shown(p, before) = before
      BY <1>2, <2>4, ShownIs
    <3>4. QED BY <2>1, <3>2, <3>3 DEF p, q
  <2>5. CASE \E i \in 1..n : p[i] # "utterance" /\ \A j \in i + 1..n : p[j] = "utterance"
    <3>1. PICK i \in 1..n : p[i] # "utterance" /\ \A j \in i + 1..n : p[j] = "utterance"
      BY <2>5
    <3>2. Shown(p, before) = p[i]
      BY <1>2, <3>1, ShownIs
    <3>3. i \in 1..l /\ s[i] # "utterance" /\ s[i] = p[i]
      BY <1>1, <1>2, <3>1
    <3>4. \A j \in i + 1..l : (j \in 1..n /\ j \in i + 1..n) \/ j \in n + 1..l
      BY <1>1
    <3>5. \A j \in i + 1..l : s[j] = "utterance"
      BY <1>2, <2>2, <3>1, <3>4
    <3>6. Shown(s, before) = s[i]
      BY <3>3, <3>5, ShownIs
    <3>7. QED BY <2>1, <3>2, <3>3, <3>6 DEF p, q
  <2>6. QED BY <1>2, <2>4, <2>5, ShownIs
<1>5. CASE \E i \in 1..l - n : q[i] # "utterance" /\ \A j \in i + 1..l - n : q[j] = "utterance"
  <2>1. PICK i \in 1..l - n : q[i] # "utterance" /\ \A j \in i + 1..l - n : q[j] = "utterance"
    BY <1>5
  <2>2. Shown(q, Shown(p, before)) = q[i]
    BY <1>3, <2>1, ShownIs
  <2>3. n + i \in 1..l /\ s[n + i] = q[i]
    BY <1>1, <1>3
  <2>4. \A j \in (n + i) + 1..l : s[j] = "utterance"
    <3> TAKE j \in (n + i) + 1..l
    <3>1. j - n \in i + 1..l - n /\ j - n \in 1..l - n /\ n + (j - n) = j
      BY <1>1
    <3>2. q[j - n] = s[n + (j - n)]
      BY <1>3, <3>1
    <3>3. QED BY <2>1, <3>1, <3>2
  <2>5. Shown(s, before) = s[n + i]
    BY <2>1, <2>3, <2>4, ShownIs
  <2>6. QED BY <2>2, <2>3, <2>5 DEF p, q
<1>6. QED
  <2>1. \/ \A i \in 1..Len(q) : q[i] = "utterance"
        \/ \E i \in 1..Len(q) : q[i] # "utterance" /\ \A j \in i + 1..Len(q) : q[j] = "utterance"
    BY <1>3, ShownIs
  <2>2. QED BY <1>3, <1>4, <1>5, <2>1

LEMMA ShownTail ==
  ASSUME NEW s \in Seq(Events), s # <<>>, NEW before
  PROVE  Shown(s, before) = Shown(Tail(s), IF Head(s) = "utterance" THEN before ELSE Head(s))
<1>1. Len(s) \in Nat \ {0} /\ 1 \in 0..Len(s) /\ Head(s) = s[1] /\ Head(s) \in Events
  BY EmptySeq, LenProperties, HeadTailProperties
<1>2. SubSeq(s, 1 + 1, Len(s)) = Tail(s)
  <2>1. Tail(s) = SubSeq(s, 2, Len(s))
    BY TailIsSubSeq
  <2>2. QED BY <2>1
<1> DEFINE p == SubSeq(s, 1, 1)
<1>3. p \in Seq(Events) /\ Len(p) = 1 /\ p[1] = Head(s)
  <2>1. \A i \in 1..1 : s[i] \in Events
    BY <1>1
  <2>2. /\ p \in Seq(Events) /\ Len(p) = IF 1 <= 1 THEN 1 - 1 + 1 ELSE 0
        /\ \A i \in 1..1 - 1 + 1 : p[i] = s[1 + i - 1]
    BY <2>1, SubSeqProperties
  <2> HIDE DEF p
  <2>3. QED BY <1>1, <2>2
<1>4. Shown(s, before) = Shown(Tail(s), Shown(p, before))
  <2>1. Shown(SubSeq(s, 1 + 1, Len(s)), Shown(SubSeq(s, 1, 1), before)) = Shown(s, before)
    BY <1>1, ShownSplit
  <2>2. QED BY <1>2, <2>1
<1>5. Shown(p, before) = IF Head(s) = "utterance" THEN before ELSE Head(s)
  <2> HIDE DEF p
  <2>1. 1 \in 1..Len(p) /\ 1 + 1..Len(p) = {} /\ \A i \in 1..Len(p) : i = 1
    BY <1>3
  <2>2. QED BY <1>3, <2>1, ShownIs
<1>6. QED BY <1>4, <1>5

\* What is shown in the end is what was shown before or a state among the events.
LEMMA ShownType ==
  ASSUME NEW s \in Seq(Events), NEW before \in CaptureStates PROVE Shown(s, before) \in CaptureStates
<1>1. \A i \in 1..Len(s) : s[i] # "utterance" => s[i] \in CaptureStates
  BY ElementOfSeq DEF Events
<1>2. CASE \A i \in 1..Len(s) : s[i] = "utterance"
  BY <1>2, ShownIs
<1>3. CASE \E i \in 1..Len(s) : s[i] # "utterance" /\ \A j \in i + 1..Len(s) : s[j] = "utterance"
  <2>1. PICK i \in 1..Len(s) : s[i] # "utterance" /\ \A j \in i + 1..Len(s) : s[j] = "utterance"
    BY <1>3
  <2>2. Shown(s, before) = s[i]
    BY <2>1, ShownIs
  <2>3. QED BY <1>1, <2>1, <2>2
<1>4. QED BY <1>2, <1>3, ShownIs

-----------------------------------------------------------------------------
(* The last state among frames *)

\* The event that a frame becomes; one that is no state changes nothing that is shown.
Says(frame) == IF frame.type = "state" THEN frame.state ELSE "utterance"

States(q) == [i \in 1..Len(q) |-> Says(q[i])]

Last(q, before) == Shown(States(q), before)

LEMMA SaysType == ASSUME NEW frame \in Frame PROVE Says(frame) \in Events
  BY DEF Says, Frame, Events

LEMMA SaysState == ASSUME NEW frame \in Frame PROVE frame.type = "state" <=> Says(frame) # "utterance"
  BY DEF Says, Frame, CaptureStates

LEMMA StatesType ==
  ASSUME NEW q \in Seq(Frame)
  PROVE  States(q) \in Seq(Events) /\ Len(States(q)) = Len(q) /\ Len(q) \in Nat
<1>1. Len(q) \in Nat /\ \A i \in 1..Len(q) : q[i] \in Frame
  BY LenProperties, ElementOfSeq
<1>2. \A i \in 1..Len(q) : Says(q[i]) \in Events
  BY <1>1, SaysType
<1>3. States(q) \in [1..Len(q) -> Events]
  BY <1>2 DEF States
<1>4. States(q) \in Seq(Events)
  BY <1>1, <1>3, SeqDef
<1>5. DOMAIN States(q) = 1..Len(q) /\ DOMAIN States(q) = 1..Len(States(q)) /\ Len(States(q)) \in Nat
  BY <1>3, <1>4, LenProperties
<1>6. QED BY <1>1, <1>4, <1>5

LEMMA StatesAppend ==
  ASSUME NEW q \in Seq(Frame), NEW frame \in Frame
  PROVE  States(Append(q, frame)) = Append(States(q), Says(frame))
<1> DEFINE l == Len(q)
           p == Append(q, frame)
           s == States(p)
           t == Append(States(q), Says(frame))
<1>1. l \in Nat /\ States(q) \in Seq(Events) /\ Len(States(q)) = l /\ Says(frame) \in Events
  BY StatesType, SaysType
<1>2. p \in Seq(Frame) /\ Len(p) = l + 1 /\ (\A i \in 1..l : p[i] = q[i]) /\ p[l + 1] = frame
  BY AppendProperties
<1>3. s \in Seq(Events) /\ Len(s) = l + 1
  BY <1>2, StatesType
<1>4. /\ t \in Seq(Events) /\ Len(t) = l + 1
      /\ (\A i \in 1..l : t[i] = States(q)[i]) /\ t[l + 1] = Says(frame)
  BY <1>1, AppendProperties
<1>5. \A i \in 1..l + 1 : s[i] = Says(p[i])
  BY <1>2 DEF States
<1>6. \A i \in 1..l : States(q)[i] = Says(q[i])
  BY DEF States
<1> HIDE DEF s, t, p, l
<1>7. ASSUME NEW i \in 1..l + 1 PROVE s[i] = t[i]
  <2>1. CASE i \in 1..l
    BY <1>2, <1>4, <1>5, <1>6, <2>1
  <2>2. CASE i = l + 1
    BY <1>2, <1>4, <1>5, <2>2
  <2>3. QED BY <1>1, <2>1, <2>2
<1>8. s = t
  BY <1>3, <1>4, <1>7, SeqEqual
<1>9. QED BY <1>8 DEF s, t, p

LEMMA StatesTail ==
  ASSUME NEW q \in Seq(Frame), q # <<>>
  PROVE  /\ States(q) # <<>> /\ Head(States(q)) = Says(Head(q))
         /\ States(Tail(q)) = Tail(States(q))
<1> DEFINE l == Len(q)
           u == States(q)
           s == States(Tail(q))
           t == Tail(u)
<1>1. l \in Nat \ {0} /\ u \in Seq(Events) /\ Len(u) = l
  BY StatesType, EmptySeq
<1>2. u # <<>>
  BY <1>1, EmptySeq
<1>3. \A i \in 1..l : u[i] = Says(q[i])
  BY DEF States
<1>4. /\ Tail(q) \in Seq(Frame) /\ Len(Tail(q)) = l - 1
      /\ \A i \in 1..Len(Tail(q)) : Tail(q)[i] = q[i + 1]
  BY HeadTailProperties
<1>5. /\ t \in Seq(Events) /\ Len(t) = l - 1
      /\ \A i \in 1..Len(t) : t[i] = u[i + 1]
  BY <1>1, <1>2, HeadTailProperties
<1>6. s \in Seq(Events) /\ Len(s) = l - 1
  BY <1>4, StatesType
<1>7. \A i \in 1..l - 1 : s[i] = Says(Tail(q)[i])
  BY <1>4 DEF States
<1>8. Head(u) = u[1] /\ Head(q) = q[1] /\ 1 \in 1..l
  BY <1>1
<1> HIDE DEF s, t, u, l
<1>9. ASSUME NEW i \in 1..l - 1 PROVE s[i] = t[i]
  <2>1. i + 1 \in 1..l
    BY <1>1
  <2>2. QED BY <1>3, <1>4, <1>5, <1>7, <2>1
<1>10. s = t
  BY <1>5, <1>6, <1>9, SeqEqual
<1>11. QED BY <1>2, <1>3, <1>8, <1>10 DEF s, t, u

LEMMA LastOfNone == ASSUME NEW before PROVE Last(<<>>, before) = before
<1>1. <<>> \in Seq(Frame) /\ Len(<<>>) = 0
  BY EmptySeq
<1>2. States(<<>>) \in Seq(Events) /\ Len(States(<<>>)) = 0
  BY <1>1, StatesType
<1>3. States(<<>>) = <<>>
  BY <1>2, EmptySeq
<1>4. QED BY <1>3, ShownEmpty DEF Last

LEMMA LastAppend ==
  ASSUME NEW q \in Seq(Frame), NEW frame \in Frame, NEW before
  PROVE  Last(Append(q, frame), before) = IF frame.type = "state" THEN frame.state ELSE Last(q, before)
<1>1. States(q) \in Seq(Events) /\ Says(frame) \in Events
  BY StatesType, SaysType
<1>2. Last(Append(q, frame), before) = IF Says(frame) = "utterance" THEN Last(q, before) ELSE Says(frame)
  <2>1. Shown(Append(States(q), Says(frame)), before)
          = IF Says(frame) = "utterance" THEN Shown(States(q), before) ELSE Says(frame)
    BY <1>1, ShownAppend
  <2>2. Last(Append(q, frame), before) = Shown(Append(States(q), Says(frame)), before)
    BY StatesAppend DEF Last
  <2>3. QED BY <2>1, <2>2 DEF Last
<1>3. frame.type = "state" => Says(frame) = frame.state
  BY DEF Says
<1>4. QED BY <1>2, <1>3, SaysState

LEMMA LastTail ==
  ASSUME NEW q \in Seq(Frame), q # <<>>, NEW before
  PROVE  Last(q, before) = Last(Tail(q), IF Head(q).type = "state" THEN Head(q).state ELSE before)
<1>1. States(q) \in Seq(Events) /\ Head(q) \in Frame
  BY StatesType, HeadTailProperties
<1>2. Last(q, before) = Last(Tail(q), IF Says(Head(q)) = "utterance" THEN before ELSE Says(Head(q)))
  BY <1>1, StatesTail, ShownTail DEF Last
<1>3. Head(q).type = "state" => Says(Head(q)) = Head(q).state
  BY DEF Says
<1>4. (IF Says(Head(q)) = "utterance" THEN before ELSE Says(Head(q)))
        = (IF Head(q).type = "state" THEN Head(q).state ELSE before)
  BY <1>1, <1>3, SaysState
<1>5. QED BY <1>2, <1>4

LEMMA LastOne ==
  ASSUME NEW state \in CaptureStates, NEW before
  PROVE  Last(<<State(state)>>, before) = state
<1>1. /\ State(state) \in Frame /\ State(state).type = "state" /\ State(state).state = state
      /\ <<>> \in Seq(Frame) /\ Append(<<>>, State(state)) = <<State(state)>>
  BY StateFrame, EmptySeq DEF State
<1>2. QED BY <1>1, LastAppend

\* The state that is told around a packet is the one before it unless that has changed.
LEMMA LastOfPacket ==
  ASSUME NEW samples \in Seq(Nat), NEW state \in CaptureStates,
         NEW before, before \in {<<>>, <<State(state)>>}, NEW after, after \in {<<>>, <<State(state)>>},
         NEW shown, after # <<>> \/ shown = state
  PROVE  Last(before \o <<Pcm(samples)>> \o after, shown) = state
<1> DEFINE pcm == Pcm(samples)
           says == State(state)
<1>1. pcm \in Frame /\ pcm.type = "pcm" /\ says \in Frame /\ says.type = "state" /\ says.state = state
  BY PcmFrame, StateFrame DEF Pcm, State
<1>2. Last(<<says>>, shown) = state /\ Last(<<>>, shown) = shown /\ <<>> \in Seq(Frame)
  BY LastOne, LastOfNone, EmptySeq
<1>0. (before = <<>> \/ before = <<says>>) /\ (after = <<>> \/ after = <<says>>)
  OBVIOUS
<1> HIDE DEF pcm, says
<1>3. before \in Seq(Frame) /\ (shown = state => Last(before, shown) = state)
  BY <1>0, <1>1, <1>2, OneFrame
<1> DEFINE q == before \o <<pcm>>
<1>4. q = Append(before, pcm)
  BY <1>1, <1>3, AppendIsConcat
<1>5. q \in Seq(Frame) /\ Last(q, shown) = Last(before, shown)
  <2>1. Append(before, pcm) \in Seq(Frame)
    BY <1>1, <1>3, AppendProperties
  <2>2. Last(Append(before, pcm), shown) = Last(before, shown)
    BY <1>1, <1>3, LastAppend
  <2>3. QED BY <1>4, <2>1, <2>2
<1> HIDE DEF q
<1>6. Last(q \o after, shown) = state
  <2>1. CASE after = <<>>
    BY <1>3, <1>5, <2>1, ConcatEmptySeq
  <2>2. CASE after = <<says>>
    <3>1. q \o after = Append(q, says)
      BY <1>1, <1>5, <2>2, AppendIsConcat
    <3>2. QED BY <1>1, <1>5, <3>1, LastAppend
  <2>3. QED BY <1>0, <2>1, <2>2
<1>7. QED BY <1>6 DEF q, pcm

-----------------------------------------------------------------------------
(* What a step does to the events, and to the states on their way *)

\* The ring grows at its end or loses an event, and the end is final.
Grows(s, t) ==
  /\ s.over => t.over
  /\ s.lost => t.lost
  /\ s.told = 0 => t.told = 0
  /\ ~t.over /\ ~t.lost =>
       t.told = s.told /\ (t.ring = s.ring \/ \E event \in Events : t.ring = Append(s.ring, event))

\* A helper that records, and a ring that has every event of it.
Watched == helper.phase = "streaming" /\ ~session.over /\ ~session.lost

\* A client that shows the one state would show the state of the helper after the events in
\* the ring, in the chunk, in the pipe and still to be written.
Settled(before) ==
  Last(helper.todo, Last(pipe, Last(bridge.frames, Shown(session.ring, before)))) = helper.state

Carried(before) == Watched' /\ (Watched => Settled(before)) => Settled(before)'

LEMMA SameGrows ==
  ASSUME NEW s, NEW t, t.ring = s.ring, t.told = s.told, t.over = s.over, t.lost = s.lost
  PROVE  Grows(s, t)
  BY DEF Grows

LEMMA PushGrows ==
  ASSUME NEW s, SessionShape(s), NEW event, event \in Events \/ s.over
  PROVE  /\ Grows(s, Push(s, event)) /\ Push(s, event).over = s.over
         /\ ~Push(s, event).over /\ ~Push(s, event).lost =>
              Push(s, event).ring = Append(s.ring, event) /\ Push(s, event).told = s.told /\ ~s.lost
<1>0. s \in SessionType
  BY DEF SessionShape
<1>1. CASE s.over
  BY <1>1 DEF Push, Grows
<1>2. CASE ~s.over /\ Len(s.ring) < MaxEvents
  <2> DEFINE r == Append(s.ring, event)
  <2>1. Push(s, event) = [s EXCEPT !.ring = r]
    BY <1>2 DEF Push
  <2>2. event \in Events /\ r = Append(s.ring, event)
    BY <1>2
  <2> HIDE DEF r
  <2>3. Push(s, event).ring = r /\ Push(s, event).told = s.told /\ Push(s, event).over = s.over
        /\ Push(s, event).lost = s.lost
    BY <1>0, <2>1 DEF SessionType
  <2>4. QED BY <1>0, <2>2, <2>3 DEF Grows, SessionType
<1>3. CASE ~s.over /\ ~(Len(s.ring) < MaxEvents)
  <2> DEFINE r == Append(Tail(s.ring), event)
             n == IF s.told = 0 THEN 0 ELSE s.told - 1
  <2>1. Push(s, event) = [s EXCEPT !.ring = r, !.told = n, !.lost = TRUE]
    BY <1>3 DEF Push
  <2>2. s.told = 0 => n = 0
    OBVIOUS
  <2> HIDE DEF r, n
  <2>3. Push(s, event).told = n /\ Push(s, event).over = s.over /\ Push(s, event).lost
    BY <1>0, <2>1 DEF SessionType
  <2>4. QED BY <1>0, <2>2, <2>3 DEF Grows, SessionType
<1>4. QED BY <1>1, <1>2, <1>3

\* Steps that touch neither the events nor the states on their way.
LEMMA AsideCarries ==
  ASSUME helper'.todo = helper.todo, helper'.state = helper.state, pipe' = pipe,
         bridge'.frames = bridge.frames, session'.ring = session.ring,
         Watched' => Watched, NEW before
  PROVE  Carried(before)
  BY DEF Carried, Settled

LEMMA NotWatched ==
  ASSUME helper'.phase # "streaming" \/ session'.over \/ session'.lost, NEW before PROVE Carried(before)
  BY DEF Carried, Watched

\* The helper, which has written everything, tells its state.
LEMMA TellsState ==
  ASSUME UNCHANGED <<session, pipe, bridge>>, NEW before,
         \A shown : Last(helper'.todo, shown) = helper'.state
  PROVE  Carried(before)
  BY DEF Carried, Settled

LEMMA HelperCarries == ASSUME IInv, Helper, NEW before PROVE Carried(before) /\ Grows(session, session')
<1>0. helper \in HelperType /\ pipe \in Seq(Frame) /\ helper.next \in Nat /\ helper.todo \in Seq(Frame)
  BY Types DEF IInv, HelperType
<1>1. UNCHANGED <<session, bridge>>
  BY DEF Helper
<1>2. Grows(session, session')
  BY <1>1, SameGrows
<1>3. CASE HelperOpens
  <2>1. CASE helper' = [helper EXCEPT !.ends = TRUE, !.todo = <<State("stopped")>>]
    <3>1. helper'.phase # "streaming"
      BY <1>0, <1>3, <2>1 DEF HelperOpens, HelperType
    <3>2. QED BY <1>2, <3>1, NotWatched
  <2>2. CASE helper' = [helper EXCEPT !.phase = "streaming", !.state = "active",
                                      !.todo = <<Format, State("active")>>]
    <3> DEFINE says == State("active")
    <3>1. says \in Frame /\ says.type = "state" /\ says.state = "active" /\ Format \in Frame
      BY StateFrame, PlainFrames DEF CaptureStates, State
    <3> HIDE DEF says
    <3>2. Append(<<Format>>, says) = <<Format, says>> /\ <<Format>> \in Seq(Frame)
      BY <3>1, TwoFrames, OneFrame
    <3>3. ASSUME NEW shown PROVE Last(<<Format, says>>, shown) = "active"
      <4>1. Last(Append(<<Format>>, says), shown) = "active"
        BY <3>1, <3>2, LastAppend
      <4>2. QED BY <3>2, <4>1
    <3>4. helper'.todo = <<Format, says>> /\ helper'.state = "active"
      BY <1>0, <2>2 DEF HelperType, says
    <3>5. pipe' = pipe
      BY <1>3 DEF HelperOpens
    <3>6. QED BY <1>1, <1>2, <3>3, <3>4, <3>5, TellsState
  <2>3. QED BY <1>3, <2>1, <2>2 DEF HelperOpens
<1>4. CASE HelperRecords
  <2>0. helper.phase = "streaming" /\ helper.todo = <<>> /\ UNCHANGED pipe
    BY <1>4 DEF HelperRecords, Captures
  <2>1. PICK n \in 1..MaxPacket, signal \in BOOLEAN, broken \in BOOLEAN, state \in CaptureStates :
         helper' = [helper EXCEPT !.next = @ + n, !.state = state, !.todo =
                 (IF broken THEN <<State(state)>> ELSE <<>>) \o <<Pcm([i \in 1..n |-> helper.next + i - 1])>>
                   \o (IF state # helper.state THEN <<State(state)>> ELSE <<>>)]
    BY <1>0, <1>4, ObservedType DEF HelperRecords
  <2> DEFINE samples == [i \in 1..n |-> helper.next + i - 1]
             first == IF broken THEN <<State(state)>> ELSE <<>>
             after == IF state # helper.state THEN <<State(state)>> ELSE <<>>
             todo == first \o <<Pcm(samples)>> \o after
  <2>2. helper' = [helper EXCEPT !.next = helper.next + n, !.state = state, !.todo = todo]
    BY <2>1
  <2>3. samples \in Seq(Nat)
    BY <1>0, Constants, PacketSamples
  <2> HIDE DEF samples
  <2>4. first \in {<<>>, <<State(state)>>} /\ after \in {<<>>, <<State(state)>>}
        /\ (after # <<>> \/ helper.state = state)
    BY StateFrame, OneFrame, EmptySeq
  <2> HIDE DEF first, after
  <2>5. Last(todo, helper.state) = state
    BY <2>3, <2>4, LastOfPacket
  <2> HIDE DEF todo
  <2>6. helper'.todo = todo /\ helper'.state = state
    BY <1>0, <2>2 DEF HelperType
  <2>7. Watched' => Watched
    BY <1>1, <2>0 DEF Watched
  <2>8. Watched /\ Settled(before) =>
          Last(pipe, Last(bridge.frames, Shown(session.ring, before))) = helper.state
    BY <2>0, LastOfNone DEF Settled
  <2>9. Carried(before)
    BY <1>1, <2>0, <2>5, <2>6, <2>7, <2>8 DEF Carried, Settled
  <2>10. QED BY <1>2, <2>9
<1>5. CASE HelperWaits \/ HelperDegrades
  <2>1. UNCHANGED pipe
    BY <1>5 DEF HelperWaits, HelperDegrades
  <2>2. PICK state \in CaptureStates :
          \/ helper' = [helper EXCEPT !.state = state, !.todo = <<State(state)>>]
          \/ helper' = [helper EXCEPT !.state = state, !.ends = TRUE, !.todo = <<State(state)>>]
    <3>1. CASE HelperWaits
      BY <1>0, <3>1, ObservedType DEF HelperWaits
    <3>2. CASE HelperDegrades
      BY <3>2 DEF HelperDegrades, CaptureStates
    <3>3. QED BY <1>5, <3>1, <3>2
  <2>3. helper'.todo = <<State(state)>> /\ helper'.state = state
    BY <1>0, <2>2 DEF HelperType
  <2>4. QED BY <1>1, <1>2, <2>1, <2>3, LastOne, TellsState
<1>6. CASE HelperWrites
  <2> DEFINE frame == Head(helper.todo)
  <2>1. helper.todo # <<>> /\ pipe' = Append(pipe, frame) /\ helper' = [helper EXCEPT !.todo = Tail(helper.todo)]
    BY <1>6 DEF HelperWrites
  <2>2. frame \in Frame
    BY <1>0, <2>1, HeadTailProperties
  <2>3. helper'.todo = Tail(helper.todo) /\ helper'.state = helper.state /\ helper'.phase = helper.phase
    BY <1>0, <2>1 DEF HelperType
  <2> DEFINE shown == Last(bridge.frames, Shown(session.ring, before))
  <2>4. Last(Append(pipe, frame), shown) = IF frame.type = "state" THEN frame.state ELSE Last(pipe, shown)
    BY <1>0, <2>2, LastAppend
  <2>5. Last(helper.todo, Last(pipe, shown))
          = Last(Tail(helper.todo), IF frame.type = "state" THEN frame.state ELSE Last(pipe, shown))
    BY <1>0, <2>1, LastTail
  <2>6. Last(helper'.todo, Last(pipe', shown)) = Last(helper.todo, Last(pipe, shown))
    BY <2>1, <2>3, <2>4, <2>5
  <2>7. Watched' => Watched
    BY <1>1, <2>3 DEF Watched
  <2>8. Carried(before)
    BY <1>1, <2>3, <2>6, <2>7 DEF Carried, Settled
  <2>9. QED BY <1>2, <2>8
<1>7. CASE HelperExits
  <2>1. helper' = Left([helper EXCEPT !.phase = "gone"])
    BY <1>7 DEF HelperExits
  <2>2. helper'.phase = "gone"
    BY <1>0, <2>1 DEF Left, HelperType
  <2>3. QED BY <1>2, <2>2, NotWatched
<1>8. QED BY <1>3, <1>4, <1>5, <1>6, <1>7 DEF Helper


\* fail and onFailure end the session.
LEMMA FailCarries ==
  ASSUME SessionShape(session), NEW h, NEW t, Fail(h, t), NEW before
  PROVE  Carried(before) /\ Grows(session, session')
<1> DEFINE s == Push(session, "degraded")
<1>1. SessionShape(s)
  BY PushShape DEF Events, CaptureStates
<1>2. Grows(session, s)
  BY PushGrows DEF Events, CaptureStates
<1>3. session' = [s EXCEPT !.over = TRUE, !.leased = FALSE]
  BY DEF Fail
<1> HIDE DEF s
<1>4. session'.over /\ session'.lost = s.lost /\ session'.told = s.told
  BY <1>1, <1>3 DEF SessionShape, SessionType
<1>5. Grows(session, session')
  BY <1>2, <1>4 DEF Grows
<1>6. QED BY <1>4, <1>5, NotWatched

\* An event that says the state of a frame that was on its way, or no state.
LEMMA PushCarries ==
  ASSUME SessionShape(session), NEW event, event \in Events \/ session.over, session' = Push(session, event),
         UNCHANGED <<helper, pipe>>, NEW before,
         event \in Events => \A shown : Last(bridge'.frames, IF event = "utterance" THEN shown ELSE event)
                                          = Last(bridge.frames, shown)
  PROVE  Carried(before) /\ Grows(session, session')
<1>1. Grows(session, session') /\ session'.over = session.over
  BY PushGrows
<1>2. ASSUME Watched', Watched => Settled(before) PROVE Settled(before)'
  <2>1. ~session'.over /\ ~session'.lost
    BY <1>2 DEF Watched
  <2>2. session'.ring = Append(session.ring, event) /\ ~session.lost /\ ~session.over
    BY <2>1, PushGrows
  <2>3. event \in Events /\ session.ring \in Seq(Events)
    BY <2>2 DEF SessionShape, SessionType
  <2>4. Shown(Append(session.ring, event), before)
          = IF event = "utterance" THEN Shown(session.ring, before) ELSE event
    BY <2>3, ShownAppend
  <2>5. Last(bridge'.frames, Shown(session'.ring, before)) = Last(bridge.frames, Shown(session.ring, before))
    BY <2>2, <2>3, <2>4
  <2>6. Watched
    BY <1>2, <2>2 DEF Watched
  <2>7. QED BY <1>2, <2>5, <2>6 DEF Settled
<1>3. QED BY <1>1, <1>2 DEF Carried

LEMMA BridgeCarries == ASSUME IInv, Bridge, NEW before PROVE Carried(before) /\ Grows(session, session')
<1>0. /\ SessionShape(session) /\ session \in SessionType /\ helper \in HelperType /\ pipe \in Seq(Frame)
      /\ bridge \in BridgeType /\ bridge.frames \in Seq(Frame)
      /\ output \in {"none", "utterance", "garbage"}
  BY Types DEF IInv, SessionShape, BridgeType
<1>1. CASE Removal \/ KillTimer
  <2>1. /\ session' = [session EXCEPT !.present = FALSE] \/ session' = [session EXCEPT !.timer = FALSE]
        /\ UNCHANGED <<helper, pipe, bridge>>
    BY <1>1 DEF Removal, KillTimer
  <2>2. session'.ring = session.ring /\ session'.told = session.told
        /\ session'.over = session.over /\ session'.lost = session.lost
    BY <1>0, <2>1 DEF SessionType
  <2>3. Watched' => Watched
    BY <2>1, <2>2 DEF Watched
  <2>4. QED BY <2>1, <2>2, <2>3, SameGrows, AsideCarries
<1>2. CASE Drains
  <2>1. bridge' = [bridge EXCEPT !.paused = FALSE] /\ UNCHANGED <<session, helper, pipe>>
    BY <1>2 DEF Drains
  <2>2. bridge'.frames = bridge.frames
    BY <1>0, <2>1 DEF BridgeType
  <2>3. Watched' => Watched
    BY <2>1 DEF Watched
  <2>4. QED BY <2>1, <2>2, <2>3, SameGrows, AsideCarries
<1>3. CASE AudioData
  <2>0. bridge.frames = <<>> /\ pipe' = <<>>
    BY <1>3 DEF AudioData, Quiet
  <2>1. CASE session.over
    <3>1. session' = session
      BY <1>3, <2>1 DEF AudioData
    <3>2. QED BY <2>1, <3>1, SameGrows, NotWatched
  <2>2. CASE Fail(helper, transcriber)
    BY <1>0, <2>2, FailCarries
  <2>3. CASE bridge' = [bridge EXCEPT !.frames = pipe] /\ UNCHANGED <<session, helper, transcriber>>
    <3>1. bridge'.frames = pipe
      BY <1>0, <2>3 DEF BridgeType
    <3>2. \A shown : Last(pipe', Last(bridge'.frames, shown)) = Last(pipe, Last(bridge.frames, shown))
      BY <2>0, <3>1, LastOfNone
    <3>3. Watched' => Watched
      BY <2>3 DEF Watched
    <3>4. Carried(before)
      BY <2>3, <3>2, <3>3 DEF Carried, Settled
    <3>5. QED BY <2>3, <3>4, SameGrows
  <2>4. QED BY <1>3, <2>1, <2>2, <2>3 DEF AudioData
<1>4. CASE FrameHandled
  <2> DEFINE frame == Head(bridge.frames)
             rest == [bridge EXCEPT !.frames = Tail(bridge.frames)]
  <2>0. bridge.frames # <<>> /\ UNCHANGED pipe
    BY <1>4 DEF FrameHandled, Quiet
  <2>1. frame \in Frame /\ Tail(bridge.frames) \in Seq(Frame)
    BY <1>0, <2>0, HeadTailProperties
  <2>2. rest \in BridgeType /\ rest.frames = Tail(bridge.frames)
    BY <1>0, <2>1 DEF BridgeType
  <2>3. \A shown : Last(Tail(bridge.frames), IF frame.type = "state" THEN frame.state ELSE shown)
                     = Last(bridge.frames, shown)
    BY <1>0, <2>0, LastTail
  <2>4. \/ /\ frame.type = "format" /\ bridge' = [rest EXCEPT !.format = TRUE]
           /\ UNCHANGED <<session, helper>>
        \/ /\ frame.type = "state" /\ bridge' = rest /\ session' = Push(session, frame.state)
           /\ UNCHANGED helper
        \/ Fail(helper, transcriber)
        \/ /\ frame.type = "pcm" /\ WriteRemotePcm(rest, frame.samples) /\ UNCHANGED <<session, helper>>
    BY <1>4 DEF FrameHandled
  <2> HIDE DEF frame, rest
  <2>5. CASE frame.type # "state" /\ bridge'.frames = Tail(bridge.frames) /\ UNCHANGED <<session, helper>>
    <3>1. \A shown : Last(bridge'.frames, shown) = Last(bridge.frames, shown)
      BY <2>3, <2>5
    <3>2. Watched' => Watched
      BY <2>5 DEF Watched
    <3>3. Carried(before)
      BY <2>0, <2>5, <3>1, <3>2 DEF Carried, Settled
    <3>4. QED BY <2>5, <3>3, SameGrows
  <2>6. CASE frame.type = "state" /\ bridge' = rest /\ session' = Push(session, frame.state) /\ UNCHANGED helper
    <3>1. frame.state \in Events /\ frame.state # "utterance"
      BY <2>1, <2>6 DEF Frame, Events, CaptureStates
    <3>2. \A shown : Last(bridge'.frames, IF frame.state = "utterance" THEN shown ELSE frame.state)
                       = Last(bridge.frames, shown)
      BY <2>2, <2>3, <2>6, <3>1
    <3>3. QED BY <1>0, <2>0, <2>6, <3>1, <3>2, PushCarries
  <2>7. CASE Fail(helper, transcriber)
    BY <1>0, <2>7, FailCarries
  <2>8. frame.type = "format" /\ bridge' = [rest EXCEPT !.format = TRUE] =>
          bridge'.frames = Tail(bridge.frames)
    BY <2>2 DEF BridgeType
  <2>9. WriteRemotePcm(rest, frame.samples) => bridge'.frames = Tail(bridge.frames)
    <3> SUFFICES ASSUME WriteRemotePcm(rest, frame.samples) PROVE bridge'.frames = Tail(bridge.frames)
      OBVIOUS
    <3>1. \E carry, paused : bridge' = [rest EXCEPT !.carry = carry, !.paused = paused]
      BY DEF WriteRemotePcm
    <3>2. QED BY <2>2, <3>1 DEF BridgeType
  <2>10. QED BY <2>4, <2>5, <2>6, <2>7, <2>8, <2>9
<1>5. CASE TranscriptData
  <2>1. CASE Fail(helper, transcriber)
    BY <1>0, <2>1, FailCarries
  <2>2. CASE ~(output = "garbage" /\ ~session.over)
    <3>1. session' = Push(session, output) /\ UNCHANGED <<helper, pipe, bridge>> /\ output # "none"
      BY <1>5, <2>2 DEF TranscriptData
    <3>2. (output \in Events \/ session.over) /\ (output \in Events => output = "utterance")
      BY <1>0, <2>2, <3>1 DEF Events, CaptureStates
    <3>3. QED BY <1>0, <3>1, <3>2, PushCarries
  <2>3. QED BY <1>5, <2>1, <2>2 DEF TranscriptData
<1>6. CASE WorkerLost
  <2> DEFINE h == [helper EXCEPT !.phase = "reaped"]
             t == [transcriber EXCEPT !.phase = "reaped"]
  <2>1. h.phase = "reaped"
    BY <1>0 DEF HelperType
  <2>2. \/ helper' = h /\ UNCHANGED session
        \/ UNCHANGED <<session, bridge, helper, pipe>>
        \/ Fail(h, transcriber) \/ Fail(helper, t)
    BY <1>6 DEF WorkerLost
  <2> HIDE DEF h, t
  <2>3. CASE helper' = h /\ UNCHANGED session
    BY <2>1, <2>3, NotWatched, SameGrows
  <2>4. CASE UNCHANGED <<session, bridge, helper, pipe>>
    <3>1. Watched' => Watched
      BY <2>4 DEF Watched
    <3>2. QED BY <2>4, <3>1, AsideCarries, SameGrows
  <2>5. QED BY <1>0, <2>2, <2>3, <2>4, FailCarries
<1>7. QED BY <1>1, <1>2, <1>3, <1>4, <1>5, <1>6 DEF Bridge

LEMMA EndCarries ==
  ASSUME SessionShape(session), NEW s, SessionShape(s), s.over = session.over, s.lost = session.lost, End(s),
         NEW before
  PROVE  Carried(before) /\ Grows(session, session')
<1>1. session' = [s EXCEPT !.over = TRUE, !.leased = FALSE, !.ring = <<>>, !.told = 0, !.timer = @ \/ ~s.over]
  BY DEF End
<1>2. session'.over /\ session'.lost = s.lost /\ session'.told = 0
  BY <1>1 DEF SessionShape, SessionType
<1>3. QED BY <1>2, NotWatched DEF Grows

LEMMA RoutesCarry ==
  ASSUME IInv, Create \/ CreateFails \/ StopRoute \/ LeaseRunsOut, NEW before
  PROVE  Carried(before) /\ Grows(session, session')
<1>0. SessionShape(session) /\ session \in SessionType /\ helper \in HelperType
  BY Types DEF IInv, SessionShape
<1>1. CASE Create
  <2>1. helper' = [helper EXCEPT !.phase = "opening"]
        /\ session' = [session EXCEPT !.present = TRUE, !.leased = TRUE]
    BY <1>1 DEF Create
  <2>2. helper'.phase = "opening"
    BY <1>0, <2>1 DEF HelperType
  <2>3. session'.ring = session.ring /\ session'.told = session.told
        /\ session'.over = session.over /\ session'.lost = session.lost
    BY <1>0, <2>1 DEF SessionType
  <2>4. QED BY <2>2, <2>3, NotWatched, SameGrows
<1>2. CASE CreateFails
  <2>1. helper' = [helper EXCEPT !.phase = "reaped"] /\ UNCHANGED session
    BY <1>2 DEF CreateFails
  <2>2. helper'.phase = "reaped"
    BY <1>0, <2>1 DEF HelperType
  <2>3. QED BY <2>1, <2>2, NotWatched, SameGrows
<1>3. CASE StopRoute
  BY <1>0, <1>3, EndCarries DEF StopRoute
<1>4. CASE LeaseRunsOut
  <2> DEFINE s == [session EXCEPT !.present = FALSE]
  <2>1. SessionShape(s) /\ s.over = session.over /\ s.lost = session.lost
    BY <1>0 DEF SessionShape, SessionType
  <2>2. End(s)
    BY <1>4 DEF LeaseRunsOut
  <2> HIDE DEF s
  <2>3. QED BY <1>0, <2>1, <2>2, EndCarries
<1>5. QED BY <1>1, <1>2, <1>3, <1>4

LEMMA FaultCarries == ASSUME IInv, Fault, NEW before PROVE Carried(before) /\ Grows(session, session')
<1>0. helper \in HelperType /\ pipe \in Seq(Frame)
  BY Types DEF IInv
<1>1. UNCHANGED <<session, bridge>>
  BY DEF Fault
<1>2. Grows(session, session')
  BY <1>1, SameGrows
<1>3. CASE UNCHANGED <<helper, pipe>>
  <2>1. Watched' => Watched
    BY <1>1, <1>3 DEF Watched
  <2>2. QED BY <1>1, <1>2, <1>3, <2>1, AsideCarries
<1>4. CASE helper' = HelperKilled(helper)
  <2>1. helper'.phase # "streaming"
    BY <1>0, <1>4, HelperKilledType
  <2>2. QED BY <1>2, <2>1, NotWatched
<1>5. CASE UNCHANGED helper /\ pipe' = Append(pipe, Garbage)
  <2>1. Garbage \in Frame /\ Garbage.type = "garbage"
    BY PlainFrames DEF Garbage
  <2>2. ASSUME NEW shown PROVE Last(pipe', shown) = Last(pipe, shown)
    BY <1>0, <1>5, <2>1, LastAppend
  <2>3. Watched' => Watched
    BY <1>1, <1>5 DEF Watched
  <2>4. Carried(before)
    BY <1>1, <1>5, <2>2, <2>3 DEF Carried, Settled
  <2>5. QED BY <1>2, <2>4
<1>6. QED BY <1>3, <1>4, <1>5 DEF Fault, Crashes, Hangs, Babbles

\* A step of the session carries what is on its way.
LEMMA StepCarries == ASSUME IInv, [Next]_vars, NEW before PROVE Carried(before) /\ Grows(session, session')
<1>1. CASE Transcriber \/ UNCHANGED vars
  <2>1. UNCHANGED <<session, helper, pipe, bridge>>
    BY <1>1 DEF Transcriber, vars
  <2>2. Watched' => Watched
    BY <2>1 DEF Watched
  <2>3. QED BY <2>1, <2>2, AsideCarries, SameGrows
<1>2. QED BY <1>1, HelperCarries, BridgeCarries, FaultCarries, RoutesCarry DEF Next

\* A helper comes only from a create request.
LEMMA NoHelper ==
  ASSUME IInv, helper.phase = "none", Helper \/ Transcriber \/ Bridge \/ Fault \/ StopRoute \/ LeaseRunsOut
  PROVE  helper'.phase = "none"
<1>0. helper \in HelperType /\ HelperKilled(helper).phase = "none"
  <2>1. helper \in HelperType
    BY Types DEF IInv
  <2>2. QED BY <2>1 DEF HelperKilled, Killed, Left, Alive, HelperType
<1>1. helper.todo = <<>>
  BY DEF IInv, Writing
<1>2. CASE Helper
  BY <1>1, <1>2 DEF Helper, HelperOpens, HelperRecords, HelperWaits, HelperDegrades, HelperWrites, HelperExits,
                    Captures
<1>3. CASE Transcriber \/ Fault
  BY <1>0, <1>3 DEF Transcriber, Fault, Crashes, Hangs, Babbles
<1>4. CASE StopRoute \/ LeaseRunsOut
  BY <1>0, <1>4 DEF StopRoute, LeaseRunsOut, End
<1>5. CASE Bridge
  <2>1. UNCHANGED helper \/ helper' = HelperKilled(helper)
    BY <1>5 DEF Bridge, Removal, KillTimer, AudioData, FrameHandled, Drains, TranscriptData, WorkerLost, Fail
  <2>2. QED BY <1>0, <2>1
<1>6. QED BY <1>2, <1>3, <1>4, <1>5


-----------------------------------------------------------------------------
(* The client and the panel *)

ConsentType == [given : BOOLEAN, epoch : Nat]

Flight == [generation : Nat, epoch : Nat]

ProbeType == [generation : Nat, flights : SUBSET Flight, report : Nat]

PollType == [at : {"idle", "asked", "looking", "answered", "missing"}, events : Seq(Events), stopped : BOOLEAN]

PanelType == [at : {"off", "starting", "running", "stopping", "ended"}, shown : CaptureStates]

ClientTypes ==
  /\ consent \in ConsentType /\ probe \in ProbeType /\ poll \in PollType /\ panel \in PanelType
  /\ start \in {"none", "sent", "served", "refused", "returned", "late", "lost"}
  /\ client \in {"none", "asking", "open", "closed", "gone"}
  /\ stop \in {"none", "sent", "served", "lost"}

\* A report, and a probe of the current generation, belong to the consent that holds.
Probes ==
  /\ probe.report # 0 => consent.given /\ probe.report = consent.epoch
  /\ \A flight \in probe.flights :
       /\ flight.generation <= probe.generation
       /\ flight.generation = probe.generation => consent.given /\ flight.epoch = consent.epoch

\* Before the start there is no session, before the client polls it has told nothing, and an
\* answer holds the events before the cursor it moves to.
Polls ==
  /\ panel.at = "off" => client = "none" /\ start = "none"
  /\ start = "none" => helper.phase = "none"
  /\ client # "open" => poll = NoPoll
  /\ client \in {"none", "asking"} => session.told = 0
  /\ client = "open" /\ ~session.over /\ ~session.lost =>
       IF poll.at = "answered" THEN poll.events = SubSeq(session.ring, 1, session.told)
       ELSE session.told = 0

\* The states the panel may show when the next answer comes.
Befores ==
  IF client = "asking" THEN CaptureStates
  ELSE IF client = "open" /\ panel.at = "running" THEN {panel.shown} ELSE {}

OnTheWay == Watched => \A before \in Befores : Settled(before)

Fallback == IInv /\ ClientTypes /\ Probes /\ Polls /\ OnTheWay

\* Steps of the page that leave the session alone, except for the timer, the cursor and the
\* events before it.
LEMMA PageHolds ==
  ASSUME IInv, UNCHANGED <<helper, pipe, bridge, input, transcriber, output, changes>>, faults' \in Nat,
         SessionShape(session'), session'.over = session.over
  PROVE  IInv' /\ transcriber'.heard = transcriber.heard
<1>1. TypeOK' /\ Writing'
  BY Types, Retyped DEF IInv, Writing
<1>2. QED BY <1>1, Elsewhere

\* What the panel shows, or may show, is not added to.
LEMMA SameWay ==
  ASSUME OnTheWay, UNCHANGED <<helper, pipe, bridge>>, session'.ring = session.ring,
         session'.over = session.over, session'.lost = session.lost, Befores' \subseteq Befores
  PROVE  OnTheWay'
<1>1. ASSUME Watched', NEW before \in Befores' PROVE Settled(before)'
  <2>1. Watched /\ before \in Befores
    BY <1>1 DEF Watched
  <2>2. QED BY <2>1 DEF OnTheWay, Settled
<1>2. QED BY <1>1 DEF OnTheWay

LEMMA InitAllHolds == InitAll => Fallback
<1> SUFFICES ASSUME InitAll PROVE Fallback
  OBVIOUS
<1>1. IInv
  BY InitHolds DEF InitAll
<1>2. session.told = 0 /\ helper.phase = "none"
  BY DEF InitAll, Init
<1>3. ClientTypes
  <2>1. <<>> \in Seq(Events)
    BY EmptySeq
  <2>2. QED BY <2>1 DEF InitAll, ClientTypes, ConsentType, ProbeType, Flight, PollType, PanelType, NoPoll,
                        CaptureStates
<1>4. Probes /\ Polls /\ OnTheWay
  BY <1>2 DEF InitAll, Probes, Polls, OnTheWay, Watched
<1>5. QED BY <1>1, <1>3, <1>4 DEF Fallback

LEMMA StoppingType ==
  ASSUME panel \in PanelType, Stopping
  PROVE  panel' \in PanelType /\ (panel'.at = "off" => panel.at = "off") /\ (panel'.at = "running" => panel' = panel)
<1>1. \/ panel' = [at |-> "ended", shown |-> "stopped"]
      \/ panel' = [panel EXCEPT !.at = "stopping"]
      \/ panel' = panel
  BY DEF Stopping
<1>2. QED BY <1>1 DEF PanelType, CaptureStates

\* What comes at the end of a sequence is in no part before it.
LEMMA SubSeqOfAppend ==
  ASSUME NEW s \in Seq(Events), NEW event \in Events, NEW n \in Nat, n <= Len(s)
  PROVE  SubSeq(Append(s, event), 1, n) = SubSeq(s, 1, n)
<1> DEFINE t == Append(s, event)
           p == SubSeq(t, 1, n)
           q == SubSeq(s, 1, n)
<1>1. /\ t \in Seq(Events) /\ Len(t) = Len(s) + 1 /\ Len(s) \in Nat
      /\ \A i \in 1..Len(s) : t[i] = s[i]
  BY AppendProperties, LenProperties
<1>2. \A i \in 1..n : s[i] \in Events /\ t[i] \in Events /\ t[i] = s[i]
  <2>1. \A i \in 1..n : i \in 1..Len(s) /\ i \in 1..Len(t)
    BY <1>1
  <2> HIDE DEF t
  <2>2. QED BY <1>1, <2>1, ElementOfSeq
<1> HIDE DEF t
<1>3. /\ p \in Seq(Events) /\ Len(p) = IF 1 <= n THEN n - 1 + 1 ELSE 0
      /\ \A i \in 1..n - 1 + 1 : p[i] = t[1 + i - 1]
  BY <1>1, <1>2, SubSeqProperties
<1>4. /\ q \in Seq(Events) /\ Len(q) = IF 1 <= n THEN n - 1 + 1 ELSE 0
      /\ \A i \in 1..n - 1 + 1 : q[i] = s[1 + i - 1]
  BY <1>2, SubSeqProperties
<1> HIDE DEF p, q
<1>5. Len(p) = n /\ Len(q) = n /\ \A i \in 1..n : p[i] = q[i]
  <2>1. \A i \in 1..n : i \in 1..n - 1 + 1 /\ 1 + i - 1 = i
    OBVIOUS
  <2>2. QED BY <1>2, <1>3, <1>4, <2>1
<1>6. p = q
  BY <1>3, <1>4, <1>5, SeqEqual
<1>7. QED BY <1>6 DEF p, q, t

-----------------------------------------------------------------------------
(* The session under the client *)

\* What the client and the panel are made of does not change.
LEMMA SessionUnder ==
  ASSUME Fallback, [Next]_vars, UNCHANGED <<client, poll, panel>>,
         start' = "none" => helper'.phase = "none", panel.at = "off" => start' = "none"
  PROVE  IInv' /\ Polls' /\ OnTheWay' /\ Promise
<1>1. IInv' /\ Promise
  BY StepHolds DEF Fallback
<1>2. Grows(session, session')
  BY StepCarries DEF Fallback
<1>3. Polls'
  <2>1. client' = "open" /\ ~session'.over /\ ~session'.lost =>
          IF poll'.at = "answered" THEN poll'.events = SubSeq(session'.ring, 1, session'.told)
          ELSE session'.told = 0
    <3> SUFFICES ASSUME client' = "open", ~session'.over, ~session'.lost
                 PROVE  IF poll'.at = "answered" THEN poll'.events = SubSeq(session'.ring, 1, session'.told)
                        ELSE session'.told = 0
      OBVIOUS
    <3>1. ~session.over /\ ~session.lost /\ client = "open" /\ session'.told = session.told
      BY <1>2 DEF Grows
    <3>2. IF poll.at = "answered" THEN poll.events = SubSeq(session.ring, 1, session.told)
          ELSE session.told = 0
      BY <3>1 DEF Fallback, Polls
    <3>3. session'.ring = session.ring \/ \E event \in Events : session'.ring = Append(session.ring, event)
      BY <1>2 DEF Grows
    <3>4. SubSeq(session'.ring, 1, session.told) = SubSeq(session.ring, 1, session.told)
      <4>1. CASE session'.ring = session.ring
        BY <4>1
      <4>2. ASSUME NEW event \in Events, session'.ring = Append(session.ring, event)
            PROVE  SubSeq(session'.ring, 1, session.told) = SubSeq(session.ring, 1, session.told)
        <5>1. session.ring \in Seq(Events) /\ session.told \in Nat /\ session.told <= Len(session.ring)
          BY Types DEF Fallback, IInv, SessionShape, SessionType
        <5>2. QED BY <4>2, <5>1, SubSeqOfAppend
      <4>3. QED BY <3>3, <4>1, <4>2
    <3>5. QED BY <3>1, <3>2, <3>4
  <2>2. session.told = 0 => session'.told = 0
    BY <1>2 DEF Grows
  <2>3. QED BY <2>1, <2>2 DEF Fallback, Polls
<1>4. OnTheWay'
  <2>1. ASSUME Watched', NEW before \in Befores' PROVE Settled(before)'
    <3>1. before \in Befores
      BY <2>1 DEF Befores
    <3>2. Watched => Settled(before)
      BY <3>1 DEF Fallback, OnTheWay
    <3>3. Carried(before)
      BY StepCarries DEF Fallback
    <3>4. QED BY <2>1, <3>2, <3>3 DEF Carried
  <2>2. QED BY <2>1 DEF OnTheWay
<1>5. QED BY <1>1, <1>3, <1>4

LEMMA UnderHolds ==
  ASSUME Fallback, Companion \/ Lease \/ StartServed \/ StopServed
  PROVE  Fallback' /\ Promise
<1>1. CASE Companion \/ Lease
  <2>1. (Helper \/ Transcriber \/ Bridge \/ Fault \/ LeaseRunsOut) /\ UNCHANGED clientVars
    BY <1>1 DEF Companion, Lease
  <2>2. [Next]_vars
    BY <2>1 DEF Next
  <2>3. start = "none" => helper'.phase = "none"
    BY <2>1, NoHelper DEF Fallback, Polls
  <2>4. panel.at = "off" => start = "none"
    BY DEF Fallback, Polls
  <2>5. IInv' /\ Polls' /\ OnTheWay' /\ Promise
    BY <2>1, <2>2, <2>3, <2>4, SessionUnder DEF clientVars
  <2>6. ClientTypes' /\ Probes'
    BY <2>1 DEF Fallback, ClientTypes, Probes, clientVars
  <2>7. QED BY <2>5, <2>6 DEF Fallback
<1>2. CASE StartServed
  <2>1. /\ Create \/ CreateFails
        /\ start \in {"sent", "late"} /\ start' \in {"served", "refused", "lost"}
        /\ UNCHANGED <<consent, probe, client, poll, stop, panel>>
    BY <1>2 DEF StartServed
  <2>2. [Next]_vars
    BY <2>1 DEF Next
  <2>3. panel.at # "off"
    BY <2>1 DEF Fallback, Polls
  <2>4. IInv' /\ Polls' /\ OnTheWay' /\ Promise
    BY <2>1, <2>2, <2>3, SessionUnder
  <2>5. ClientTypes' /\ Probes'
    BY <2>1 DEF Fallback, ClientTypes, Probes
  <2>6. QED BY <2>4, <2>5 DEF Fallback
<1>3. CASE StopServed
  <2>1. /\ StopRoute \/ UNCHANGED vars
        /\ stop' = "served" /\ UNCHANGED <<consent, probe, start, client, poll, panel>>
    BY <1>3 DEF StopServed
  <2>2. [Next]_vars
    BY <2>1 DEF Next
  <2>3. start = "none" => helper'.phase = "none"
    BY <2>1, NoHelper DEF Fallback, Polls, vars
  <2>4. panel.at = "off" => start = "none"
    BY DEF Fallback, Polls
  <2>5. IInv' /\ Polls' /\ OnTheWay' /\ Promise
    BY <2>1, <2>2, <2>3, <2>4, SessionUnder
  <2>6. ClientTypes' /\ Probes'
    BY <2>1 DEF Fallback, ClientTypes, Probes
  <2>7. QED BY <2>5, <2>6 DEF Fallback
<1>4. QED BY <1>1, <1>2, <1>3


-----------------------------------------------------------------------------
(* The polls *)

LEMMA NoPollType == NoPoll \in PollType /\ NoPoll.at = "idle"
<1>1. <<>> \in Seq(Events)
  BY EmptySeq
<1>2. QED BY <1>1 DEF NoPoll, PollType

\* The events after the cursor.
LEMMA RestType ==
  ASSUME NEW s \in Seq(Events), NEW n \in Nat, n <= Len(s)
  PROVE  SubSeq(s, n + 1, Len(s)) \in Seq(Events) /\ Len(SubSeq(s, n + 1, Len(s))) <= Len(s)
<1> DEFINE q == SubSeq(s, n + 1, Len(s))
<1>1. Len(s) \in Nat /\ \A i \in n + 1..Len(s) : s[i] \in Events
  BY LenProperties, ElementOfSeq
<1>2. q \in Seq(Events) /\ Len(q) = IF n + 1 <= Len(s) THEN Len(s) - (n + 1) + 1 ELSE 0
  BY <1>1, SubSeqProperties
<1> HIDE DEF q
<1>3. Len(q) <= Len(s)
  BY <1>1, <1>2
<1>4. QED BY <1>2, <1>3 DEF q

\* #fail: the client is closed, and what the panel shows is not awaited any more.
LEMMA FailsHolds ==
  ASSUME Fallback, IInv', Fails, poll' = NoPoll, UNCHANGED <<consent, probe, start>>, client = "open",
         helper'.phase = helper.phase
  PROVE  Fallback'
<1>1. client' = "closed" /\ stop' = "sent"
      /\ panel' = IF panel.at = "running" THEN [panel EXCEPT !.shown = "degraded"] ELSE panel
  BY DEF Fails
<1>2. panel' \in PanelType /\ panel'.at = panel.at
  BY <1>1 DEF Fallback, ClientTypes, PanelType, CaptureStates
<1>3. ClientTypes'
  BY <1>1, <1>2, NoPollType DEF Fallback, ClientTypes
<1>4. panel.at # "off"
  BY DEF Fallback, Polls
<1>5. Polls'
  BY <1>1, <1>2, <1>4 DEF Fallback, Polls
<1>6. OnTheWay'
  BY <1>1 DEF OnTheWay, Befores
<1>7. Probes'
  BY DEF Fallback, Probes
<1>8. QED BY <1>3, <1>5, <1>6, <1>7 DEF Fallback

\* An answer is taken: the cursor moves over its events.
LEMMA PollReturnsHolds == ASSUME Fallback, PollReturns PROVE Fallback' /\ transcriber'.heard = transcriber.heard
<1>0. /\ SessionShape(session) /\ session \in SessionType /\ session.ring \in Seq(Events) /\ session.told \in Nat
      /\ session.told <= Len(session.ring) /\ Len(session.ring) <= MaxEvents /\ Len(session.ring) \in Nat
      /\ poll \in PollType /\ panel \in PanelType /\ faults \in Nat /\ IInv
  BY Types, LenProperties DEF Fallback, IInv, SessionShape, SessionType, ClientTypes
<1>1. /\ poll.at = "answered" /\ poll' = NoPoll
      /\ session' = [session EXCEPT !.ring = SubSeq(session.ring, session.told + 1, Len(session.ring)), !.told = 0]
      /\ UNCHANGED <<helper, pipe, bridge, input, transcriber, output, changes, faults, consent, probe, start>>
  BY DEF PollReturns, workers
<1>2. client = "open" /\ panel.at # "off"
  <2>1. poll # NoPoll
    BY <1>1, NoPollType
  <2>2. QED BY <2>1 DEF Fallback, Polls
<1> DEFINE rest == SubSeq(session.ring, session.told + 1, Len(session.ring))
<1>3. rest \in Seq(Events) /\ Len(rest) <= Len(session.ring)
  BY <1>0, RestType
<1>4. session' = [session EXCEPT !.ring = rest, !.told = 0]
  BY <1>1
<1> HIDE DEF rest
<1>5. /\ session' \in SessionType /\ session'.ring = rest /\ session'.told = 0
      /\ session'.over = session.over /\ session'.lost = session.lost
  BY <1>0, <1>3, <1>4 DEF SessionType
<1>6. SessionShape(session')
  <2>1. Len(rest) \in Nat
    BY <1>3, LenProperties
  <2>2. QED BY <1>0, <1>3, <1>5, <2>1, Constants DEF SessionShape
<1>7. IInv' /\ transcriber'.heard = transcriber.heard
  BY <1>0, <1>1, <1>5, <1>6, PageHolds
<1>8. CASE poll.stopped
  <2>1. Fails
    BY <1>8 DEF PollReturns
  <2>2. QED BY <1>1, <1>2, <1>7, <2>1, FailsHolds
<1>9. CASE ~poll.stopped
  <2>1. /\ panel' = IF panel.at # "running" THEN panel ELSE [panel EXCEPT !.shown = Shown(poll.events, panel.shown)]
        /\ UNCHANGED <<client, stop>>
    BY <1>9 DEF PollReturns
  <2>2. panel' \in PanelType /\ panel'.at = panel.at
        /\ (panel.at = "running" => panel'.shown = Shown(poll.events, panel.shown))
    <3>1. poll.events \in Seq(Events) /\ panel.shown \in CaptureStates
      BY <1>0 DEF PollType, PanelType
    <3>2. Shown(poll.events, panel.shown) \in CaptureStates
      BY <3>1, ShownType
    <3>3. QED BY <1>0, <2>1, <3>2 DEF PanelType
  <2>3. ClientTypes' /\ Probes'
    BY <1>1, <2>1, <2>2, NoPollType DEF Fallback, ClientTypes, Probes
  <2>4. Polls'
    BY <1>1, <1>2, <1>5, <2>1, <2>2, NoPollType DEF Fallback, Polls
  <2>5. ASSUME Watched', NEW before \in Befores' PROVE Settled(before)'
    <3>1. panel.at = "running" /\ before = Shown(poll.events, panel.shown)
      BY <1>2, <2>1, <2>2 DEF Befores
    <3>2. Watched
      BY <1>1, <1>5, <2>5 DEF Watched
    <3>3. Settled(panel.shown)
      BY <1>2, <3>1, <3>2 DEF Fallback, OnTheWay, Befores
    <3>4. poll.events = SubSeq(session.ring, 1, session.told)
      BY <1>1, <1>2, <3>2 DEF Fallback, Polls, Watched
    <3>5. Shown(rest, Shown(SubSeq(session.ring, 1, session.told), panel.shown)) = Shown(session.ring, panel.shown)
      <4>1. session.told \in 0..Len(session.ring)
        BY <1>0
      <4>2. QED BY <1>0, <4>1, ShownSplit DEF rest
    <3>6. Shown(session'.ring, before) = Shown(session.ring, panel.shown)
      BY <1>5, <3>1, <3>4, <3>5
    <3>7. QED BY <1>1, <3>3, <3>6 DEF Settled
  <2>6. OnTheWay'
    BY <2>5 DEF OnTheWay
  <2>7. QED BY <1>7, <2>3, <2>4, <2>6 DEF Fallback
<1>10. QED BY <1>7, <1>8, <1>9

LEMMA PollServedHolds ==
  ASSUME Fallback, PollServed \/ PollAnswered PROVE Fallback' /\ transcriber'.heard = transcriber.heard
<1>0. /\ SessionShape(session) /\ session \in SessionType /\ session.ring \in Seq(Events) /\ session.told \in Nat
      /\ Len(session.ring) <= MaxEvents /\ Len(session.ring) \in Nat
      /\ poll \in PollType /\ faults \in Nat /\ IInv
  BY Types, LenProperties DEF Fallback, IInv, SessionShape, SessionType, ClientTypes
<1>1. /\ poll.at \in {"asked", "looking"}
      /\ UNCHANGED <<helper, pipe, bridge, input, transcriber, output, changes, faults, consent, probe, start,
                     client, stop, panel>>
  BY DEF PollServed, PollAnswered, workers
<1>2. client = "open"
  <2>1. poll # NoPoll
    BY <1>1, NoPollType
  <2>2. QED BY <2>1 DEF Fallback, Polls
<1>3. /\ session'.ring = session.ring /\ session'.over = session.over /\ session'.lost = session.lost
      /\ session' \in SessionType /\ poll' \in PollType
      /\ \/ session'.told = session.told /\ poll'.at # "answered"
         \/ session'.told = Len(session.ring) /\ poll'.at = "answered" /\ poll'.events = session.ring
  <2>1. \/ poll' = [poll EXCEPT !.at = "missing"] /\ UNCHANGED session
        \/ poll' = [poll EXCEPT !.at = "looking"] /\ session' = [session EXCEPT !.leased = TRUE]
        \/ poll' = Answer /\ session' = [session EXCEPT !.leased = ~session.over, !.told = Len(session.ring)]
        \/ poll' = Answer /\ session' = [session EXCEPT !.told = Len(session.ring)]
    BY DEF PollServed, PollAnswered
  <2>2. Answer \in PollType /\ Answer.at = "answered" /\ Answer.events = session.ring
    BY <1>0 DEF Answer, PollType, SessionType
  <2>3. QED BY <1>0, <2>1, <2>2 DEF SessionType, PollType
<1>4. SessionShape(session')
  BY <1>0, <1>3 DEF SessionShape
<1>5. IInv' /\ transcriber'.heard = transcriber.heard
  BY <1>0, <1>1, <1>3, <1>4, PageHolds
<1>6. ClientTypes' /\ Probes'
  BY <1>1, <1>3 DEF Fallback, ClientTypes, Probes
<1>7. Polls'
  <2>1. SubSeq(session.ring, 1, Len(session.ring)) = session.ring
    BY <1>0, SubSeqFull
  <2>2. poll.at # "answered"
    BY <1>1
  <2>3. ~session'.over /\ ~session'.lost =>
          IF poll'.at = "answered" THEN poll'.events = SubSeq(session'.ring, 1, session'.told) ELSE session'.told = 0
    BY <1>2, <1>3, <2>1, <2>2 DEF Fallback, Polls
  <2>4. QED BY <1>1, <1>2, <2>3 DEF Fallback, Polls
<1>8. OnTheWay'
  BY <1>1, <1>3, SameWay DEF Fallback, Befores
<1>9. QED BY <1>5, <1>6, <1>7, <1>8 DEF Fallback

\* Steps of the page that the session knows nothing of.
LEMMA PageAlone ==
  ASSUME Fallback, UNCHANGED <<session, helper, pipe, bridge, input, transcriber, output, changes>>,
         faults' = faults \/ faults' = faults + 1
  PROVE  IInv' /\ transcriber'.heard = transcriber.heard
<1>1. faults' \in Nat /\ SessionShape(session)
  <2>1. faults \in Nat /\ SessionShape(session)
    BY Types DEF Fallback, IInv
  <2>2. QED BY <2>1
<1>2. QED BY <1>1, PageHolds DEF Fallback

LEMMA PollHolds ==
  ASSUME Fallback, Polling PROVE Fallback' /\ transcriber'.heard = transcriber.heard
<1>1. CASE PollSends
  <2>1. /\ client = "open" /\ poll.at = "idle" /\ poll' = [poll EXCEPT !.at = "asked"]
        /\ UNCHANGED <<session, helper, pipe, bridge, input, transcriber, output, changes, faults>>
        /\ UNCHANGED <<consent, probe, start, client, stop, panel>>
    BY <1>1 DEF PollSends, vars
  <2>2. IInv' /\ transcriber'.heard = transcriber.heard
    BY <2>1, PageAlone
  <2>3. poll' \in PollType /\ poll'.at = "asked"
    BY <2>1 DEF Fallback, ClientTypes, PollType
  <2>4. ClientTypes' /\ Probes' /\ Polls'
    BY <2>1, <2>2, <2>3 DEF Fallback, ClientTypes, Probes, Polls
  <2>5. OnTheWay'
    BY <2>1, <2>2, SameWay DEF Fallback, Befores
  <2>6. QED BY <2>2, <2>4, <2>5 DEF Fallback
<1>2. CASE PollRefused
  <2>1. poll.at = "missing" /\ poll' = NoPoll /\ Fails /\ UNCHANGED <<consent, probe, start>>
        /\ UNCHANGED <<session, helper, pipe, bridge, input, transcriber, output, changes, faults>>
    BY <1>2 DEF PollRefused, vars
  <2>2. IInv' /\ transcriber'.heard = transcriber.heard
    BY <2>1, PageAlone
  <2>3. client = "open"
    <3>1. poll # NoPoll
      BY <2>1, NoPollType
    <3>2. QED BY <3>1 DEF Fallback, Polls
  <2>4. QED BY <2>1, <2>2, <2>3, FailsHolds
<1>3. QED BY <1>1, <1>2, PollServedHolds, PollReturnsHolds DEF Polling


-----------------------------------------------------------------------------
(* The steps of the user, the start and what is lost *)

LEMMA UserHolds ==
  ASSUME Fallback, User \/ MicrophoneStopped \/ OwnSideFails \/ ProbeReturns \/ StartReturns
  PROVE  Fallback' /\ transcriber'.heard = transcriber.heard
<1>0. /\ consent \in ConsentType /\ probe \in ProbeType /\ poll \in PollType /\ panel \in PanelType
      /\ ClientTypes /\ Probes /\ Polls /\ OnTheWay /\ consent.epoch \in Nat /\ probe.generation \in Nat
      /\ probe.flights \subseteq Flight /\ consent.given \in BOOLEAN
  BY DEF Fallback, ClientTypes, ConsentType, ProbeType
<1>1. UNCHANGED <<session, helper, pipe, bridge, input, transcriber, output, changes, faults>>
  BY DEF User, StopClicked, ConsentGiven, ConsentRevoked, ProbeClicked, StartClicked,
         MicrophoneStopped, OwnSideFails, ProbeReturns, StartReturns, vars
<1>2. IInv' /\ transcriber'.heard = transcriber.heard
  BY <1>1, PageAlone
<1>3. ASSUME Befores' \subseteq Befores \/ ~Watched PROVE OnTheWay'
  <2>1. CASE Befores' \subseteq Befores
    BY <1>0, <1>1, <2>1, SameWay
  <2>2. CASE ~Watched
    BY <1>1, <2>2 DEF OnTheWay, Watched
  <2>3. QED BY <1>3, <2>1, <2>2
<1>4. ASSUME ClientTypes', Probes', Polls', Befores' \subseteq Befores \/ ~Watched
      PROVE  Fallback' /\ transcriber'.heard = transcriber.heard
  BY <1>2, <1>3, <1>4 DEF Fallback
<1>5. CASE StopClicked
  <2>1. Stopping /\ UNCHANGED <<consent, probe, start, client, poll, stop>>
    BY <1>5 DEF StopClicked
  <2>2. panel' \in PanelType /\ (panel'.at = "off" => panel.at = "off") /\ (panel'.at = "running" => panel' = panel)
    BY <1>0, <2>1, StoppingType
  <2>3. ClientTypes' /\ Probes' /\ Polls' /\ Befores' \subseteq Befores
    BY <1>0, <1>1, <2>1, <2>2 DEF ClientTypes, Probes, Polls, Befores
  <2>4. QED BY <1>4, <2>3
<1>6. CASE MicrophoneStopped \/ OwnSideFails
  <2>1. /\ panel.at \in {"stopping", "running"} /\ panel' = [at |-> "ended", shown |-> "stopped"]
        /\ client' = IF client = "open" THEN "closed" ELSE client
        /\ stop' = IF client = "open" THEN "sent" ELSE stop
        /\ poll' = NoPoll /\ UNCHANGED <<consent, probe, start>>
    BY <1>6 DEF MicrophoneStopped, OwnSideFails, ClientStops
  <2>2. panel' \in PanelType /\ panel'.at = "ended"
    BY <2>1 DEF PanelType, CaptureStates
  <2>3. ClientTypes' /\ Probes'
    BY <1>0, <2>1, <2>2, NoPollType DEF ClientTypes, Probes
  <2>4. Polls' /\ Befores' \subseteq Befores
    BY <1>0, <1>1, <2>1, <2>2 DEF Polls, Befores, ClientTypes
  <2>5. QED BY <1>4, <2>3, <2>4
<1>7. CASE ConsentGiven
  <2>1. ~consent.given /\ consent' = [given |-> TRUE, epoch |-> consent.epoch + 1]
        /\ UNCHANGED <<probe, start, client, poll, stop, panel>>
    BY <1>7 DEF ConsentGiven
  <2>2. ClientTypes' /\ Polls' /\ Befores' \subseteq Befores
    BY <1>0, <1>1, <2>1 DEF ClientTypes, ConsentType, Polls, Befores
  <2>3. Probes'
    BY <1>0, <2>1 DEF Probes
  <2>4. QED BY <1>4, <2>2, <2>3
<1>8. CASE ConsentRevoked
  <2>1. consent' = [consent EXCEPT !.given = FALSE]
        /\ probe' = [probe EXCEPT !.generation = probe.generation + 1, !.report = 0]
        /\ Stopping /\ UNCHANGED <<start, client, poll, stop>>
    BY <1>8 DEF ConsentRevoked
  <2>2. panel' \in PanelType /\ (panel'.at = "off" => panel.at = "off") /\ (panel'.at = "running" => panel' = panel)
    BY <1>0, <2>1, StoppingType
  <2>3. /\ probe' \in ProbeType /\ probe'.generation = probe.generation + 1 /\ probe'.report = 0
        /\ probe'.flights = probe.flights /\ consent' \in ConsentType
    <3> DEFINE next == probe.generation + 1
    <3>1. next \in Nat /\ probe' = [probe EXCEPT !.generation = next, !.report = 0]
      BY <1>0, <2>1
    <3> HIDE DEF next
    <3>2. /\ probe' \in ProbeType /\ probe'.generation = next /\ probe'.report = 0
          /\ probe'.flights = probe.flights
      BY <1>0, <3>1 DEF ProbeType
    <3>3. consent' \in ConsentType
      BY <1>0, <2>1 DEF ConsentType
    <3>4. QED BY <3>2, <3>3 DEF next
  <2>4. Probes'
    <3>1. \A flight \in probe.flights : flight.generation \in Nat /\ flight.generation <= probe.generation
      BY <1>0 DEF Probes, Flight
    <3>2. \A flight \in probe.flights : flight.generation <= probe.generation + 1
                                        /\ flight.generation # probe.generation + 1
      BY <1>0, <3>1
    <3>3. QED BY <2>3, <3>2 DEF Probes
  <2>5. ClientTypes' /\ Polls' /\ Befores' \subseteq Befores
    BY <1>0, <1>1, <2>1, <2>2, <2>3 DEF ClientTypes, Polls, Befores
  <2>6. QED BY <1>4, <2>4, <2>5
<1>9. CASE ProbeClicked
  <2> DEFINE asked == [generation |-> probe.generation + 1, epoch |-> consent.epoch]
  <2>1. /\ consent.given /\ UNCHANGED <<consent, start, client, poll, stop, panel>>
        /\ probe' = [generation |-> probe.generation + 1, report |-> 0, flights |-> probe.flights \cup {asked}]
    BY <1>9 DEF ProbeClicked
  <2>2. asked \in Flight /\ asked.generation = probe.generation + 1 /\ asked.epoch = consent.epoch
    BY <1>0 DEF Flight
  <2> HIDE DEF asked
  <2>3. /\ probe' \in ProbeType /\ probe'.generation = probe.generation + 1 /\ probe'.report = 0
        /\ probe'.flights = probe.flights \cup {asked}
    BY <1>0, <2>1, <2>2 DEF ProbeType
  <2>4. Probes'
    <3>1. \A flight \in probe.flights : flight.generation \in Nat /\ flight.generation <= probe.generation
      BY <1>0 DEF Probes, Flight
    <3>2. \A flight \in probe.flights : flight.generation <= probe.generation + 1
                                        /\ flight.generation # probe.generation + 1
      BY <1>0, <3>1
    <3>3. QED BY <1>0, <2>1, <2>2, <2>3, <3>2 DEF Probes
  <2>5. ClientTypes' /\ Polls' /\ Befores' \subseteq Befores
    BY <1>0, <1>1, <2>1, <2>3 DEF ClientTypes, Polls, Befores
  <2>6. QED BY <1>4, <2>4, <2>5
<1>10. CASE ProbeReturns
  <2>0. UNCHANGED <<consent, start, client, poll, stop, panel>>
    BY <1>10 DEF ProbeReturns
  <2>1. PICK flight \in probe.flights :
          LET counts == flight.generation = probe.generation /\ consent.given
          IN probe' \in {[probe EXCEPT !.flights = @ \ {flight}, !.report = report] :
                           report \in {probe.report} \cup (IF counts THEN {flight.epoch} ELSE {})}
    BY <1>10 DEF ProbeReturns
  <2> DEFINE counts == flight.generation = probe.generation /\ consent.given
             reports == {probe.report} \cup (IF counts THEN {flight.epoch} ELSE {})
  <2>1a. probe' \in {[probe EXCEPT !.flights = @ \ {flight}, !.report = report] : report \in reports}
    BY <2>1
  <2>1b. \A report \in reports :
          report = probe.report \/ (flight.generation = probe.generation /\ report = flight.epoch)
    OBVIOUS
  <2> HIDE DEF counts, reports
  <2>2. PICK report \in reports : probe' = [probe EXCEPT !.flights = probe.flights \ {flight}, !.report = report]
    BY <2>1a
  <2>3. report \in Nat /\ (report # 0 => consent.given /\ report = consent.epoch)
    BY <1>0, <2>1b, <2>2 DEF Probes, ProbeType, Flight
  <2>4. /\ probe' \in ProbeType /\ probe'.generation = probe.generation /\ probe'.report = report
        /\ probe'.flights = probe.flights \ {flight}
    BY <1>0, <2>2, <2>3 DEF ProbeType
  <2>5. Probes'
    BY <1>0, <2>0, <2>3, <2>4 DEF Probes
  <2>6. ClientTypes' /\ Polls' /\ Befores' \subseteq Befores
    BY <1>0, <1>1, <2>0, <2>4 DEF ClientTypes, Polls, Befores
  <2>7. QED BY <1>4, <2>5, <2>6
<1>11. CASE StartClicked
  <2>1. /\ panel.at = "off" /\ panel' = [at |-> "starting", shown |-> "stopped"]
        /\ client' = "asking" /\ start' = "sent" /\ UNCHANGED <<consent, probe, poll, stop>>
    BY <1>11 DEF StartClicked
  <2>2. client = "none" /\ helper.phase = "none" /\ panel' \in PanelType /\ panel'.at = "starting"
    BY <1>0, <2>1 DEF Polls, PanelType, CaptureStates
  <2>3. ClientTypes' /\ Probes' /\ Polls'
    BY <1>0, <1>1, <2>1, <2>2 DEF ClientTypes, Probes, Polls
  <2>4. QED BY <1>4, <2>2, <2>3 DEF Watched
<1>12. CASE StartReturns
  <2>0. client = "asking" /\ start \in {"served", "refused"} /\ start' = "returned" /\ panel.at # "off"
        /\ UNCHANGED <<consent, probe, poll>>
    BY <1>0, <1>12 DEF StartReturns, Polls
  <2>1. CASE client' = "open" /\ panel' = [at |-> "running", shown |-> "active"] /\ UNCHANGED stop
    <3>1. panel' \in PanelType /\ panel'.at = "running" /\ panel'.shown = "active"
      BY <2>1 DEF PanelType, CaptureStates
    <3>2. ClientTypes' /\ Probes'
      BY <1>0, <2>0, <2>1, <3>1 DEF ClientTypes, Probes
    <3>3. Polls'
      BY <1>0, <1>1, <2>0, <2>1, <3>1, NoPollType DEF Polls
    <3>4. Befores' \subseteq Befores
      BY <2>0, <2>1, <3>1 DEF Befores, CaptureStates
    <3>5. QED BY <1>4, <3>2, <3>3, <3>4
  <2>2. CASE client' = "closed" /\ panel' = Stopped /\ stop' \in {"sent", stop}
    <3>1. panel' \in PanelType /\ panel'.at # "off"
      BY <1>0, <2>0, <2>2 DEF Stopped, PanelType
    <3>2. ClientTypes' /\ Probes'
      BY <1>0, <2>0, <2>2, <3>1 DEF ClientTypes, Probes
    <3>3. Polls' /\ Befores' \subseteq Befores
      BY <1>0, <1>1, <2>0, <2>2, <3>1 DEF Polls, Befores
    <3>4. QED BY <1>4, <3>2, <3>3
  <2>3. QED BY <1>12, <2>1, <2>2 DEF StartReturns
<1>13. QED BY <1>5, <1>6, <1>7, <1>8, <1>9, <1>10, <1>11, <1>12 DEF User

LEMMA LostHolds == ASSUME Fallback, Lost PROVE Fallback' /\ transcriber'.heard = transcriber.heard
<1>0. /\ poll \in PollType /\ panel \in PanelType /\ ClientTypes /\ Probes /\ Polls /\ OnTheWay
  BY DEF Fallback, ClientTypes
<1>1. /\ UNCHANGED <<session, helper, pipe, bridge, input, transcriber, output, changes>>
      /\ faults' = faults + 1 /\ UNCHANGED <<consent, probe>>
  BY DEF Lost, workers, StartLost, PollFails, StopLost, TabCloses
<1>2. IInv' /\ transcriber'.heard = transcriber.heard
  BY <1>1, PageAlone
<1>3. Probes'
  BY <1>0, <1>1 DEF Probes
<1>4. ASSUME ClientTypes', Polls', Befores' \subseteq Befores PROVE Fallback'
  BY <1>0, <1>1, <1>2, <1>3, <1>4, SameWay DEF Fallback
<1>5. CASE StartLost
  <2>1. /\ client = "asking" /\ client' = "closed" /\ panel' = Stopped /\ UNCHANGED <<poll, stop>>
        /\ start' \in {"lost", "late"} /\ panel.at # "off"
    BY <1>0, <1>5 DEF StartLost, Polls
  <2>2. panel' \in PanelType /\ panel'.at # "off"
    BY <1>0, <2>1 DEF Stopped, PanelType
  <2>3. ClientTypes' /\ Polls' /\ Befores' \subseteq Befores
    BY <1>0, <1>1, <2>1, <2>2 DEF ClientTypes, Polls, Befores
  <2>4. QED BY <1>2, <1>4, <2>3
<1>6. CASE PollFails
  <2>1. poll # NoPoll /\ poll' = NoPoll /\ Fails /\ UNCHANGED <<consent, probe, start>>
    BY <1>6 DEF PollFails
  <2>2. client = "open"
    BY <1>0, <2>1 DEF Polls
  <2>3. QED BY <1>1, <1>2, <2>1, <2>2, FailsHolds
<1>7. CASE StopLost
  <2>1. stop' = "lost" /\ UNCHANGED <<start, client, poll, panel>>
    BY <1>7 DEF StopLost
  <2>2. ClientTypes' /\ Polls' /\ Befores' \subseteq Befores
    BY <1>0, <1>1, <2>1 DEF ClientTypes, Polls, Befores
  <2>3. QED BY <1>2, <1>4, <2>2
<1>8. CASE TabCloses
  <2>1. /\ client # "none" /\ client' = "gone" /\ start' = IF start = "sent" THEN "late" ELSE start
        /\ poll' = NoPoll /\ panel' = [at |-> "ended", shown |-> "stopped"] /\ UNCHANGED stop
    BY <1>8 DEF TabCloses
  <2>2. panel' \in PanelType /\ panel'.at = "ended"
    BY <2>1 DEF PanelType, CaptureStates
  <2>3. ClientTypes' /\ Polls' /\ Befores' \subseteq Befores
    BY <1>0, <1>1, <2>1, <2>2, NoPollType DEF ClientTypes, Polls, Befores
  <2>4. QED BY <1>2, <1>4, <2>3
<1>9. QED BY <1>5, <1>6, <1>7, <1>8 DEF Lost

-----------------------------------------------------------------------------
(* The fallback *)

LEMMA FallbackHolds == ASSUME Fallback, [FallbackNext]_allVars PROVE Fallback' /\ Promise
<1>1. CASE Companion \/ Lease \/ StartServed \/ StopServed
  BY <1>1, UnderHolds
<1>2. CASE Polling
  BY <1>2, PollHolds DEF Promise
<1>3. CASE User \/ MicrophoneStopped \/ OwnSideFails \/ ProbeReturns \/ StartReturns
  BY <1>3, UserHolds DEF Promise
<1>4. CASE Lost
  BY <1>4, LostHolds DEF Promise
<1>5. CASE UNCHANGED allVars
  <2>1. UNCHANGED vars /\ UNCHANGED <<client, poll, panel, start>>
    BY <1>5 DEF allVars, vars
  <2>2. IInv' /\ Polls' /\ OnTheWay' /\ Promise
    BY <2>1, SessionUnder DEF Fallback, Polls, vars
  <2>3. ClientTypes' /\ Probes'
    BY <1>5 DEF Fallback, ClientTypes, Probes, allVars
  <2>4. QED BY <2>2, <2>3 DEF Fallback
<1>6. QED BY <1>1, <1>2, <1>3, <1>4, <1>5 DEF FallbackNext

\* The inductive invariant of the fallback: the report belongs to the consent that holds, the
\* answer under way to the cursor, and what is on its way ends in the state of the helper.
THEOREM FallbackKept == SpecAll => []Fallback
<1>1. Fallback /\ [FallbackNext]_allVars => Fallback'
  BY FallbackHolds
<1>2. QED BY <1>1, InitAllHolds, PTL DEF SpecAll

\* Type correctness of the fallback with its session.
THEOREM FallbackTypes == SpecAll => [](TypeOK /\ ClientTypes)
<1>1. Fallback => TypeOK /\ ClientTypes
  BY DEF Fallback, IInv
<1>2. QED BY <1>1, FallbackKept, PTL

\* The report that the user starts from was asked for under the consent that holds now.
THEOREM ReportIsCurrent == SpecAll => []ProbeIsCurrent
<1>1. Fallback => ProbeIsCurrent
  BY DEF Fallback, Probes, ProbeIsCurrent
<1>2. QED BY <1>1, FallbackKept, PTL

\* When nothing is under way, the panel shows the state the helper is in.
THEOREM PanelShowsTheState == SpecAll => []ShownAgrees
<1>1. Fallback => ShownAgrees
  <2> SUFFICES ASSUME Fallback, client = "open", panel.at = "running", helper.phase = "streaming",
                      ~session.over, ~session.lost, session.ring = <<>>, Quiet, pipe = <<>>, helper.todo = <<>>
               PROVE  panel.shown = helper.state
    BY DEF ShownAgrees
  <2>1. Settled(panel.shown)
    BY DEF Fallback, OnTheWay, Watched, Befores
  <2>2. QED BY <2>1, ShownEmpty, LastOfNone DEF Settled, Quiet
<1>2. QED BY <1>1, FallbackKept, PTL

\* The client that polls, what it loses and when it stops leave the transcriber with what the
\* helper recorded, too.
THEOREM FallbackHeardInOrder == SpecAll => InOrder
<1>1. InitAll => Feed!Init
  BY DEF InitAll, Init, Feed!Init
<1>2. Fallback /\ Fallback' /\ [FallbackNext]_allVars => [Feed!Next]_<<transcriber.heard, FALSE>>
  BY FallbackHolds, StepImplements DEF Fallback
<1>3. QED BY <1>1, <1>2, FallbackKept, PTL DEF SpecAll, InOrder, Feed!Spec

=============================================================================
