------------------------- MODULE PrivacyStoreProofs -------------------------
(***************************************************************************)
(* Theorems about PrivacyStore, for any number of sessions, calls,         *)
(* requests and days and every limit, whoever asks for what and when: how  *)
(* far the limit is kept, what stays readable, and that an opened store is *)
(* swept.                                                                  *)
(***************************************************************************)
EXTENDS PrivacyStore, FiniteSetTheorems, SequenceTheorems, WellFoundedInduction, TLAPS

-----------------------------------------------------------------------------
(* Disks *)

LEMMA DiskElim ==
  ASSUME NEW files \in Disks
  PROVE  DOMAIN files \subseteq Ids /\ files \in [DOMAIN files -> Snapshot]
  BY DEF Disks

LEMMA DiskIntro ==
  ASSUME NEW names \in SUBSET Ids, NEW files \in [names -> Snapshot]
  PROVE  files \in Disks /\ DOMAIN files = names
  BY DEF Disks

LEMMA WithType ==
  ASSUME disk \in Disks, NEW id \in Ids, NEW file \in Snapshot
  PROVE  /\ With(id, file) \in Disks /\ DOMAIN With(id, file) = DOMAIN disk \cup {id}
         /\ With(id, file)[id] = file
         /\ \A name \in DOMAIN disk : name # id => With(id, file)[name] = disk[name]
<1>1. DOMAIN disk \subseteq Ids /\ disk \in [DOMAIN disk -> Snapshot]
  BY DiskElim
<1>2. With(id, file) \in [DOMAIN disk \cup {id} -> Snapshot]
  BY <1>1 DEF With
<1>3. DOMAIN disk \cup {id} \in SUBSET Ids
  BY <1>1
<1>4. With(id, file) \in Disks /\ DOMAIN With(id, file) = DOMAIN disk \cup {id}
  BY <1>2, <1>3, DiskIntro
<1>5. QED BY <1>4 DEF With

LEMMA WithoutType ==
  ASSUME disk \in Disks, NEW id
  PROVE  /\ WithoutFile(id) \in Disks /\ DOMAIN WithoutFile(id) = DOMAIN disk \ {id}
         /\ \A name \in DOMAIN disk \ {id} : WithoutFile(id)[name] = disk[name]
<1>1. DOMAIN disk \subseteq Ids /\ disk \in [DOMAIN disk -> Snapshot]
  BY DiskElim
<1>2. WithoutFile(id) \in [DOMAIN disk \ {id} -> Snapshot]
  BY <1>1 DEF WithoutFile
<1>3. DOMAIN disk \ {id} \in SUBSET Ids
  BY <1>1
<1>4. WithoutFile(id) \in Disks /\ DOMAIN WithoutFile(id) = DOMAIN disk \ {id}
  BY <1>2, <1>3, DiskIntro
<1>5. QED BY <1>4 DEF WithoutFile

-----------------------------------------------------------------------------
(* The inductive invariant *)

\* Nothing is promised of the session, or its file has expired.
Over(id) == id \in Ids /\ (saved[id] = 0 \/ Expired(id))

\* What a scan has still to remove is over.
Ahead(scan) ==
  /\ scan.at # "unlink" => \A id \in scan.expired : Over(id)
  /\ scan.at = "unlink" => \A id \in scan.names : Over(id)

ScanSound(scan) ==
  /\ Ahead(scan)
  /\ scan.at = "read" => scan.id \in Ids
  /\ scan.at = "unlink" => Over(scan.id)

SaveSound(c) == c.op = "save" => c.id \in Ids

\* A call that scans has not begun its own reading and writing.
CallSound(c) ==
  /\ SaveSound(c)
  /\ c.at \in {"check", "write", "rename"} => c.op = "save"
  /\ c.scans # <<>> => c.at \in {"init", "scan"}
  /\ \A k \in 1..Len(c.scans) : ScanSound(c.scans[k])

\* Whatever its top scan does.
LowerSound(c) ==
  /\ SaveSound(c) /\ c.scans # <<>> /\ c.at \in {"init", "scan"}
  /\ \A k \in 1..Len(c.scans) - 1 : ScanSound(c.scans[k])

CallsSound == IsFiniteSet(calls) /\ \A c \in calls : CallSound(c)

\* Saves past the check, the files they are about to write, and the names those will have taken.
LateOf(cs) == {c \in cs : Late(c)}

TakenBy(names, cs) == names \cup {c.id : c \in LateOf(cs)}

LateCalls == LateOf(calls)

Taken == TakenBy(DOMAIN disk, calls)

\* The files that are there and those to come: the check looked at the first only.
Room ==
  /\ IsFiniteSet(DOMAIN disk)
  /\ Cardinality(LateCalls) <= overlap
  /\ Cardinality(Taken) <= Limit + Excess

IInv == TypeOK /\ CallsSound /\ Room /\ Durable

LEMMA Types ==
  TypeOK => /\ disk \in Disks /\ clock \in Nat /\ clock <= MaxClock /\ requests \in 0..MaxRequests
            /\ overlap \in Nat /\ Excess \in Nat /\ Excess >= overlap - 1
            /\ saved \in [Ids -> 0..MaxRequests] /\ saved \in [Ids -> Nat]
            /\ initialized \in BOOLEAN /\ calls \subseteq Call
  BY StoreConstants DEF TypeOK, Excess

LEMMA InitHolds == Init => IInv
<1> SUFFICES ASSUME Init PROVE IInv
  OBVIOUS
<1>1. disk \in Disks /\ DOMAIN disk = {}
  <2>1. disk \in [{} -> Snapshot]
    BY DEF Init
  <2>2. QED BY <2>1, DiskIntro
<1>2. IsFiniteSet({}) /\ Cardinality({}) = 0
  BY FS_EmptySet
<1>3. TypeOK
  <2>1. 0 \in 0..MaxClock /\ 0 \in 0..MaxRequests /\ 0 \in 0..MaxCalls /\ 0 <= MaxCalls
    BY StoreConstants
  <2>2. QED BY <1>1, <1>2, <2>1 DEF Init, TypeOK
<1>4. CallsSound
  BY <1>2 DEF Init, CallsSound
<1>5. Room
  <2>1. LateCalls = {} /\ Taken = {}
    BY <1>1 DEF Init, LateCalls, LateOf, Taken, TakenBy
  <2>2. overlap = 0 /\ Excess = 0
    BY DEF Init, Excess
  <2>3. QED BY <1>1, <1>2, <2>1, <2>2, StoreConstants DEF Room
<1>6. Durable
  BY DEF Init, Durable
<1>7. QED BY <1>3, <1>4, <1>5, <1>6 DEF IInv

-----------------------------------------------------------------------------
(* The stack of a call *)

\* What a call is after a step of it.
Follows(c, d) ==
  /\ d \in Call /\ CallSound(d) /\ d.op = c.op
  /\ d.at \notin {"write", "rename"}

LEMMA TopSound ==
  ASSUME NEW c \in Call, CallSound(c), c.scans # <<>>
  PROVE  Top(c) \in Scan /\ ScanSound(Top(c)) /\ LowerSound(c)
<1>1. c.scans \in Seq(Scan) /\ Len(c.scans) \in Nat \ {0}
  BY EmptySeq DEF Call
<1>2. Len(c.scans) \in 1..Len(c.scans) /\ \A k \in 1..Len(c.scans) - 1 : k \in 1..Len(c.scans)
  BY <1>1
<1>3. Top(c) \in Scan
  BY <1>1, <1>2, ElementOfSeq DEF Top
<1>4. QED BY <1>2, <1>3 DEF CallSound, LowerSound, Top

\* The lower scans of a stack.
LEMMA CutSound ==
  ASSUME NEW c \in Call, NEW n \in Nat, n <= Len(c.scans), \A k \in 1..n : ScanSound(c.scans[k])
  PROVE  /\ SubSeq(c.scans, 1, n) \in Seq(Scan) /\ Len(SubSeq(c.scans, 1, n)) = n
         /\ \A k \in 1..n : SubSeq(c.scans, 1, n)[k] = c.scans[k] /\ ScanSound(SubSeq(c.scans, 1, n)[k])
<1>1. c.scans \in Seq(Scan) /\ Len(c.scans) \in Nat
  BY LenProperties DEF Call
<1>2. \A k \in 1..n : k \in 1..Len(c.scans) /\ c.scans[k] \in Scan
  BY <1>1, ElementOfSeq
<1>3. /\ SubSeq(c.scans, 1, n) \in Seq(Scan) /\ Len(SubSeq(c.scans, 1, n)) = IF 1 <= n THEN n - 1 + 1 ELSE 0
      /\ \A k \in 1..n - 1 + 1 : SubSeq(c.scans, 1, n)[k] = c.scans[1 + k - 1]
  BY <1>2, SubSeqProperties
<1>4. Len(SubSeq(c.scans, 1, n)) = n
  BY <1>3
<1>5. \A k \in 1..n : SubSeq(c.scans, 1, n)[k] = c.scans[k]
  BY <1>1, <1>3
<1>6. QED BY <1>3, <1>4, <1>5

LEMMA BelowSound ==
  ASSUME NEW c \in Call, LowerSound(c)
  PROVE  /\ Below(c) \in Seq(Scan) /\ Len(Below(c)) = Len(c.scans) - 1
         /\ \A k \in 1..Len(Below(c)) : ScanSound(Below(c)[k])
<1>1. Len(c.scans) \in Nat \ {0}
  BY EmptySeq DEF Call, LowerSound
<1>2. Len(c.scans) - 1 \in Nat /\ Len(c.scans) - 1 <= Len(c.scans)
  BY <1>1
<1>3. QED BY <1>2, CutSound DEF Below, LowerSound

\* A scan pushed on sound ones.
LEMMA PushSound ==
  ASSUME NEW scans \in Seq(Scan), \A k \in 1..Len(scans) : ScanSound(scans[k]), NEW scan \in Scan
  PROVE  /\ Append(scans, scan) \in Seq(Scan) /\ Append(scans, scan) # <<>>
         /\ Len(Append(scans, scan)) = Len(scans) + 1 /\ Append(scans, scan)[Len(scans) + 1] = scan
         /\ \A k \in 1..Len(scans) : ScanSound(Append(scans, scan)[k])
         /\ ScanSound(scan) => \A k \in 1..Len(scans) + 1 : ScanSound(Append(scans, scan)[k])
<1> DEFINE p == Append(scans, scan)
<1>1. Len(scans) \in Nat /\ p \in Seq(Scan) /\ p # <<>> /\ Len(p) = Len(scans) + 1
      /\ (\A k \in 1..Len(scans) : p[k] = scans[k]) /\ p[Len(scans) + 1] = scan
  BY LenProperties, AppendProperties
<1> HIDE DEF p
<1>2. \A k \in 1..Len(scans) + 1 : k \in 1..Len(scans) \/ k = Len(scans) + 1
  BY <1>1
<1>3. \A k \in 1..Len(scans) : ScanSound(p[k])
  BY <1>1
<1>4. ScanSound(scan) => \A k \in 1..Len(scans) + 1 : ScanSound(p[k])
  BY <1>1, <1>2, <1>3
<1>5. QED BY <1>1, <1>3, <1>4 DEF p

\* Other scans under the same call.
LEMMA ScansReplaced ==
  ASSUME NEW c \in Call, SaveSound(c), c.at \in {"init", "scan"}, NEW scans \in Seq(Scan),
         \A k \in 1..Len(scans) : ScanSound(scans[k])
  PROVE  /\ Follows(c, [c EXCEPT !.scans = scans]) /\ [c EXCEPT !.scans = scans].scans = scans
         /\ [c EXCEPT !.scans = scans].at = c.at
<1> DEFINE d == [c EXCEPT !.scans = scans]
<1>1. d \in Call /\ d.op = c.op /\ d.at = c.at /\ d.id = c.id /\ d.file = c.file /\ d.scans = scans
  BY DEF Call
<1> HIDE DEF d
<1>2. CallSound(d)
  BY <1>1 DEF CallSound, SaveSound
<1>3. Follows(c, d)
  BY <1>1, <1>2 DEF Follows
<1>4. QED BY <1>1, <1>3 DEF d

LEMMA OpeningSound == Opening \in Scan /\ ScanSound(Opening) /\ <<Opening>> \in Seq(Scan)
                      /\ Len(<<Opening>>) = 1 /\ <<Opening>> # <<>> /\ <<Opening>>[1] = Opening
  BY DEF Opening, Scan, ScanSound, Ahead

LEMMA WithTopSound ==
  ASSUME NEW c \in Call, LowerSound(c), NEW scan \in Scan
  PROVE  /\ WithTop(c, scan) \in Call /\ WithTop(c, scan).op = c.op /\ LowerSound(WithTop(c, scan))
         /\ Top(WithTop(c, scan)) = scan
         /\ ScanSound(scan) => Follows(c, WithTop(c, scan))
<1> DEFINE s == Append(Below(c), scan)
           d == [c EXCEPT !.scans = s]
<1>1. /\ s \in Seq(Scan) /\ s # <<>> /\ Len(s) = Len(c.scans) - 1 + 1 /\ s[Len(c.scans) - 1 + 1] = scan
      /\ \A k \in 1..Len(c.scans) - 1 : ScanSound(s[k])
      /\ ScanSound(scan) => \A k \in 1..Len(c.scans) - 1 + 1 : ScanSound(s[k])
  BY BelowSound, PushSound
<1>2. Len(s) \in Nat /\ Len(c.scans) - 1 = Len(s) - 1 /\ s[Len(s)] = scan
      /\ (ScanSound(scan) => \A k \in 1..Len(s) : ScanSound(s[k]))
  BY <1>1, LenProperties
<1>3. c.at \in {"init", "scan"} /\ SaveSound(c)
  BY DEF LowerSound
<1>4. WithTop(c, scan) = d
  BY DEF WithTop
<1> HIDE DEF s
<1>5. d \in Call /\ d.op = c.op /\ d.at = c.at /\ d.id = c.id /\ d.file = c.file /\ d.scans = s
  BY <1>1 DEF Call
<1>6. ScanSound(scan) => Follows(c, d)
  BY <1>1, <1>2, <1>3, ScansReplaced
<1> HIDE DEF d
<1>7. LowerSound(d)
  BY <1>1, <1>2, <1>3, <1>5 DEF LowerSound, SaveSound
<1>8. QED BY <1>2, <1>4, <1>5, <1>6, <1>7 DEF Top

LEMMA EnterSound ==
  ASSUME NEW c \in Call, SaveSound(c), c.scans = <<>> PROVE Follows(c, Enter(c))
<1>1. c.op \in {"save", "load", "list", "sweep", "remove"} /\ Len(<<>>) = 0
  BY EmptySeq DEF Call
<1>2. CASE c.op \in {"save", "load", "remove"}
  <2> DEFINE at == CASE c.op = "save" -> "check" [] c.op = "load" -> "read" [] c.op = "remove" -> "unlink"
             d == [c EXCEPT !.at = at]
  <2>1. at \in {"check", "read", "unlink"} /\ (at = "check" => c.op = "save")
    BY <1>2
  <2>2. Enter(c) = d
    BY <1>2 DEF Enter
  <2> HIDE DEF at
  <2>3. d \in Call /\ d.op = c.op /\ d.at = at /\ d.id = c.id /\ d.file = c.file /\ d.scans = <<>>
    BY <2>1 DEF Call
  <2> HIDE DEF d
  <2>4. CallSound(d)
    BY <1>1, <2>1, <2>3 DEF CallSound, SaveSound
  <2>5. QED BY <2>1, <2>2, <2>3, <2>4 DEF Follows
<1>3. CASE c.op \in {"list", "sweep"}
  <2> DEFINE scan == [Opening EXCEPT !.for = c.op, !.at = "dir"]
             d == [c EXCEPT !.at = "scan", !.scans = <<scan>>]
  <2>1. scan \in Scan /\ ScanSound(scan)
    BY <1>3 DEF Opening, Scan, ScanSound, Ahead
  <2> HIDE DEF scan
  <2>2. <<scan>> \in Seq(Scan) /\ Len(<<scan>>) = 1 /\ <<scan>>[1] = scan
    BY <2>1
  <2>3. Enter(c) = d
    BY <1>3 DEF Enter, scan
  <2>4. d \in Call /\ d.op = c.op /\ d.at = "scan" /\ d.id = c.id /\ d.file = c.file /\ d.scans = <<scan>>
    BY <2>2 DEF Call
  <2> HIDE DEF d
  <2>5. \A k \in 1..Len(d.scans) : ScanSound(d.scans[k])
    BY <2>1, <2>2, <2>4
  <2>6. CallSound(d)
    BY <2>4, <2>5 DEF CallSound, SaveSound
  <2>7. QED BY <2>3, <2>4, <2>6 DEF Follows
<1>4. QED BY <1>1, <1>2, <1>3

LEMMA ReturnSound == ASSUME NEW c \in Call, LowerSound(c) PROVE Follows(c, Return(c))
<1> DEFINE d == [c EXCEPT !.scans = Below(c)]
<1>1. c.at \in {"init", "scan"} /\ SaveSound(c)
      /\ Below(c) \in Seq(Scan) /\ \A k \in 1..Len(Below(c)) : ScanSound(Below(c)[k])
  BY BelowSound DEF LowerSound
<1>2. Follows(c, d) /\ d.at = c.at
  BY <1>1, ScansReplaced
<1>3. Return(c) = CASE d.scans # <<>> -> d
                    [] d.scans = <<>> /\ d.at = "init" -> Enter(d)
                    [] OTHER -> [d EXCEPT !.at = "done"]
  BY DEF Return
<1> HIDE DEF d
<1>4. d \in Call /\ CallSound(d) /\ SaveSound(d) /\ d.op = c.op
  BY <1>2 DEF Follows, CallSound
<1>5. CASE d.scans # <<>>
  BY <1>2, <1>3, <1>5
<1>6. CASE d.scans = <<>> /\ d.at = "init"
  <2>1. Follows(d, Enter(d)) /\ Return(c) = Enter(d)
    BY <1>3, <1>4, <1>6, EnterSound
  <2>2. QED BY <1>4, <2>1 DEF Follows
<1>7. CASE d.scans = <<>> /\ d.at # "init"
  <2> DEFINE e == [d EXCEPT !.at = "done"]
  <2>1. Return(c) = e
    BY <1>3, <1>7
  <2>2. e \in Call /\ e.op = d.op /\ e.at = "done" /\ e.id = d.id /\ e.file = d.file /\ e.scans = d.scans
    BY <1>4 DEF Call
  <2> HIDE DEF e
  <2>3. CallSound(e)
    BY <1>4, <1>7, <2>2 DEF CallSound, SaveSound
  <2>4. QED BY <1>4, <2>1, <2>2, <2>3 DEF Follows
<1>8. QED BY <1>5, <1>6, <1>7

LEMMA HandleSound ==
  ASSUME NEW c \in Call, LowerSound(c), NEW scan \in Scan, ScanSound(scan), NEW ready
  PROVE  Follows(c, Handle(c, scan, ready))
<1> DEFINE d == WithTop(c, scan)
<1>1. Follows(c, d) /\ LowerSound(d)
  BY WithTopSound
<1>2. Handle(c, scan, ready) = IF ready THEN d ELSE [d EXCEPT !.scans = Append(@, Opening)]
  BY DEF Handle
<1> HIDE DEF d
<1>3. CASE ready
  BY <1>1, <1>2, <1>3
<1>4. CASE ~ready
  <2> DEFINE s == Append(d.scans, Opening)
  <2>1. /\ d \in Call /\ SaveSound(d) /\ d.op = c.op /\ d.at \in {"init", "scan"} /\ d.scans \in Seq(Scan)
        /\ \A k \in 1..Len(d.scans) : ScanSound(d.scans[k])
    BY <1>1 DEF Follows, CallSound, LowerSound, Call
  <2>2. s \in Seq(Scan) /\ \A k \in 1..Len(s) : ScanSound(s[k])
    BY <2>1, OpeningSound, PushSound
  <2>3. Handle(c, scan, ready) = [d EXCEPT !.scans = s]
    BY <1>2, <1>4
  <2> HIDE DEF s
  <2>4. Follows(d, [d EXCEPT !.scans = s])
    BY <2>1, <2>2, ScansReplaced
  <2>5. QED BY <2>1, <2>4, <2>3 DEF Follows
<1>5. QED BY <1>3, <1>4

\* Wherever a call goes on to, its scans are about sessions that are over.
LEMMA OnwardSound ==
  ASSUME NEW c \in Call, LowerSound(c), Top(c) \in Scan, Ahead(Top(c)), NEW ready, NEW e \in Onward(c, ready)
  PROVE  Follows(c, e)
<1> DEFINE scan == Top(c)
<1>1. scan \in Scan /\ Ahead(scan)
  OBVIOUS
<1>2. e \in CASE scan.names # {} ->
                   {Handle(c, [scan EXCEPT !.id = id, !.names = @ \ {id}], ready) : id \in scan.names}
              [] scan.names = {} /\ scan.at = "read" /\ scan.for # "list" /\ scan.expired # {} ->
                   {Handle(c, [scan EXCEPT !.at = "unlink", !.id = id, !.names = scan.expired \ {id}], ready) :
                      id \in scan.expired}
              [] OTHER -> {Return(c)}
  BY DEF Onward
<1> HIDE DEF scan
<1>3. CASE scan.names # {}
  <2>1. PICK id \in scan.names : e = Handle(c, [scan EXCEPT !.id = id, !.names = @ \ {id}], ready)
    BY <1>2, <1>3
  <2> DEFINE next == [scan EXCEPT !.id = id, !.names = @ \ {id}]
  <2>2. next \in Scan /\ next.at = scan.at /\ next.id = id /\ next.names \subseteq scan.names
        /\ next.expired = scan.expired /\ id \in Ids
    BY <1>1 DEF Scan
  <2> HIDE DEF next
  <2>3. ScanSound(next)
    BY <1>1, <2>2 DEF ScanSound, Ahead
  <2>4. Follows(c, Handle(c, next, ready))
    BY <2>2, <2>3, HandleSound
  <2>5. QED BY <2>1, <2>4 DEF next
<1>4. CASE scan.names = {} /\ scan.at = "read" /\ scan.for # "list" /\ scan.expired # {}
  <2>1. PICK id \in scan.expired :
          e = Handle(c, [scan EXCEPT !.at = "unlink", !.id = id, !.names = scan.expired \ {id}], ready)
    BY <1>2, <1>4
  <2> DEFINE next == [scan EXCEPT !.at = "unlink", !.id = id, !.names = scan.expired \ {id}]
  <2>2. next \in Scan /\ next.at = "unlink" /\ next.id = id /\ next.names \subseteq scan.expired
        /\ next.expired = scan.expired
    BY <1>1 DEF Scan
  <2> HIDE DEF next
  <2>3. ScanSound(next)
    BY <1>1, <1>4, <2>2 DEF ScanSound, Ahead
  <2>4. Follows(c, Handle(c, next, ready))
    BY <2>2, <2>3, HandleSound
  <2>5. QED BY <2>1, <2>4 DEF next
<1>5. CASE ~(scan.names # {})
           /\ ~(scan.names = {} /\ scan.at = "read" /\ scan.for # "list" /\ scan.expired # {})
  <2>1. e = Return(c)
    BY <1>2, <1>5
  <2>2. QED BY <2>1, ReturnSound
<1>6. QED BY <1>3, <1>4, <1>5

\* A call ends, or it goes on as another.
Moves(c) == calls' = calls \ {c} \/ \E e : Follows(c, e) /\ calls' = (calls \ {c}) \cup {e}

LEMMA BecomesMoves == ASSUME NEW c, NEW e, Follows(c, e), Becomes(c, e) PROVE Moves(c)
<1>1. CASE e.at = "done"
  BY <1>1 DEF Becomes, Moves
<1>2. CASE e.at # "done"
  BY <1>2 DEF Becomes, Moves
<1>3. QED BY <1>1, <1>2

LEMMA GoesMoves ==
  ASSUME NEW c \in Call, NEW d \in Call, d.op = c.op, LowerSound(d), Top(d) \in Scan, Ahead(Top(d)),
         NEW ready, Goes(c, d, ready)
  PROVE  Moves(c)
<1>1. PICK e \in Onward(d, ready) : Becomes(c, e)
  BY DEF Goes
<1>2. Follows(d, e)
  BY OnwardSound
<1>3. Follows(c, e)
  BY <1>2 DEF Follows
<1>4. QED BY <1>1, <1>3, BecomesMoves

\* A set of numbers with a bound has a greatest one.
LEMMA Greatest ==
  ASSUME NEW n \in Nat, NEW T, T \subseteq 1..n, T # {}
  PROVE  \E m \in T : \A k \in T : k <= m
<1> DEFINE R == {p \in Nat \X Nat : p[1] < p[2]}
           U == {n - k : k \in T}
<1>1. IsWellFoundedOn(R, Nat)
  BY NatLessThanWellFounded DEF OpToRel
<1>2. U \subseteq Nat /\ U # {}
  <2>1. \A k \in T : k \in Nat /\ k <= n
    OBVIOUS
  <2>2. \A k \in T : n - k \in Nat
    BY <2>1
  <2>3. QED BY <2>2
<1> HIDE DEF R
<1>3. PICK x \in U : \A y \in U : ~(<<y, x>> \in R)
  BY <1>1, <1>2, WFMin
<1>4. PICK m \in T : x = n - m
  BY <1>3
<1>5. ASSUME NEW k \in T PROVE k <= m
  <2>1. n - k \in U /\ n - k \in Nat /\ n - m \in Nat
    BY <1>2, <1>4
  <2>2. ~(n - k < n - m)
    BY <1>3, <1>4, <2>1 DEF R
  <2>3. QED BY <2>2
<1>6. QED BY <1>5

\* An exception leaves the stack up to the scan that catches it.
LEMMA ThrowMoves ==
  ASSUME TypeOK, NEW c \in Call, CallSound(c), c.scans # <<>>, Throw(c)
  PROVE  Moves(c) /\ initialized' \in BOOLEAN /\ unread' \subseteq Ids
<1> DEFINE catchers == {k \in 1..Len(c.scans) - 1 : c.scans[k].at = "read"}
           caught   == IF catchers = {} THEN 0 ELSE CHOOSE k \in catchers : \A j \in catchers : j <= k
           d        == [c EXCEPT !.scans = SubSeq(@, 1, caught)]
<1>1. /\ initialized' = (initialized /\ \A k \in caught + 1..Len(c.scans) :
                            c.scans[k].for = "open" => c.scans[k].at = "provision")
      /\ IF caught = 0 THEN calls' = calls \ {c} /\ UNCHANGED unread
         ELSE unread' = unread \cup {Top(d).id} /\ Goes(c, d, initialized')
  BY DEF Throw
<1>2. Len(c.scans) \in Nat \ {0} /\ unread \subseteq Ids
  BY EmptySeq DEF Call, TypeOK
<1>3. initialized' \in BOOLEAN
  BY <1>1
<1>4. CASE catchers = {}
  BY <1>1, <1>2, <1>3, <1>4 DEF Moves
<1>5. CASE catchers # {}
  <2>1. \E m \in catchers : \A j \in catchers : j <= m
    <3>1. Len(c.scans) - 1 \in Nat /\ catchers \subseteq 1..Len(c.scans) - 1
      BY <1>2
    <3> HIDE DEF catchers
    <3>2. QED BY <1>5, <3>1, Greatest
  <2>2. caught \in catchers
    <3> HIDE DEF catchers
    <3>1. QED BY <1>5, <2>1
  <2> HIDE DEF caught
  <2>3. caught \in Nat \ {0} /\ caught <= Len(c.scans) /\ c.scans[caught].at = "read"
        /\ caught \in 1..Len(c.scans)
    BY <1>2, <2>2
  <2> HIDE DEF catchers
  <2> DEFINE s == SubSeq(c.scans, 1, caught)
  <2>4. \A k \in 1..caught : ScanSound(c.scans[k])
    BY <1>2, <2>3 DEF CallSound
  <2>5. /\ s \in Seq(Scan) /\ Len(s) = caught
        /\ \A k \in 1..caught : s[k] = c.scans[k] /\ ScanSound(s[k])
    BY <2>3, <2>4, CutSound
  <2>6. c.at \in {"init", "scan"} /\ SaveSound(c)
    BY DEF CallSound
  <2> HIDE DEF s
  <2>7. Follows(c, [c EXCEPT !.scans = s]) /\ [c EXCEPT !.scans = s].scans = s
    BY <2>5, <2>6, ScansReplaced
  <2>8. d = [c EXCEPT !.scans = s]
    BY DEF s
  <2> HIDE DEF d
  <2>9. d \in Call /\ CallSound(d) /\ d.op = c.op /\ d.scans = s
    BY <2>7, <2>8 DEF Follows
  <2>10. s # <<>>
    BY <2>3, <2>5, EmptySeq
  <2>11. Top(d) \in Scan /\ ScanSound(Top(d)) /\ LowerSound(d)
    BY <2>9, <2>10, TopSound
  <2>12. Top(d) = c.scans[caught]
    BY <2>3, <2>5, <2>9 DEF Top
  <2>13. Top(d).id \in Ids /\ Ahead(Top(d))
    BY <2>3, <2>11, <2>12 DEF ScanSound
  <2>14. unread' = unread \cup {Top(d).id} /\ Goes(c, d, initialized')
    BY <1>1, <2>3
  <2>15. PICK ready \in BOOLEAN : ready = initialized'
    BY <1>3
  <2>16. Goes(c, d, ready)
    BY <2>14, <2>15
  <2>17. Moves(c)
    BY <2>9, <2>11, <2>13, <2>16, GoesMoves
  <2>18. QED BY <1>2, <1>3, <2>13, <2>14, <2>17
<1>6. QED BY <1>4, <1>5

-----------------------------------------------------------------------------
(* Steps of a call *)

\* What stays over stays so, as long as nothing else is written.
LEMMA SoundKept ==
  ASSUME NEW c, CallSound(c), \A id : Over(id) => Over(id)' PROVE CallSound(c)'
<1>1. \A scan : ScanSound(scan) => ScanSound(scan)'
  BY DEF ScanSound, Ahead
<1>2. QED BY <1>1 DEF CallSound, SaveSound

LEMMA OverKept == ASSUME UNCHANGED <<disk, clock, saved>>, NEW id, Over(id) PROVE Over(id)'
  BY DEF Over, Expired

\* A call becomes another one.
LEMMA CallsReplaced ==
  ASSUME IInv, NEW c \in calls, NEW e \in Call, CallSound(e),
         calls' = (calls \ {c}) \cup {e}, \A id : Over(id) => Over(id)'
  PROVE  CallsSound' /\ calls' \subseteq Call /\ Cardinality(calls') <= MaxCalls
<1>1. IsFiniteSet(calls) /\ (\A d \in calls : CallSound(d))
      /\ calls \subseteq Call /\ Cardinality(calls) <= MaxCalls
  BY DEF IInv, CallsSound, TypeOK
<1>2. IsFiniteSet(calls \ {c}) /\ Cardinality(calls \ {c}) = Cardinality(calls) - 1
      /\ Cardinality(calls) \in Nat
  BY <1>1, FS_RemoveElement, FS_CardinalityType
<1> DEFINE rest == calls \ {c}
<1>3. IsFiniteSet(calls') /\ Cardinality(calls') \in {Cardinality(calls) - 1, Cardinality(calls) - 1 + 1}
  <2>1. IsFiniteSet(rest) /\ Cardinality(rest) = Cardinality(calls) - 1 /\ calls' = rest \cup {e}
    BY <1>2
  <2> HIDE DEF rest
  <2>2. IsFiniteSet(rest \cup {e})
        /\ Cardinality(rest \cup {e}) = IF e \in rest THEN Cardinality(rest) ELSE Cardinality(rest) + 1
    BY <2>1, FS_AddElement
  <2>3. QED BY <2>1, <2>2
<1>4. Cardinality(calls') <= MaxCalls
  BY <1>1, <1>2, <1>3, StoreConstants
<1>5. \A d \in calls' : CallSound(d)'
  BY <1>1, SoundKept
<1>6. QED BY <1>1, <1>3, <1>4, <1>5 DEF CallsSound

LEMMA CallsEnded ==
  ASSUME IInv, NEW c \in calls, calls' = calls \ {c}
  PROVE  /\ IsFiniteSet(calls') /\ calls' \subseteq Call /\ Cardinality(calls') <= MaxCalls
         /\ (\A id : Over(id) => Over(id)') => CallsSound'
<1>1. IsFiniteSet(calls) /\ (\A d \in calls : CallSound(d))
      /\ calls \subseteq Call /\ Cardinality(calls) <= MaxCalls
  BY DEF IInv, CallsSound, TypeOK
<1>2. IsFiniteSet(calls') /\ Cardinality(calls') = Cardinality(calls) - 1 /\ Cardinality(calls) \in Nat
  BY <1>1, FS_RemoveElement, FS_CardinalityType
<1>3. Cardinality(calls') <= MaxCalls
  BY <1>1, <1>2, StoreConstants
<1>4. (\A id : Over(id) => Over(id)') => \A d \in calls' : CallSound(d)'
  BY <1>1, SoundKept
<1>5. QED BY <1>1, <1>2, <1>3, <1>4 DEF CallsSound

\* After a step of a call, only calls that were there before are about to write.
LEMMA CallsMoved ==
  ASSUME IInv, NEW c \in calls, Moves(c), \A id : Over(id) => Over(id)'
  PROVE  /\ CallsSound' /\ calls' \subseteq Call /\ Cardinality(calls') <= MaxCalls
         /\ LateCalls' \subseteq LateCalls
<1>1. CASE calls' = calls \ {c}
  <2>1. LateCalls' \subseteq LateCalls
    BY <1>1 DEF LateCalls, LateOf, Late
  <2>2. QED BY <1>1, <2>1, CallsEnded
<1>2. ASSUME NEW e, Follows(c, e), calls' = (calls \ {c}) \cup {e} PROVE
      /\ CallsSound' /\ calls' \subseteq Call /\ Cardinality(calls') <= MaxCalls
      /\ LateCalls' \subseteq LateCalls
  <2>1. e \in Call /\ CallSound(e) /\ e.at \notin {"write", "rename"}
    BY <1>2 DEF Follows
  <2>2. LateCalls' \subseteq LateCalls
    BY <1>2, <2>1 DEF LateCalls, LateOf, Late
  <2>3. QED BY <1>2, <2>1, <2>2, CallsReplaced
<1>3. QED BY <1>1, <1>2 DEF Moves

-----------------------------------------------------------------------------
(* Room *)

\* Each late save takes one name at most.
LEMMA Sizes ==
  ASSUME NEW cs, IsFiniteSet(cs), NEW names, IsFiniteSet(names)
  PROVE  /\ IsFiniteSet(LateOf(cs)) /\ IsFiniteSet(TakenBy(names, cs))
         /\ Cardinality(LateOf(cs)) \in Nat /\ Cardinality(TakenBy(names, cs)) \in Nat
         /\ Cardinality(names) \in Nat
         /\ Cardinality(LateOf(cs)) <= Cardinality(cs)
         /\ Cardinality(names) <= Cardinality(TakenBy(names, cs))
         /\ Cardinality(TakenBy(names, cs)) <= Cardinality(names) + Cardinality(LateOf(cs))
<1> DEFINE late == LateOf(cs)
           targets == {c.id : c \in late}
<1>1. IsFiniteSet(late) /\ Cardinality(late) <= Cardinality(cs)
  BY FS_Subset DEF LateOf
<1>2. TakenBy(names, cs) = names \cup targets
  BY DEF TakenBy
<1> HIDE DEF late
<1>3. IsFiniteSet(targets) /\ Cardinality(targets) <= Cardinality(late)
  <2> DEFINE f == [c \in late |-> c.id]
  <2>1. f \in Surjection(late, targets)
    BY DEF Surjection
  <2> HIDE DEF f
  <2>2. QED BY <1>1, <2>1, FS_Surjection
<1> HIDE DEF targets
<1>4. /\ IsFiniteSet(names \cup targets)
      /\ Cardinality(names \cup targets) =
           Cardinality(names) + Cardinality(targets) - Cardinality(names \cap targets)
  BY <1>3, FS_Union
<1>5. IsFiniteSet(names \cap targets)
  BY <1>3, FS_Subset
<1>6. Cardinality(names) <= Cardinality(names \cup targets)
  BY <1>4, FS_Subset
<1>7. /\ Cardinality(names) \in Nat /\ Cardinality(targets) \in Nat /\ Cardinality(late) \in Nat
      /\ Cardinality(names \cup targets) \in Nat /\ Cardinality(names \cap targets) \in Nat
  BY <1>1, <1>3, <1>4, <1>5, FS_CardinalityType
<1>8. Cardinality(names \cup targets) <= Cardinality(names) + Cardinality(late)
  BY <1>3, <1>4, <1>7
<1>9. QED BY <1>1, <1>2, <1>4, <1>6, <1>7, <1>8 DEF late

\* The same of a state that satisfies the invariant.
LEMMA RoomSizes ==
  ASSUME IInv
  PROVE  /\ IsFiniteSet(LateCalls) /\ IsFiniteSet(Taken) /\ IsFiniteSet(DOMAIN disk)
         /\ Cardinality(LateCalls) \in Nat /\ Cardinality(Taken) \in Nat /\ Cardinality(DOMAIN disk) \in Nat
         /\ Cardinality(LateCalls) <= overlap /\ Cardinality(Taken) <= Limit + Excess
         /\ Cardinality(DOMAIN disk) <= Cardinality(Taken)
         /\ overlap \in Nat /\ Excess \in Nat
  BY Sizes, Types DEF IInv, Room, CallsSound, LateCalls, Taken

\* No name more is taken, and no save more is late.
LEMMA RoomKept ==
  ASSUME IInv, Taken' \subseteq Taken, IsFiniteSet(LateCalls'),
         Cardinality(LateCalls') <= Cardinality(LateCalls), overlap' = overlap
  PROVE  Room'
<1>1. IsFiniteSet(Taken') /\ Cardinality(Taken') <= Cardinality(Taken)
  BY RoomSizes, FS_Subset
<1>2. IsFiniteSet(DOMAIN disk')
  BY <1>1, FS_Subset DEF Taken, TakenBy
<1>3. Excess' = Excess
  BY DEF Excess
<1>4. /\ Cardinality(LateCalls') \in Nat /\ Cardinality(Taken') \in Nat
  BY <1>1, FS_CardinalityType
<1>5. Cardinality(LateCalls') <= overlap' /\ Cardinality(Taken') <= Limit + Excess'
  BY <1>1, <1>3, <1>4, RoomSizes, StoreConstants
<1>6. QED BY <1>2, <1>5 DEF Room

\* A call that is not about to write moves, and no file comes.
LEMMA RoomMoved ==
  ASSUME IInv, LateCalls' \subseteq LateCalls, DOMAIN disk' \subseteq DOMAIN disk, overlap' = overlap
  PROVE  Room'
<1>1. Taken' \subseteq Taken
  BY DEF Taken, TakenBy, LateCalls
<1>2. IsFiniteSet(LateCalls') /\ Cardinality(LateCalls') <= Cardinality(LateCalls)
  BY RoomSizes, FS_Subset
<1>3. QED BY <1>1, <1>2, RoomKept

LEMMA MovesKeep ==
  ASSUME IInv, NEW c \in calls, Moves(c), UNCHANGED <<disk, clock, requests, overlap, saved>>,
         initialized' \in BOOLEAN, unread' \subseteq Ids
  PROVE  IInv'
<1>1. /\ CallsSound' /\ calls' \subseteq Call /\ Cardinality(calls') <= MaxCalls
      /\ LateCalls' \subseteq LateCalls
  BY CallsMoved, OverKept
<1>2. TypeOK'
  BY <1>1 DEF IInv, TypeOK
<1>3. Room'
  BY <1>1, RoomMoved
<1>4. Durable'
  BY DEF IInv, Durable
<1>5. QED BY <1>1, <1>2, <1>3, <1>4 DEF IInv

\* A file of which nothing is promised is removed.
LEMMA FileGone ==
  ASSUME IInv, NEW id, disk' = WithoutFile(id), UNCHANGED <<clock, overlap>>,
         saved' = saved \/ saved' = [saved EXCEPT ![id] = 0], id \in Ids => saved'[id] = 0,
         LateCalls' \subseteq LateCalls
  PROVE  /\ disk' \in Disks /\ saved' \in [Ids -> 0..MaxRequests] /\ Room' /\ Durable'
         /\ \A name : Over(name) => Over(name)'
<1>1. disk \in Disks /\ saved \in [Ids -> 0..MaxRequests] /\ 0 \in 0..MaxRequests
  BY StoreConstants DEF IInv, TypeOK
<1>2. /\ disk' \in Disks /\ DOMAIN disk' = DOMAIN disk \ {id}
      /\ \A name \in DOMAIN disk' : disk'[name] = disk[name]
  BY <1>1, WithoutType
<1>3. saved' \in [Ids -> 0..MaxRequests] /\ \A name \in Ids : name # id => saved'[name] = saved[name]
  BY <1>1
<1>4. Room'
  BY <1>2, RoomMoved
<1>5. Durable'
  BY <1>2, <1>3 DEF IInv, Durable
<1>6. \A name : Over(name) => Over(name)'
  BY <1>2, <1>3 DEF Over, Expired
<1>7. QED BY <1>2, <1>3, <1>4, <1>5, <1>6

-----------------------------------------------------------------------------
(* Actions *)

LEMMA ACall ==
  ASSUME IInv, NEW c \in calls
  PROVE  /\ TypeOK /\ c \in Call /\ CallSound(c)
         /\ c.scans # <<>> => Top(c) \in Scan /\ ScanSound(Top(c)) /\ LowerSound(c)
<1>1. TypeOK /\ c \in Call /\ CallSound(c)
  BY DEF IInv, TypeOK, CallsSound
<1>2. QED BY <1>1, TopSound

LEMMA ProvisionedKeeps == ASSUME IInv, NEW c \in calls, Provisioned(c) PROVE IInv'
<1>1. /\ c.scans # <<>> /\ Top(c).at = "provision" /\ initialized' = TRUE
      /\ Becomes(c, WithTop(c, [Top(c) EXCEPT !.at = "dir"]))
      /\ UNCHANGED <<disk, clock, requests, overlap, saved, unread>>
  BY DEF Provisioned, Scanning
<1>2. TypeOK /\ c \in Call /\ Top(c) \in Scan /\ ScanSound(Top(c)) /\ LowerSound(c)
  BY <1>1, ACall
<1> DEFINE scan == [Top(c) EXCEPT !.at = "dir"]
<1>3. scan \in Scan /\ scan.at = "dir" /\ scan.expired = Top(c).expired
  BY <1>2 DEF Scan
<1> HIDE DEF scan
<1>4. ScanSound(scan)
  BY <1>1, <1>2, <1>3 DEF ScanSound, Ahead
<1>5. Follows(c, WithTop(c, scan))
  BY <1>2, <1>3, <1>4, WithTopSound
<1>6. Becomes(c, WithTop(c, scan))
  BY <1>1 DEF scan
<1>7. Moves(c)
  BY <1>5, <1>6, BecomesMoves
<1>8. unread' \subseteq Ids
  BY <1>1, <1>2 DEF TypeOK
<1>9. QED BY <1>1, <1>7, <1>8, MovesKeep

LEMMA DirectoryReadKeeps == ASSUME IInv, NEW c \in calls, DirectoryRead(c) PROVE IInv'
<1>1. /\ c.scans # <<>> /\ Top(c).at = "dir"
      /\ \/ Throw(c)
         \/ /\ Goes(c, WithTop(c, [Top(c) EXCEPT !.at = "read", !.names = DOMAIN disk]), initialized)
            /\ UNCHANGED <<initialized, unread>>
      /\ UNCHANGED <<disk, clock, requests, overlap, saved>>
  BY DEF DirectoryRead, Scanning
<1>2. /\ TypeOK /\ c \in Call /\ CallSound(c) /\ Top(c) \in Scan /\ ScanSound(Top(c)) /\ LowerSound(c)
      /\ initialized \in BOOLEAN /\ unread \subseteq Ids /\ DOMAIN disk \subseteq Ids
  BY <1>1, ACall, DiskElim DEF TypeOK
<1>3. CASE Throw(c)
  <2>1. Moves(c) /\ initialized' \in BOOLEAN /\ unread' \subseteq Ids
    BY <1>1, <1>2, <1>3, ThrowMoves
  <2>2. QED BY <1>1, <2>1, MovesKeep
<1>4. CASE /\ Goes(c, WithTop(c, [Top(c) EXCEPT !.at = "read", !.names = DOMAIN disk]), initialized)
           /\ UNCHANGED <<initialized, unread>>
  <2> DEFINE scan == [Top(c) EXCEPT !.at = "read", !.names = DOMAIN disk]
  <2>1. scan \in Scan /\ scan.at = "read" /\ scan.expired = Top(c).expired
    BY <1>2 DEF Scan
  <2> HIDE DEF scan
  <2>2. Ahead(scan)
    BY <1>1, <1>2, <2>1 DEF ScanSound, Ahead
  <2> DEFINE d == WithTop(c, scan)
  <2>3. d \in Call /\ d.op = c.op /\ LowerSound(d) /\ Top(d) = scan
    BY <1>2, <2>1, WithTopSound
  <2>4. Goes(c, d, initialized)
    BY <1>4 DEF scan
  <2> HIDE DEF d
  <2>5. Moves(c)
    BY <1>2, <2>1, <2>2, <2>3, <2>4, GoesMoves
  <2>6. QED BY <1>1, <1>2, <1>4, <2>5, MovesKeep
<1>5. QED BY <1>1, <1>3, <1>4

LEMMA ExpiredIsOver ==
  ASSUME IInv, NEW id, Expired(id) PROVE Over(id)
<1>1. id \in DOMAIN disk /\ disk \in Disks
  BY DEF IInv, TypeOK, Expired
<1>2. id \in Ids
  BY <1>1, DiskElim
<1>3. QED BY <1>2 DEF Over

LEMMA FileReadKeeps == ASSUME IInv, NEW c \in calls, FileRead(c) PROVE IInv'
<1>1. /\ c.scans # <<>> /\ Top(c).at = "read"
      /\ UNCHANGED <<disk, initialized, clock, requests, overlap, saved>>
      /\ \/ /\ Goes(c, WithTop(c, [Top(c) EXCEPT
                         !.expired = IF Top(c).for # "list" /\ Expired(Top(c).id)
                                     THEN @ \cup {Top(c).id} ELSE @]), initialized)
            /\ UNCHANGED unread
         \/ unread' = unread \cup {Top(c).id} /\ Goes(c, c, initialized)
  BY DEF FileRead, Scanning, Noted
<1>2. /\ TypeOK /\ c \in Call /\ CallSound(c) /\ Top(c) \in Scan /\ ScanSound(Top(c)) /\ LowerSound(c)
      /\ initialized \in BOOLEAN /\ unread \subseteq Ids
  BY <1>1, ACall DEF TypeOK
<1>3. Top(c).id \in Ids /\ Ahead(Top(c))
  BY <1>1, <1>2 DEF ScanSound
<1>4. CASE /\ Goes(c, WithTop(c, [Top(c) EXCEPT
                       !.expired = IF Top(c).for # "list" /\ Expired(Top(c).id)
                                     THEN @ \cup {Top(c).id} ELSE @]), initialized)
           /\ UNCHANGED unread
  <2> DEFINE expired == IF Top(c).for # "list" /\ Expired(Top(c).id) THEN Top(c).expired \cup {Top(c).id} ELSE Top(c).expired
             scan    == [Top(c) EXCEPT !.expired = expired]
  <2>1. Goes(c, WithTop(c, scan), initialized)
    BY <1>4
  <2>2. expired \subseteq Ids /\ \A id \in expired : Over(id)
    BY <1>1, <1>2, <1>3, ExpiredIsOver DEF Scan, Ahead
  <2> HIDE DEF expired
  <2>3. scan \in Scan /\ scan.at = "read" /\ scan.expired = expired
    BY <1>1, <1>2, <2>2 DEF Scan
  <2> HIDE DEF scan
  <2>4. Ahead(scan)
    BY <2>2, <2>3 DEF Ahead
  <2> DEFINE d == WithTop(c, scan)
  <2>5. d \in Call /\ d.op = c.op /\ LowerSound(d) /\ Top(d) = scan
    BY <1>2, <2>3, WithTopSound
  <2>6. Goes(c, d, initialized)
    BY <2>1
  <2> HIDE DEF d
  <2>7. Moves(c)
    BY <1>2, <2>3, <2>4, <2>5, <2>6, GoesMoves
  <2>8. QED BY <1>1, <1>2, <1>4, <2>7, MovesKeep
<1>5. CASE unread' = unread \cup {Top(c).id} /\ Goes(c, c, initialized)
  <2>1. Moves(c)
    BY <1>2, <1>3, <1>5, GoesMoves
  <2>2. QED BY <1>1, <1>2, <1>3, <1>5, <2>1, MovesKeep
<1>6. QED BY <1>1, <1>4, <1>5

LEMMA ScanFailsKeeps == ASSUME IInv, NEW c \in calls, ScanFails(c) PROVE IInv'
<1>1. c.scans # <<>> /\ Throw(c) /\ UNCHANGED <<disk, clock, requests, overlap, saved>>
  BY DEF ScanFails, Scanning
<1>2. TypeOK /\ c \in Call /\ CallSound(c)
  BY ACall
<1>3. Moves(c) /\ initialized' \in BOOLEAN /\ unread' \subseteq Ids
  BY <1>1, <1>2, ThrowMoves
<1>4. QED BY <1>1, <1>3, MovesKeep

\* The file a sweep removes has expired, or nothing was promised of it.
LEMMA ExpiredUnlinkedKeeps == ASSUME IInv, NEW c \in calls, ExpiredUnlinked(c) PROVE IInv'
<1> DEFINE gone == Top(c).id
<1>1. /\ c.scans # <<>> /\ Top(c).at = "unlink" /\ disk' = WithoutFile(gone)
      /\ saved' = (IF Expired(gone) THEN [saved EXCEPT ![gone] = 0] ELSE saved)
      /\ Goes(c, c, initialized) /\ UNCHANGED <<initialized, clock, requests, overlap, unread>>
  BY DEF ExpiredUnlinked, Scanning
<1>2. /\ TypeOK /\ c \in Call /\ CallSound(c) /\ Top(c) \in Scan /\ ScanSound(Top(c)) /\ LowerSound(c)
      /\ initialized \in BOOLEAN /\ unread \subseteq Ids /\ saved \in [Ids -> 0..MaxRequests]
  BY <1>1, ACall DEF TypeOK
<1>3. Over(gone) /\ Ahead(Top(c))
  BY <1>1, <1>2 DEF ScanSound
<1>4. Moves(c)
  BY <1>1, <1>2, <1>3, GoesMoves
<1> HIDE DEF gone
<1>5. gone \in Ids => saved'[gone] = 0
  BY <1>1, <1>2, <1>3 DEF Over
<1>6. LateCalls' \subseteq LateCalls
  BY <1>4 DEF Moves, Follows, LateCalls, LateOf, Late
<1>7. /\ disk' \in Disks /\ saved' \in [Ids -> 0..MaxRequests] /\ Room' /\ Durable'
      /\ \A name : Over(name) => Over(name)'
  BY <1>1, <1>5, <1>6, FileGone
<1>8. CallsSound' /\ calls' \subseteq Call /\ Cardinality(calls') <= MaxCalls
  BY <1>4, <1>7, CallsMoved
<1>9. TypeOK'
  BY <1>1, <1>2, <1>7, <1>8 DEF TypeOK
<1>10. QED BY <1>7, <1>8, <1>9 DEF IInv

\* A save that finds room takes a name; whoever else is late has taken no more than one each.
LEMMA CheckedKeeps == ASSUME IInv, NEW c \in calls, Checked(c) PROVE IInv'
<1>1. /\ c.at = "check" /\ c.scans = <<>>
      /\ UNCHANGED <<disk, initialized, clock, requests, saved, unread>>
      /\ overlap' = IF Cardinality(LateCalls') > overlap THEN Cardinality(LateCalls') ELSE overlap
      /\ calls' = (calls \ {c}) \cup
           IF c.id \notin DOMAIN disk /\ Cardinality(DOMAIN disk) >= Limit THEN {} ELSE {[c EXCEPT !.at = "write"]}
  BY DEF Checked, At, Overlapping, LateCalls, LateOf
<1>2. TypeOK /\ c \in Call /\ CallSound(c) /\ calls \subseteq Call
  BY ACall DEF TypeOK
<1>3. CASE c.id \notin DOMAIN disk /\ Cardinality(DOMAIN disk) >= Limit
  <2>1. calls' = calls \ {c}
    BY <1>1, <1>3
  <2>2. Moves(c)
    BY <2>1 DEF Moves
  <2>3. LateCalls' \subseteq LateCalls
    BY <2>1 DEF LateCalls, LateOf, Late
  <2>4. IsFiniteSet(LateCalls') /\ Cardinality(LateCalls') <= Cardinality(LateCalls)
        /\ Cardinality(LateCalls') \in Nat
    BY <2>3, RoomSizes, FS_Subset, FS_CardinalityType
  <2>5. overlap' = overlap
    BY <1>1, <2>4, RoomSizes
  <2>6. initialized' \in BOOLEAN /\ unread' \subseteq Ids
    BY <1>1, <1>2 DEF TypeOK
  <2>7. QED BY <1>1, <2>2, <2>5, <2>6, MovesKeep
<1>4. CASE ~(c.id \notin DOMAIN disk /\ Cardinality(DOMAIN disk) >= Limit)
  <2> DEFINE e == [c EXCEPT !.at = "write"]
  <2>1. calls' = (calls \ {c}) \cup {e}
    BY <1>1, <1>4
  <2>2. e \in Call /\ e.op = c.op /\ e.at = "write" /\ e.id = c.id /\ e.file = c.file /\ e.scans = <<>>
    BY <1>1, <1>2 DEF Call
  <2> HIDE DEF e
  <2>3. CallSound(e)
    BY <1>1, <1>2, <2>2, EmptySeq DEF CallSound, SaveSound
  <2>4. CallsSound' /\ calls' \subseteq Call /\ Cardinality(calls') <= MaxCalls
    BY <1>1, <2>1, <2>2, <2>3, CallsReplaced, OverKept
  <2>5. /\ IsFiniteSet(calls') /\ IsFiniteSet(DOMAIN disk') /\ DOMAIN disk' = DOMAIN disk
        /\ Cardinality(calls') \in Nat
    BY <1>1, <2>4, RoomSizes, FS_CardinalityType DEF CallsSound
  <2>6. /\ IsFiniteSet(LateCalls') /\ IsFiniteSet(Taken')
        /\ Cardinality(LateCalls') \in Nat /\ Cardinality(Taken') \in Nat /\ Cardinality(DOMAIN disk') \in Nat
        /\ Cardinality(LateCalls') <= Cardinality(calls')
        /\ Cardinality(Taken') <= Cardinality(DOMAIN disk') + Cardinality(LateCalls')
    BY <2>5, Sizes DEF LateCalls, Taken
  <2>7. overlap \in Nat /\ overlap' \in Nat /\ overlap' \in 0..MaxCalls
        /\ overlap <= overlap' /\ Cardinality(LateCalls') <= overlap'
    BY <1>1, <1>2, <2>4, <2>5, <2>6, StoreConstants DEF TypeOK
  <2>8. Excess \in Nat /\ Excess' \in Nat /\ Excess <= Excess' /\ overlap' - 1 <= Excess'
    <3>1. ASSUME NEW m \in Nat, NEW n \in Nat, m <= n
          PROVE  LET Above(k) == IF k > 1 THEN k - 1 ELSE 0
                 IN  Above(m) \in Nat /\ Above(n) \in Nat /\ Above(m) <= Above(n) /\ n - 1 <= Above(n)
      BY <3>1
    <3>2. QED BY <2>7, <3>1 DEF Excess
  <2>9. Cardinality(Taken') <= Limit + Excess'
    <3>1. CASE c.id \in DOMAIN disk
      <4>1. Taken' \subseteq Taken
        BY <2>1, <2>2, <2>5, <3>1 DEF Taken, TakenBy, LateOf
      <4>2. Cardinality(Taken') <= Cardinality(Taken)
        BY <4>1, RoomSizes, FS_Subset
      <4>3. QED BY <2>6, <2>8, <4>2, RoomSizes, StoreConstants
    <3>2. CASE c.id \notin DOMAIN disk
      <4>1. Cardinality(DOMAIN disk') <= Limit - 1
        BY <1>4, <2>5, <3>2, RoomSizes, StoreConstants
      <4>2. ASSUME NEW taken \in Nat, NEW files \in Nat, NEW late \in Nat, NEW most \in Nat, NEW more \in Nat,
                   taken <= files + late, files <= Limit - 1, late <= most, most - 1 <= more
            PROVE  taken <= Limit + more
        BY <4>2, StoreConstants
      <4>3. QED BY <2>6, <2>7, <2>8, <4>1, <4>2
    <3>3. QED BY <3>1, <3>2
  <2>10. Room'
    BY <2>5, <2>7, <2>9 DEF Room
  <2>11. TypeOK'
    BY <1>1, <1>2, <2>4, <2>7 DEF TypeOK
  <2>12. Durable'
    BY <1>1 DEF IInv, Durable
  <2>13. QED BY <2>4, <2>10, <2>11, <2>12 DEF IInv
<1>5. QED BY <1>3, <1>4

LEMMA WrittenKeeps == ASSUME IInv, NEW c \in calls, Written(c) PROVE IInv'
<1>1. /\ c.at = "write" /\ c.scans = <<>> /\ calls' = (calls \ {c}) \cup {[c EXCEPT !.at = "rename"]}
      /\ UNCHANGED <<disk, initialized, clock, requests, overlap, saved, unread>>
  BY DEF Written, At
<1>2. TypeOK /\ c \in Call /\ CallSound(c)
  BY ACall
<1> DEFINE e == [c EXCEPT !.at = "rename"]
<1>3. e \in Call /\ e.op = c.op /\ e.at = "rename" /\ e.id = c.id /\ e.file = c.file /\ e.scans = <<>>
  BY <1>1, <1>2 DEF Call
<1>4. calls' = (calls \ {c}) \cup {e}
  BY <1>1
<1> HIDE DEF e
<1>5. CallSound(e)
  BY <1>1, <1>2, <1>3, EmptySeq DEF CallSound, SaveSound
<1>6. CallsSound' /\ calls' \subseteq Call /\ Cardinality(calls') <= MaxCalls
  BY <1>1, <1>3, <1>4, <1>5, CallsReplaced, OverKept
<1>7. TypeOK'
  BY <1>1, <1>2, <1>6 DEF TypeOK
<1>8. LateCalls' = (LateCalls \ {c}) \cup {e} /\ c \in LateCalls
  BY <1>1, <1>3, <1>4 DEF LateCalls, LateOf, Late
<1>9. Taken' \subseteq Taken
  BY <1>1, <1>3, <1>8 DEF Taken, TakenBy, LateCalls
<1>10. IsFiniteSet(LateCalls') /\ Cardinality(LateCalls') <= Cardinality(LateCalls)
  <2> DEFINE rest == LateCalls \ {c}
  <2>1. IsFiniteSet(rest) /\ Cardinality(rest) = Cardinality(LateCalls) - 1 /\ LateCalls' = rest \cup {e}
    BY <1>8, RoomSizes, FS_RemoveElement
  <2> HIDE DEF rest
  <2>2. IsFiniteSet(rest \cup {e})
        /\ Cardinality(rest \cup {e}) = IF e \in rest THEN Cardinality(rest) ELSE Cardinality(rest) + 1
    BY <2>1, FS_AddElement
  <2>3. QED BY <2>1, <2>2, RoomSizes
<1>11. Room'
  BY <1>1, <1>9, <1>10, RoomKept
<1>12. Durable'
  BY <1>1 DEF IInv, Durable
<1>13. QED BY <1>6, <1>7, <1>11, <1>12 DEF IInv

\* A rename fills the name its save has taken.  A scan that had found the session expired
\* goes on to remove the file, but then nothing is promised of it.
LEMMA RenamedKeeps == ASSUME IInv, NEW c \in calls, Renamed(c) PROVE IInv'
<1>1. /\ c.at = "rename" /\ c.scans = <<>> /\ disk' = With(c.id, c.file)
      /\ saved' = [saved EXCEPT ![c.id] = IF Condemned(c.id) THEN 0 ELSE c.file.version]
      /\ calls' = calls \ {c} /\ UNCHANGED <<initialized, clock, requests, overlap, unread>>
  BY DEF Renamed, At
<1>2. TypeOK /\ c \in Call /\ CallSound(c) /\ disk \in Disks /\ saved \in [Ids -> 0..MaxRequests]
  BY ACall DEF TypeOK
<1>3. c.id \in Ids
  BY <1>1, <1>2 DEF CallSound, SaveSound
<1>4. c.file \in Snapshot /\ c.file.version \in 0..MaxRequests /\ 0 \in 0..MaxRequests
  BY <1>2, StoreConstants DEF Call, Snapshot
<1>5. /\ disk' \in Disks /\ DOMAIN disk' = DOMAIN disk \cup {c.id} /\ disk'[c.id] = c.file
      /\ \A name \in DOMAIN disk : name # c.id => disk'[name] = disk[name]
  BY <1>1, <1>2, <1>3, <1>4, WithType
<1>6. /\ saved' \in [Ids -> 0..MaxRequests]
      /\ saved'[c.id] = (IF Condemned(c.id) THEN 0 ELSE c.file.version)
      /\ \A id \in Ids : id # c.id => saved'[id] = saved[id]
  BY <1>1, <1>2, <1>3, <1>4
<1>7. IsFiniteSet(calls') /\ calls' \subseteq Call /\ Cardinality(calls') <= MaxCalls
  BY <1>1, CallsEnded
<1>8. TypeOK'
  BY <1>1, <1>2, <1>5, <1>6, <1>7 DEF TypeOK
<1>9. \A id : Over(id) /\ id # c.id => Over(id)'
  BY <1>1, <1>5, <1>6 DEF Over, Expired
<1>10. Condemned(c.id) => Over(c.id)'
  BY <1>3, <1>6 DEF Over
<1>11. ASSUME NEW d \in calls, NEW k \in 1..Len(d.scans), ScanSound(d.scans[k]) PROVE ScanSound(d.scans[k])'
  <2>1. c.id \in Doomed(d.scans[k]) => Condemned(c.id)
    BY DEF Condemned
  <2>2. QED BY <1>9, <1>10, <1>11, <2>1 DEF ScanSound, Ahead, Doomed
<1>12. CallsSound'
  <2>1. \A d \in calls' : CallSound(d) /\ d \in calls
    BY <1>1 DEF IInv, CallsSound
  <2>2. ASSUME NEW d \in calls' PROVE CallSound(d)'
    BY <1>11, <2>1 DEF CallSound, SaveSound
  <2>3. QED BY <1>7, <2>2 DEF CallsSound
<1>13. c \in LateCalls /\ LateCalls' \subseteq LateCalls
  BY <1>1 DEF LateCalls, LateOf, Late
<1>14. Taken' \subseteq Taken
  BY <1>5, <1>13 DEF Taken, TakenBy, LateCalls
<1>15. IsFiniteSet(LateCalls') /\ Cardinality(LateCalls') <= Cardinality(LateCalls)
  BY <1>13, RoomSizes, FS_Subset
<1>16. Room'
  BY <1>1, <1>14, <1>15, RoomKept
<1>17. Durable'
  BY <1>5, <1>6 DEF IInv, Durable
<1>18. QED BY <1>8, <1>12, <1>16, <1>17 DEF IInv

LEMMA RemovedKeeps == ASSUME IInv, NEW c \in calls, Removed(c) PROVE IInv'
<1>1. /\ disk' = WithoutFile(c.id) /\ saved' = [saved EXCEPT ![c.id] = 0]
      /\ calls' = calls \ {c} /\ UNCHANGED <<initialized, clock, requests, overlap, unread>>
  BY DEF Removed
<1>2. TypeOK /\ saved \in [Ids -> 0..MaxRequests]
  BY DEF IInv, TypeOK
<1>3. c.id \in Ids => saved'[c.id] = 0
  BY <1>1, <1>2
<1>4. LateCalls' \subseteq LateCalls
  BY <1>1 DEF LateCalls, LateOf, Late
<1>5. /\ disk' \in Disks /\ saved' \in [Ids -> 0..MaxRequests] /\ Room' /\ Durable'
      /\ \A name : Over(name) => Over(name)'
  BY <1>1, <1>3, <1>4, FileGone
<1>6. CallsSound' /\ calls' \subseteq Call /\ Cardinality(calls') <= MaxCalls
  BY <1>1, <1>5, CallsEnded
<1>7. TypeOK'
  BY <1>1, <1>2, <1>5, <1>6 DEF TypeOK
<1>8. QED BY <1>5, <1>6, <1>7 DEF IInv

LEMMA CallEndsKeeps == ASSUME IInv, NEW c \in calls, CallEnds(c) PROVE IInv'
<1>1. calls' = calls \ {c} /\ UNCHANGED <<disk, initialized, clock, requests, overlap, saved, unread>>
  BY DEF CallEnds
<1>2. Moves(c)
  BY <1>1 DEF Moves
<1>3. initialized' \in BOOLEAN /\ unread' \subseteq Ids
  BY <1>1 DEF IInv, TypeOK
<1>4. QED BY <1>1, <1>2, <1>3, MovesKeep

LEMMA CrashKeeps == ASSUME IInv, Crash PROVE IInv'
<1>1. calls' = {} /\ initialized' = FALSE /\ unread' = {}
      /\ UNCHANGED <<disk, clock, requests, overlap, saved>>
  BY DEF Crash
<1>2. IsFiniteSet({}) /\ Cardinality({}) = 0 /\ 0 <= MaxCalls
  BY FS_EmptySet, StoreConstants
<1>3. TypeOK'
  BY <1>1, <1>2 DEF IInv, TypeOK
<1>4. CallsSound'
  BY <1>1, <1>2 DEF CallsSound
<1>5. LateCalls' \subseteq LateCalls
  BY <1>1 DEF LateCalls, LateOf
<1>6. Room'
  BY <1>1, <1>5, RoomMoved
<1>7. QED BY <1>1, <1>3, <1>4, <1>6 DEF IInv, Durable

LEMMA TickKeeps == ASSUME IInv, Tick PROVE IInv'
<1>1. /\ calls = {} /\ clock < MaxClock /\ clock' = clock + 1 /\ unread' = {}
      /\ UNCHANGED <<disk, initialized, calls, requests, overlap, saved>>
  BY DEF Tick
<1>2. TypeOK /\ clock \in 0..MaxClock
  BY DEF IInv, TypeOK
<1>3. TypeOK'
  <2>1. clock' \in 0..MaxClock
    BY <1>1, <1>2, StoreConstants
  <2>2. QED BY <1>1, <1>2, <2>1 DEF TypeOK
<1>4. CallsSound'
  BY <1>1 DEF IInv, CallsSound
<1>5. LateCalls' \subseteq LateCalls
  BY <1>1 DEF LateCalls, LateOf
<1>6. Room'
  BY <1>1, <1>5, RoomMoved
<1>7. QED BY <1>1, <1>3, <1>4, <1>6 DEF IInv, Durable

\* What a new call waits for first.
LEMMA NewCall ==
  ASSUME TypeOK, NEW c \in Call, c.at = "init", c.scans = <<>>, SaveSound(c)
  PROVE  Follows(c, IF initialized THEN Enter(c) ELSE [c EXCEPT !.scans = <<Opening>>])
<1>1. Follows(c, Enter(c))
  BY EnterSound
<1>2. Follows(c, [c EXCEPT !.scans = <<Opening>>])
  <2> DEFINE s == <<Opening>>
  <2>1. s \in Seq(Scan) /\ Len(s) = 1 /\ s[1] = Opening /\ ScanSound(Opening)
    BY OpeningSound
  <2> HIDE DEF s
  <2>2. \A k \in 1..Len(s) : ScanSound(s[k])
    BY <2>1
  <2>3. Follows(c, [c EXCEPT !.scans = s])
    BY <2>1, <2>2, ScansReplaced
  <2>4. QED BY <2>3 DEF s
<1>3. QED BY <1>1, <1>2

LEMMA RequestKeeps ==
  ASSUME IInv, NEW op \in {"save", "load", "list", "sweep", "remove"},
         NEW id \in Ids \cup {None}, op = "save" => id \in Ids, Request(op, id)
  PROVE  IInv'
<1> DEFINE request == [key |-> requests + 1, op |-> op, id |-> id, at |-> "init", scans |-> <<>>,
                       file |-> [version |-> requests + 1, expires |-> clock + 1]]
<1>a. PICK call : call = request
  OBVIOUS
<1>b. PICK e : e = IF initialized THEN Enter(call) ELSE [call EXCEPT !.scans = <<Opening>>]
  OBVIOUS
<1>1. /\ requests < MaxRequests /\ Cardinality(calls) < MaxCalls /\ requests' = requests + 1
      /\ calls' = calls \cup {e} /\ UNCHANGED <<disk, initialized, clock, overlap, saved, unread>>
  BY <1>a, <1>b DEF Request
<1>2. /\ TypeOK /\ requests \in 0..MaxRequests /\ clock \in 0..MaxClock /\ calls \subseteq Call
      /\ IsFiniteSet(calls) /\ \A d \in calls : CallSound(d)
  BY DEF IInv, TypeOK, CallsSound
<1>3. call \in Call /\ call.at = "init" /\ call.scans = <<>> /\ call.op = op /\ call.id = id
  <2>1. requests + 1 \in 1..MaxRequests /\ requests + 1 \in 0..MaxRequests /\ clock + 1 \in 1..MaxClock + 1
    BY <1>1, <1>2, StoreConstants
  <2>2. <<>> \in Seq(Scan)
    BY EmptySeq
  <2>3. QED BY <1>a, <2>1, <2>2 DEF Call, Snapshot
<1>4. e \in Call /\ CallSound(e) /\ e.at \notin {"write", "rename"}
  <2>1. SaveSound(call)
    BY <1>3 DEF SaveSound
  <2>2. Follows(call, e)
    BY <1>b, <1>2, <1>3, <2>1, NewCall
  <2>3. QED BY <2>2 DEF Follows
<1>5. IsFiniteSet(calls') /\ Cardinality(calls') <= MaxCalls
  <2>1. Cardinality(calls) \in Nat
    BY <1>2, FS_CardinalityType
  <2>2. IsFiniteSet(calls') /\ Cardinality(calls') \in {Cardinality(calls), Cardinality(calls) + 1}
    BY <1>1, <1>2, FS_AddElement
  <2>3. QED BY <1>1, <2>1, <2>2, StoreConstants
<1>6. CallsSound'
  <2>1. \A d \in calls' : CallSound(d)
    BY <1>1, <1>2, <1>4
  <2>2. \A d \in calls' : CallSound(d)'
    BY <1>1, <2>1, SoundKept, OverKept
  <2>3. QED BY <1>5, <2>2 DEF CallsSound
<1>7. TypeOK'
  <2>1. requests' \in 0..MaxRequests
    BY <1>1, <1>2, StoreConstants
  <2>2. calls' \subseteq Call
    BY <1>1, <1>2, <1>4
  <2>3. QED BY <1>1, <1>2, <1>5, <2>1, <2>2 DEF TypeOK
<1>8. LateCalls' \subseteq LateCalls
  BY <1>1, <1>4 DEF LateCalls, LateOf, Late
<1>9. Room'
  BY <1>1, <1>8, RoomMoved
<1>10. QED BY <1>1, <1>6, <1>7, <1>9 DEF IInv, Durable

-----------------------------------------------------------------------------
(* The theorems *)

LEMMA StepKeeps == ASSUME IInv, NEW c \in calls, Step(c) PROVE IInv'
  BY ProvisionedKeeps, DirectoryReadKeeps, FileReadKeeps, ExpiredUnlinkedKeeps, ScanFailsKeeps,
     CheckedKeeps, WrittenKeeps, RenamedKeeps, RemovedKeeps, CallEndsKeeps DEF Step

LEMMA NextKeeps == ASSUME IInv, [Next]_vars PROVE IInv'
<1>1. CASE \E op \in {"save", "load", "remove"}, id \in Ids : Request(op, id)
  BY <1>1, RequestKeeps
<1>2. CASE \E op \in {"list", "sweep"} : Request(op, None)
  BY <1>2, RequestKeeps
<1>3. CASE \E c \in calls : Step(c)
  BY <1>3, StepKeeps
<1>4. CASE Crash
  BY <1>4, CrashKeeps
<1>5. CASE Tick
  BY <1>5, TickKeeps
<1>6. CASE UNCHANGED vars
  <2>1. UNCHANGED <<disk, initialized, calls, clock, requests, overlap, saved, unread>>
    BY <1>6 DEF vars
  <2>2. TypeOK' /\ CallsSound' /\ Durable'
    BY <2>1, SoundKept, OverKept DEF IInv, TypeOK, CallsSound, Durable
  <2>3. LateCalls' \subseteq LateCalls
    BY <2>1 DEF LateCalls, LateOf
  <2>4. Room'
    BY <2>1, <2>3, RoomMoved
  <2>5. QED BY <2>2, <2>4 DEF IInv
<1>7. QED BY <1>1, <1>2, <1>3, <1>4, <1>5, <1>6 DEF Next

\* save checks the number of files at privacy-store.mjs:131, long before the rename of line
\* 141.  However many pages save, load, list, sweep and remove, and whatever fails or is cut
\* off by a crash: the limit is exceeded only if saves have overlapped between those two
\* lines, and then by one less than the most that ever did at a time.
THEOREM LimitKept == Spec => []WithinLimit
<1>1. Init => IInv
  BY InitHolds
<1>2. IInv /\ [Next]_vars => IInv'
  BY NextKeeps
<1>3. IInv => WithinLimit
  <2> SUFFICES ASSUME IInv PROVE WithinLimit
    OBVIOUS
  <2>1. Cardinality(DOMAIN disk) <= Limit + Excess
    BY RoomSizes, StoreConstants
  <2>2. QED BY <2>1 DEF WithinLimit
<1>4. QED BY <1>1, <1>2, <1>3, PTL DEF Spec

\* A sweep decides that a session has expired, waits, opens the store again and only then
\* removes the file, whatever it holds by then (privacy-store.mjs:181-185).  Through crashes,
\* failures and any interleaving of any number of pages, the snapshot last saved stays
\* readable until it is removed or has expired itself, unless some sweep had read the
\* expired snapshot before it and had not yet removed it when the save was renamed.
THEOREM SavedIsDurable == Spec => []Durable
<1>1. Init => IInv
  BY InitHolds
<1>2. IInv /\ [Next]_vars => IInv'
  BY NextKeeps
<1>3. IInv => Durable
  BY DEF IInv
<1>4. QED BY <1>1, <1>2, <1>3, PTL DEF Spec

-----------------------------------------------------------------------------
(* What an opening of the store has still to sweep *)

\* Once the file in hand is done with, the scan still gets to this session.
Left(scan, id) ==
  /\ scan.for = "open"
  /\ \/ scan.at = "dir"
     \/ scan.at = "read" /\ id \in scan.names \cup scan.expired
     \/ scan.at = "unlink" /\ id \in scan.names

Pending(scan, id) ==
  Left(scan, id) \/ (scan.for = "open" /\ scan.at \in {"read", "unlink"} /\ scan.id = id)

Awaits(c, id) == \E k \in 1..Len(c.scans) : Pending(c.scans[k], id)

LowerAwaits(c, id) == \E k \in 1..Len(c.scans) - 1 : Pending(c.scans[k], id)

\* Only an opening provisions; a call that scans is not done; a save names its session.
Shaped(c) ==
  /\ c.scans # <<>> => c.at # "done"
  /\ \A k \in 1..Len(c.scans) : c.scans[k].at = "provision" => c.scans[k].for = "open"
  /\ c.op = "save" \/ c.at \in {"check", "write", "rename"} => c.id \in Ids

Typed(c, e) == e \in Call /\ Shaped(e) /\ e.file = c.file

\* The call e opens the store only if c does, and gets to every session of todo that c gets to.
Carries(c, e, todo) ==
  /\ IsOpening(e) => IsOpening(c)
  /\ \A id \in todo : Awaits(c, id) => Awaits(e, id)

LEMMA StackTop ==
  ASSUME NEW c \in Call, c.scans # <<>>
  PROVE  /\ Len(c.scans) \in Nat \ {0} /\ Top(c) \in Scan /\ Top(c) = c.scans[Len(c.scans)]
         /\ Below(c) \in Seq(Scan) /\ Len(Below(c)) = Len(c.scans) - 1
         /\ \A k \in 1..Len(c.scans) - 1 : Below(c)[k] = c.scans[k]
         /\ \A k \in 1..Len(c.scans) : k = Len(c.scans) \/ k \in 1..Len(c.scans) - 1
<1>1. c.scans \in Seq(Scan) /\ Len(c.scans) \in Nat \ {0}
  BY EmptySeq DEF Call
<1>2. Len(c.scans) \in 1..Len(c.scans) /\ \A k \in 1..Len(c.scans) : c.scans[k] \in Scan
  BY <1>1, ElementOfSeq
<1> DEFINE n == Len(c.scans) - 1
<1>3. n \in Nat /\ \A k \in 1..n : k \in 1..Len(c.scans) /\ c.scans[k] \in Scan
  BY <1>1, <1>2
<1>4. /\ SubSeq(c.scans, 1, n) \in Seq(Scan) /\ Len(SubSeq(c.scans, 1, n)) = IF 1 <= n THEN n - 1 + 1 ELSE 0
      /\ \A k \in 1..n - 1 + 1 : SubSeq(c.scans, 1, n)[k] = c.scans[1 + k - 1]
  BY <1>3, SubSeqProperties
<1>5. Len(SubSeq(c.scans, 1, n)) = n /\ \A k \in 1..n : SubSeq(c.scans, 1, n)[k] = c.scans[k]
  BY <1>3, <1>4
<1>6. \A k \in 1..Len(c.scans) : k = Len(c.scans) \/ k \in 1..n
  BY <1>1
<1>7. QED BY <1>1, <1>2, <1>4, <1>5, <1>6 DEF Top, Below

LEMMA OtherScans ==
  ASSUME NEW c \in Call, NEW scans \in Seq(Scan)
  PROVE  LET d == [c EXCEPT !.scans = scans]
         IN /\ d \in Call /\ d.scans = scans
            /\ d.at = c.at /\ d.op = c.op /\ d.id = c.id /\ d.file = c.file
  BY DEF Call

LEMMA WithTopStack ==
  ASSUME NEW c \in Call, c.scans # <<>>, NEW scan \in Scan
  PROVE  LET d == WithTop(c, scan)
         IN /\ d \in Call /\ d.scans # <<>> /\ Len(d.scans) = Len(c.scans) /\ Top(d) = scan
            /\ d.at = c.at /\ d.op = c.op /\ d.id = c.id /\ d.file = c.file
            /\ d.scans[Len(c.scans)] = scan /\ \A k \in 1..Len(c.scans) - 1 : d.scans[k] = c.scans[k]
<1> DEFINE s == Append(Below(c), scan)
           d == WithTop(c, scan)
<1>1. /\ Len(c.scans) \in Nat \ {0} /\ Below(c) \in Seq(Scan) /\ Len(Below(c)) = Len(c.scans) - 1
      /\ \A k \in 1..Len(c.scans) - 1 : Below(c)[k] = c.scans[k]
  BY StackTop
<1>2. /\ s \in Seq(Scan) /\ s # <<>> /\ Len(s) = Len(Below(c)) + 1 /\ s[Len(Below(c)) + 1] = scan
      /\ \A k \in 1..Len(Below(c)) : s[k] = Below(c)[k]
  BY <1>1, AppendProperties
<1>3. Len(s) = Len(c.scans) /\ s[Len(c.scans)] = scan /\ \A k \in 1..Len(c.scans) - 1 : s[k] = c.scans[k]
  BY <1>1, <1>2
<1>4. d = [c EXCEPT !.scans = s]
  BY DEF WithTop
<1> HIDE DEF s, d
<1>5. d \in Call /\ d.scans = s /\ d.at = c.at /\ d.op = c.op /\ d.id = c.id /\ d.file = c.file
  BY <1>2, <1>4, OtherScans
<1>6. Top(d) = scan
  BY <1>3, <1>5 DEF Top
<1>7. QED BY <1>2, <1>3, <1>5, <1>6 DEF d

\* A call awaits what its lower scans and its top scan do.
LEMMA AwaitsTop ==
  ASSUME NEW c \in Call, c.scans # <<>>
  PROVE  /\ \A id : Awaits(c, id) <=> LowerAwaits(c, id) \/ Pending(Top(c), id)
         /\ IsOpening(c) <=> Top(c).for = "open" \/ \E k \in 1..Len(c.scans) - 1 : c.scans[k].for = "open"
<1>1. /\ Len(c.scans) \in Nat \ {0} /\ Top(c) = c.scans[Len(c.scans)]
      /\ \A k \in 1..Len(c.scans) : k = Len(c.scans) \/ k \in 1..Len(c.scans) - 1
  BY StackTop
<1>2. Len(c.scans) \in 1..Len(c.scans) /\ \A k \in 1..Len(c.scans) - 1 : k \in 1..Len(c.scans)
  BY <1>1
<1>3. QED BY <1>1, <1>2 DEF Awaits, LowerAwaits, IsOpening

\* Another top scan of the same kind.
LEMMA WithTopAwaits ==
  ASSUME NEW c \in Call, c.scans # <<>>, Shaped(c), NEW scan \in Scan, scan.at # "provision",
         scan.for = Top(c).for
  PROVE  LET d == WithTop(c, scan)
         IN /\ Typed(c, d) /\ d.scans # <<>> /\ Top(d) = scan /\ d.at # "done"
            /\ IsOpening(d) => IsOpening(c)
            /\ \A id : LowerAwaits(d, id) <=> LowerAwaits(c, id)
            /\ \A id : Awaits(d, id) <=> LowerAwaits(c, id) \/ Pending(scan, id)
<1> DEFINE d == WithTop(c, scan)
<1>1. /\ d \in Call /\ d.scans # <<>> /\ Len(d.scans) = Len(c.scans) /\ Top(d) = scan
      /\ d.at = c.at /\ d.op = c.op /\ d.id = c.id /\ d.file = c.file
      /\ d.scans[Len(c.scans)] = scan /\ \A k \in 1..Len(c.scans) - 1 : d.scans[k] = c.scans[k]
  BY WithTopStack
<1>2. /\ Len(c.scans) \in Nat \ {0}
      /\ \A k \in 1..Len(c.scans) : k = Len(c.scans) \/ k \in 1..Len(c.scans) - 1
  BY StackTop
<1>3. \A k \in 1..Len(c.scans) - 1 : k \in 1..Len(c.scans)
  BY <1>2
<1> HIDE DEF d
<1>4. Shaped(d) /\ d.at # "done"
  BY <1>1, <1>2, <1>3 DEF Shaped
<1>5. IsOpening(d) => IsOpening(c)
  BY <1>1, AwaitsTop
<1>6. \A id : LowerAwaits(d, id) <=> LowerAwaits(c, id)
  BY <1>1 DEF LowerAwaits
<1>7. \A id : Awaits(d, id) <=> LowerAwaits(d, id) \/ Pending(scan, id)
  BY <1>1, AwaitsTop
<1>8. QED BY <1>1, <1>4, <1>5, <1>6, <1>7 DEF Typed, d

-----------------------------------------------------------------------------
(* A scan that goes on, hands over or returns loses sight of no session *)

LEMMA EnterCarries ==
  ASSUME NEW c \in Call, Shaped(c), c.scans = <<>>
  PROVE  LET e == Enter(c) IN Typed(c, e) /\ ~IsOpening(e) /\ e.at # "done"
<1> DEFINE e == Enter(c)
<1>1. c.op \in {"save", "load", "list", "sweep", "remove"} /\ Len(<<>>) = 0
  BY EmptySeq DEF Call
<1>2. CASE c.op \in {"save", "load", "remove"}
  <2> DEFINE at == CASE c.op = "save" -> "check" [] c.op = "load" -> "read" [] c.op = "remove" -> "unlink"
             d == [c EXCEPT !.at = at]
  <2>1. at \in {"check", "read", "unlink"} /\ (at = "check" => c.op = "save")
    BY <1>2
  <2>2. e = d
    BY <1>2 DEF Enter
  <2> HIDE DEF at
  <2>3. d \in Call /\ d.op = c.op /\ d.at = at /\ d.id = c.id /\ d.file = c.file /\ d.scans = <<>>
    BY <2>1 DEF Call
  <2> HIDE DEF d
  <2>4. 1..0 = {}
    OBVIOUS
  <2>5. Shaped(d) /\ ~IsOpening(d)
    BY <1>1, <2>1, <2>3, <2>4 DEF Shaped, IsOpening
  <2>6. QED BY <2>1, <2>2, <2>3, <2>5 DEF Typed
<1>3. CASE c.op \in {"list", "sweep"}
  <2> DEFINE scan == [Opening EXCEPT !.for = c.op, !.at = "dir"]
             d == [c EXCEPT !.at = "scan", !.scans = <<scan>>]
  <2>1. scan \in Scan /\ scan.for # "open" /\ scan.at = "dir"
    BY <1>3 DEF Opening, Scan
  <2> HIDE DEF scan
  <2>2. <<scan>> \in Seq(Scan) /\ Len(<<scan>>) = 1 /\ <<scan>>[1] = scan /\ \A k \in 1..1 : k = 1
    BY <2>1
  <2>3. e = d
    BY <1>3 DEF Enter, scan
  <2>4. d \in Call /\ d.op = c.op /\ d.at = "scan" /\ d.id = c.id /\ d.file = c.file /\ d.scans = <<scan>>
    BY <2>2 DEF Call
  <2> HIDE DEF d
  <2>5. \A k \in 1..Len(d.scans) : d.scans[k] = scan
    BY <2>2, <2>4
  <2>6. Shaped(d) /\ ~IsOpening(d)
    BY <1>3, <2>1, <2>4, <2>5 DEF Shaped, IsOpening
  <2>7. QED BY <2>3, <2>4, <2>6 DEF Typed
<1>4. QED BY <1>1, <1>2, <1>3

\* The scan below goes on with what it awaits, or none is left.
LEMMA ReturnCarries ==
  ASSUME NEW c \in Call, Shaped(c), c.scans # <<>>
  PROVE  LET e == Return(c)
         IN /\ Typed(c, e) /\ (e.at = "done" => e.scans = <<>>)
            /\ IsOpening(e) => IsOpening(c)
            /\ \A id : LowerAwaits(c, id) => Awaits(e, id)
<1> DEFINE d == [c EXCEPT !.scans = Below(c)]
<1>1. /\ Len(c.scans) \in Nat \ {0} /\ Below(c) \in Seq(Scan) /\ Len(Below(c)) = Len(c.scans) - 1
      /\ \A k \in 1..Len(c.scans) - 1 : Below(c)[k] = c.scans[k]
  BY StackTop
<1>2. \A k \in 1..Len(c.scans) - 1 : k \in 1..Len(c.scans)
  BY <1>1
<1>3. /\ d \in Call /\ d.scans = Below(c)
      /\ d.at = c.at /\ d.op = c.op /\ d.id = c.id /\ d.file = c.file
  BY <1>1, OtherScans
<1>4. Return(c) = CASE d.scans # <<>> -> d
                    [] d.scans = <<>> /\ d.at = "init" -> Enter(d)
                    [] OTHER -> [d EXCEPT !.at = "done"]
  BY DEF Return
<1> HIDE DEF d
<1>5. Shaped(d) /\ d.at # "done"
  BY <1>1, <1>2, <1>3 DEF Shaped
<1>6. IsOpening(d) => IsOpening(c)
  BY <1>1, <1>2, <1>3 DEF IsOpening
<1>7. \A id : LowerAwaits(c, id) => Awaits(d, id)
  BY <1>1, <1>3 DEF LowerAwaits, Awaits
<1>8. CASE d.scans # <<>>
  BY <1>3, <1>4, <1>5, <1>6, <1>7, <1>8 DEF Typed
<1>9. ASSUME d.scans = <<>>, NEW id PROVE ~LowerAwaits(c, id)
  <2>1. Len(d.scans) = 0 /\ 1..0 = {}
    BY <1>9, EmptySeq
  <2>2. ~Awaits(d, id)
    BY <2>1 DEF Awaits
  <2>3. QED BY <1>7, <2>2
<1>10. CASE d.scans = <<>> /\ d.at = "init"
  <2>1. Typed(d, Enter(d)) /\ ~IsOpening(Enter(d)) /\ Enter(d).at # "done"
    BY <1>3, <1>5, <1>10, EnterCarries
  <2>2. Return(c) = Enter(d)
    BY <1>4, <1>10
  <2>3. QED BY <1>3, <1>9, <1>10, <2>1, <2>2 DEF Typed
<1>11. CASE d.scans = <<>> /\ d.at # "init"
  <2> DEFINE e == [d EXCEPT !.at = "done"]
  <2>1. Return(c) = e
    BY <1>4, <1>11
  <2>2. e \in Call /\ e.op = d.op /\ e.at = "done" /\ e.id = d.id /\ e.file = d.file /\ e.scans = <<>>
    BY <1>3, <1>11 DEF Call
  <2> HIDE DEF e
  <2>3. Len(e.scans) = 0 /\ 1..0 = {}
    BY <2>2, EmptySeq
  <2>4. Shaped(e) /\ ~IsOpening(e)
    BY <1>5, <2>2, <2>3 DEF Shaped, IsOpening
  <2>5. QED BY <1>3, <1>9, <1>11, <2>1, <2>2, <2>4 DEF Typed
<1>12. QED BY <1>8, <1>10, <1>11

LEMMA HandleCarries ==
  ASSUME NEW c \in Call, Shaped(c), c.scans # <<>>, NEW scan \in Scan, scan.at # "provision",
         scan.for = Top(c).for, NEW ready \in BOOLEAN
  PROVE  LET e == Handle(c, scan, ready)
         IN /\ Typed(c, e) /\ e.at # "done"
            /\ ready => /\ IsOpening(e) => IsOpening(c)
                        /\ \A id : LowerAwaits(c, id) \/ Pending(scan, id) => Awaits(e, id)
<1> DEFINE d == WithTop(c, scan)
<1>1. /\ Typed(c, d) /\ d.scans # <<>> /\ d.at # "done"
      /\ IsOpening(d) => IsOpening(c)
      /\ \A id : Awaits(d, id) <=> LowerAwaits(c, id) \/ Pending(scan, id)
  BY WithTopAwaits
<1>2. Handle(c, scan, ready) = IF ready THEN d ELSE [d EXCEPT !.scans = Append(@, Opening)]
  BY DEF Handle
<1> HIDE DEF d
<1>3. CASE ready
  BY <1>1, <1>2, <1>3
<1>4. CASE ~ready
  <2> DEFINE s == Append(d.scans, Opening)
             e == [d EXCEPT !.scans = s]
  <2>1. d \in Call /\ Shaped(d) /\ d.scans \in Seq(Scan) /\ Len(d.scans) \in Nat
    BY <1>1 DEF Typed, Call
  <2>2. Opening \in Scan /\ Opening.for = "open"
    BY OpeningSound DEF Opening
  <2>3. /\ s \in Seq(Scan) /\ Len(s) = Len(d.scans) + 1 /\ s[Len(d.scans) + 1] = Opening
        /\ \A k \in 1..Len(d.scans) : s[k] = d.scans[k]
    BY <2>1, <2>2, AppendProperties
  <2>4. \A k \in 1..Len(s) : k = Len(d.scans) + 1 \/ k \in 1..Len(d.scans)
    BY <2>1, <2>3
  <2>5. Handle(c, scan, ready) = e
    BY <1>2, <1>4
  <2> HIDE DEF s
  <2>6. e \in Call /\ e.scans = s /\ e.at = d.at /\ e.op = d.op /\ e.id = d.id /\ e.file = d.file
    BY <2>1, <2>3, OtherScans
  <2> HIDE DEF e
  <2>7. Shaped(e)
    BY <1>1, <2>1, <2>2, <2>3, <2>4, <2>6 DEF Shaped
  <2>8. QED BY <1>1, <1>4, <2>5, <2>6, <2>7 DEF Typed
<1>5. QED BY <1>3, <1>4

\* Wherever a call goes on to: what it had still to sweep beyond the file in hand it still has.
LEMMA OnwardCarries ==
  ASSUME NEW c \in Call, Shaped(c), c.scans # <<>>, Top(c).at \in {"read", "unlink"},
         NEW ready \in BOOLEAN, NEW e \in Onward(c, ready)
  PROVE  /\ Typed(c, e) /\ (e.at = "done" => e.scans = <<>>)
         /\ ready => /\ IsOpening(e) => IsOpening(c)
                     /\ \A id : LowerAwaits(c, id) \/ Left(Top(c), id) => Awaits(e, id)
<1> DEFINE scan == Top(c)
<1>1. scan \in Scan /\ scan.at \in {"read", "unlink"}
  BY StackTop
<1>2. e \in CASE scan.names # {} ->
                   {Handle(c, [scan EXCEPT !.id = id, !.names = @ \ {id}], ready) : id \in scan.names}
              [] scan.names = {} /\ scan.at = "read" /\ scan.for # "list" /\ scan.expired # {} ->
                   {Handle(c, [scan EXCEPT !.at = "unlink", !.id = id, !.names = scan.expired \ {id}], ready) :
                      id \in scan.expired}
              [] OTHER -> {Return(c)}
  BY DEF Onward
<1>3. ASSUME NEW next \in Scan, next.at \in {"read", "unlink"}, next.for = scan.for,
             \A id : Left(scan, id) => Pending(next, id), e = Handle(c, next, ready)
      PROVE  /\ Typed(c, e) /\ (e.at = "done" => e.scans = <<>>)
             /\ ready => /\ IsOpening(e) => IsOpening(c)
                         /\ \A id : LowerAwaits(c, id) \/ Left(scan, id) => Awaits(e, id)
  BY <1>3, HandleCarries
<1> HIDE DEF scan
<1>4. CASE scan.names # {}
  <2>1. PICK id \in scan.names : e = Handle(c, [scan EXCEPT !.id = id, !.names = @ \ {id}], ready)
    BY <1>2, <1>4
  <2> DEFINE next == [scan EXCEPT !.id = id, !.names = @ \ {id}]
  <2>2. next \in Scan /\ next.at = scan.at /\ next.for = scan.for /\ next.id = id
        /\ next.names = scan.names \ {id} /\ next.expired = scan.expired
    BY <1>1 DEF Scan
  <2>3. e = Handle(c, next, ready)
    BY <2>1
  <2> HIDE DEF next
  <2>4. \A x : Left(scan, x) => Pending(next, x)
    BY <1>1, <2>2 DEF Left, Pending
  <2>5. QED BY <1>1, <1>3, <2>2, <2>3, <2>4 DEF scan
<1>5. CASE scan.names = {} /\ scan.at = "read" /\ scan.for # "list" /\ scan.expired # {}
  <2>1. PICK id \in scan.expired :
          e = Handle(c, [scan EXCEPT !.at = "unlink", !.id = id, !.names = scan.expired \ {id}], ready)
    BY <1>2, <1>5
  <2> DEFINE next == [scan EXCEPT !.at = "unlink", !.id = id, !.names = scan.expired \ {id}]
  <2>2. next \in Scan /\ next.at = "unlink" /\ next.for = scan.for /\ next.id = id
        /\ next.names = scan.expired \ {id}
    BY <1>1 DEF Scan
  <2>3. e = Handle(c, next, ready)
    BY <2>1
  <2> HIDE DEF next
  <2>4. \A x : Left(scan, x) => Pending(next, x)
    BY <1>5, <2>2 DEF Left, Pending
  <2>5. QED BY <1>3, <2>2, <2>3, <2>4 DEF scan
<1>6. CASE ~(scan.names # {})
           /\ ~(scan.names = {} /\ scan.at = "read" /\ scan.for # "list" /\ scan.expired # {})
  <2>1. e = Return(c)
    BY <1>2, <1>6
  <2>2. \A id : ~Left(scan, id)
    BY <1>1, <1>6 DEF Left
  <2>3. QED BY <2>1, <2>2, ReturnCarries DEF scan
<1>7. QED BY <1>4, <1>5, <1>6

-----------------------------------------------------------------------------
(* The invariant of the openings *)

\* Sessions an opening has still to remove: expired, and not known to be unreadable.
Stale == {id \in Ids : Expired(id)} \ unread

Files ==
  /\ disk \in Disks /\ clock \in 0..MaxClock /\ requests \in 0..MaxRequests /\ initialized \in BOOLEAN

Waiting == calls \subseteq Call /\ \A c \in calls : Shaped(c) /\ c.file.expires = clock + 1

\* While an open store is still being opened, each of those sessions has a scan that gets to it.
Swept == initialized /\ (\E c \in calls : IsOpening(c)) => \A id \in Stale : \E c \in calls : Awaits(c, id)

OInv == Files /\ Waiting /\ Swept

\* The same of a step: also if the last opening ended with it.
Sweeping ==
  initialized' /\ (\E c \in calls \cup calls' : IsOpening(c)) => \A id \in Stale' : \E c \in calls' : Awaits(c, id)

LEMMA AwaitsOpens == ASSUME NEW c, NEW id, Awaits(c, id) PROVE IsOpening(c)
  BY DEF Awaits, Pending, Left, IsOpening

LEMMA Idle == ASSUME NEW c, c.scans = <<>> PROVE ~IsOpening(c) /\ \A id : ~Awaits(c, id)
<1>1. Len(c.scans) = 0 /\ 1..0 = {}
  BY EmptySeq
<1>2. ~IsOpening(c)
  BY <1>1 DEF IsOpening
<1>3. QED BY <1>2, AwaitsOpens

\* The call goes on as another one that gets to what it got to, or to everything.
LEMMA Replaced ==
  ASSUME OInv, NEW c \in calls, NEW e, Typed(c, e), e.at = "done" => e.scans = <<>>, Becomes(c, e),
         clock' = clock,
         initialized' => \/ \A id \in Stale' : Awaits(e, id)
                         \/ /\ initialized /\ (IsOpening(e) => IsOpening(c)) /\ Stale' \subseteq Stale
                            /\ \A id \in Stale' : Awaits(c, id) => Awaits(e, id)
  PROVE  Waiting' /\ Sweeping
<1>1. calls \subseteq Call /\ \A d \in calls : Shaped(d) /\ d.file.expires = clock + 1
  BY DEF OInv, Waiting
<1>2. calls' \subseteq (calls \ {c}) \cup {e} /\ calls \ {c} \subseteq calls' /\ (e.at # "done" => e \in calls')
  BY DEF Becomes
<1>3. Waiting'
  BY <1>1, <1>2 DEF Waiting, Typed
<1>4. ASSUME NEW id, Awaits(e, id) PROVE e \in calls'
  <2>1. e.scans # <<>>
    BY <1>4, Idle
  <2>2. QED BY <1>2, <2>1
<1>5. ASSUME initialized', NEW d \in calls \cup calls', IsOpening(d), NEW id \in Stale'
      PROVE  \E x \in calls' : Awaits(x, id)
  <2>1. CASE Awaits(e, id)
    BY <1>4, <2>1
  <2>2. CASE ~Awaits(e, id)
    <3>1. /\ initialized /\ (IsOpening(e) => IsOpening(c)) /\ Stale' \subseteq Stale
          /\ Awaits(c, id) => Awaits(e, id)
      BY <1>5, <2>2
    <3>2. d \in calls \/ d = e
      BY <1>2
    <3>3. \E x \in calls : IsOpening(x)
      BY <1>5, <3>1, <3>2
    <3>4. PICK x \in calls : Awaits(x, id)
      BY <1>5, <3>1, <3>3 DEF OInv, Swept
    <3>5. x \in calls'
      BY <1>2, <2>2, <3>1, <3>4
    <3>6. QED BY <3>4, <3>5
  <2>3. QED BY <2>1, <2>2
<1>6. QED BY <1>3, <1>5 DEF Sweeping

\* The call ends, and with it no scan that has still to get to a session.
LEMMA Dropped ==
  ASSUME OInv, NEW c \in calls, calls' = calls \ {c}, clock' = clock,
         initialized' => initialized /\ Stale' \subseteq Stale /\ \A id \in Stale' : ~Awaits(c, id)
  PROVE  Waiting' /\ Sweeping
<1>1. Waiting'
  BY DEF OInv, Waiting
<1>2. Sweeping
  BY DEF OInv, Swept, Sweeping
<1>3. QED BY <1>1, <1>2

\* The call goes on from where d stands, done with the file in hand.
LEMMA GoesOn ==
  ASSUME OInv, NEW c \in calls, NEW d \in Call, Shaped(d), d.file = c.file, d.scans # <<>>,
         Top(d).at \in {"read", "unlink"}, NEW ready \in BOOLEAN, Goes(c, d, ready),
         initialized' = ready, clock' = clock,
         ready => /\ initialized /\ (IsOpening(d) => IsOpening(c)) /\ Stale' \subseteq Stale
                  /\ \A id \in Stale' : Awaits(c, id) => LowerAwaits(d, id) \/ Left(Top(d), id)
  PROVE  Waiting' /\ Sweeping
<1>1. PICK e \in Onward(d, ready) : Becomes(c, e)
  BY DEF Goes
<1>2. /\ Typed(d, e) /\ (e.at = "done" => e.scans = <<>>)
      /\ ready => /\ IsOpening(e) => IsOpening(d)
                  /\ \A id : LowerAwaits(d, id) \/ Left(Top(d), id) => Awaits(e, id)
  BY OnwardCarries
<1>3. Typed(c, e)
  BY <1>2 DEF Typed
<1>4. QED BY <1>1, <1>2, <1>3, Replaced

LEMMA Moved ==
  ASSUME OInv, NEW c \in calls
  PROVE  c \in Call /\ Shaped(c) /\ disk \in Disks /\ initialized \in BOOLEAN
  BY DEF OInv, Files, Waiting

-----------------------------------------------------------------------------
(* Steps of the openings *)

\* The directory is there: the scan has still to get to every session.
LEMMA ProvisionedSweeps == ASSUME OInv, NEW c \in calls, Provisioned(c) PROVE Files' /\ Waiting' /\ Sweeping
<1> DEFINE scan == [Top(c) EXCEPT !.at = "dir"]
           d == WithTop(c, scan)
<1>1. /\ c.scans # <<>> /\ Top(c).at = "provision" /\ initialized' = TRUE /\ Becomes(c, d)
      /\ UNCHANGED <<disk, clock, requests>>
  BY DEF Provisioned, Scanning
<1>2. c \in Call /\ Shaped(c) /\ Top(c) \in Scan /\ Len(c.scans) \in 1..Len(c.scans)
      /\ Top(c) = c.scans[Len(c.scans)]
  BY <1>1, Moved, StackTop
<1>3. Top(c).for = "open"
  BY <1>1, <1>2 DEF Shaped
<1>4. scan \in Scan /\ scan.for = Top(c).for /\ scan.at = "dir"
  BY <1>2 DEF Scan
<1> HIDE DEF scan
<1>5. Typed(c, d) /\ d.at # "done" /\ \A id : Pending(scan, id) => Awaits(d, id)
  BY <1>1, <1>2, <1>4, WithTopAwaits
<1>6. \A id : Pending(scan, id)
  BY <1>3, <1>4 DEF Pending, Left
<1> HIDE DEF d
<1>7. Waiting' /\ Sweeping
  BY <1>1, <1>5, <1>6, Replaced
<1>8. QED BY <1>1, <1>7 DEF OInv, Files

\* An exception passes only openings that have not begun to scan, or closes the store.
LEMMA ThrowSweeps ==
  ASSUME OInv, NEW c \in calls, c.scans # <<>>, Throw(c), UNCHANGED <<disk, clock, requests>>
  PROVE  Files' /\ Waiting' /\ Sweeping
<1> DEFINE catchers == {k \in 1..Len(c.scans) - 1 : c.scans[k].at = "read"}
           caught   == IF catchers = {} THEN 0 ELSE CHOOSE k \in catchers : \A j \in catchers : j <= k
           d        == [c EXCEPT !.scans = SubSeq(@, 1, caught)]
<1>1. /\ initialized' = (initialized /\ \A k \in caught + 1..Len(c.scans) :
                            c.scans[k].for = "open" => c.scans[k].at = "provision")
      /\ IF caught = 0 THEN calls' = calls \ {c} /\ UNCHANGED unread
         ELSE unread' = unread \cup {Top(d).id} /\ Goes(c, d, initialized')
  BY DEF Throw
<1>2. c \in Call /\ Shaped(c) /\ Len(c.scans) \in Nat \ {0} /\ c.scans \in Seq(Scan)
  BY Moved, StackTop DEF Call
<1>3. initialized' \in BOOLEAN /\ Files'
  <2>1. initialized' \in BOOLEAN
    BY <1>1
  <2>2. QED BY <2>1 DEF OInv, Files
<1>4. ASSUME initialized', NEW k \in caught + 1..Len(c.scans), NEW id PROVE ~Pending(c.scans[k], id)
  <2>1. c.scans[k].for = "open" => c.scans[k].at = "provision"
    BY <1>1, <1>4
  <2>2. QED BY <2>1 DEF Pending, Left
<1>5. CASE catchers = {}
  <2>1. caught = 0 /\ calls' = calls \ {c} /\ UNCHANGED unread
    BY <1>1, <1>5
  <2>2. \A k \in 1..Len(c.scans) : k \in caught + 1..Len(c.scans)
    <3> HIDE DEF catchers, caught, d
    <3>1. QED BY <1>2, <2>1
  <2>3. Stale' = Stale
    BY <2>1 DEF Stale, Expired
  <2>4. initialized' => \A id : ~Awaits(c, id)
    BY <1>4, <2>2 DEF Awaits
  <2>5. Waiting' /\ Sweeping
    BY <1>1, <2>1, <2>3, <2>4, Dropped
  <2>6. QED BY <1>3, <2>5
<1>6. CASE catchers # {}
  <2>1. \E m \in catchers : \A j \in catchers : j <= m
    <3>1. Len(c.scans) - 1 \in Nat /\ catchers \subseteq 1..Len(c.scans) - 1
      BY <1>2
    <3> HIDE DEF catchers
    <3>2. QED BY <1>6, <3>1, Greatest
  <2>2. caught \in catchers
    <3> HIDE DEF catchers
    <3>1. QED BY <1>6, <2>1
  <2> HIDE DEF caught
  <2>3. caught \in Nat \ {0} /\ caught <= Len(c.scans) /\ c.scans[caught].at = "read"
        /\ caught \in 1..Len(c.scans)
    BY <1>2, <2>2
  <2> HIDE DEF catchers
  <2> DEFINE s == SubSeq(c.scans, 1, caught)
  <2>4. \A k \in 1..caught : k \in 1..Len(c.scans)
    BY <1>2, <2>3
  <2>5. /\ s \in Seq(Scan) /\ Len(s) = caught
        /\ \A k \in 1..caught : s[k] = c.scans[k]
    <3>1. \A k \in 1..caught : k \in 1..Len(c.scans) /\ c.scans[k] \in Scan
      BY <1>2, <2>4, ElementOfSeq
    <3>2. /\ s \in Seq(Scan) /\ Len(s) = IF 1 <= caught THEN caught - 1 + 1 ELSE 0
          /\ \A k \in 1..caught - 1 + 1 : s[k] = c.scans[1 + k - 1]
      BY <1>2, <2>3, <3>1, SubSeqProperties
    <3> HIDE DEF s
    <3>3. QED BY <2>3, <3>2
  <2>6. d = [c EXCEPT !.scans = s]
    OBVIOUS
  <2> HIDE DEF s, d
  <2>7. d \in Call /\ d.scans = s /\ d.at = c.at /\ d.op = c.op /\ d.id = c.id /\ d.file = c.file
    BY <1>2, <2>5, <2>6, OtherScans
  <2>8. s # <<>> /\ Top(d) = c.scans[caught]
    BY <2>3, <2>5, <2>7, EmptySeq DEF Top
  <2>9. Shaped(d)
    BY <1>2, <2>4, <2>5, <2>7, <2>8 DEF Shaped
  <2>10. IsOpening(d) => IsOpening(c)
    BY <2>4, <2>5, <2>7 DEF IsOpening
  <2>11. unread' = unread \cup {Top(d).id} /\ Goes(c, d, initialized')
    BY <1>1, <2>3
  <2>12. PICK ready \in BOOLEAN : ready = initialized'
    BY <1>3
  <2>13. Goes(c, d, ready)
    BY <2>11, <2>12
  <2>14. Stale' = Stale \ {Top(d).id}
    BY <2>11 DEF Stale, Expired
  <2>15. ASSUME initialized', NEW id \in Stale', Awaits(c, id)
         PROVE  LowerAwaits(d, id) \/ Left(Top(d), id)
    <3>1. PICK k \in 1..Len(c.scans) : Pending(c.scans[k], id)
      BY <2>15 DEF Awaits
    <3>2. ~(k \in caught + 1..Len(c.scans))
      BY <1>4, <2>15, <3>1
    <3>3. k = caught \/ k \in 1..caught - 1
      BY <1>2, <2>3, <3>2
    <3>4. CASE k = caught
      BY <2>8, <2>14, <2>15, <3>1, <3>4 DEF Pending
    <3>5. CASE k \in 1..caught - 1
      <4>1. k \in 1..caught /\ k \in 1..Len(d.scans) - 1
        BY <2>3, <2>5, <2>7, <3>5
      <4>2. d.scans[k] = c.scans[k]
        BY <2>5, <2>7, <4>1
      <4>3. QED BY <3>1, <4>1, <4>2 DEF LowerAwaits
    <3>6. QED BY <3>3, <3>4, <3>5
  <2>16. ready => initialized
    BY <1>1, <2>12
  <2>17. Waiting' /\ Sweeping
    <3>1. Top(d).at \in {"read", "unlink"} /\ d.scans # <<>> /\ Stale' \subseteq Stale
      BY <2>3, <2>7, <2>8, <2>14
    <3>2. initialized' = ready /\ clock' = clock
      BY <2>12
    <3>3. \A id \in Stale' : ready => (Awaits(c, id) => LowerAwaits(d, id) \/ Left(Top(d), id))
      BY <2>12, <2>15
    <3>4. QED BY <2>7, <2>9, <2>10, <2>13, <2>16, <3>1, <3>2, <3>3, GoesOn
  <2>18. QED BY <1>3, <2>17
<1>7. QED BY <1>5, <1>6

\* The names are read: the scan has each of them in hand, or ahead.
LEMMA DirectoryReadSweeps == ASSUME OInv, NEW c \in calls, DirectoryRead(c) PROVE Files' /\ Waiting' /\ Sweeping
<1> DEFINE scan == [Top(c) EXCEPT !.at = "read", !.names = DOMAIN disk]
           d == WithTop(c, scan)
<1>1. /\ c.scans # <<>> /\ Top(c).at = "dir" /\ UNCHANGED <<disk, clock, requests>>
      /\ \/ Throw(c)
         \/ Goes(c, d, initialized) /\ UNCHANGED <<initialized, unread>>
  BY DEF DirectoryRead, Scanning
<1>2. CASE Throw(c)
  BY <1>1, <1>2, ThrowSweeps
<1>3. CASE Goes(c, d, initialized) /\ UNCHANGED <<initialized, unread>>
  <2>1. c \in Call /\ Shaped(c) /\ Top(c) \in Scan /\ initialized \in BOOLEAN /\ DOMAIN disk \subseteq Ids
    BY <1>1, Moved, StackTop, DiskElim
  <2>2. scan \in Scan /\ scan.for = Top(c).for /\ scan.at = "read" /\ scan.names = DOMAIN disk
    BY <2>1 DEF Scan
  <2> HIDE DEF scan
  <2>3. /\ Typed(c, d) /\ d.scans # <<>> /\ Top(d) = scan
        /\ IsOpening(d) => IsOpening(c)
        /\ \A id : LowerAwaits(d, id) <=> LowerAwaits(c, id)
    BY <1>1, <2>1, <2>2, WithTopAwaits
  <2> HIDE DEF d
  <2>4. Stale' = Stale /\ Stale \subseteq DOMAIN disk
    BY <1>1, <1>3 DEF Stale, Expired
  <2>5. ASSUME NEW id \in Stale', Awaits(c, id) PROVE LowerAwaits(d, id) \/ Left(Top(d), id)
    <3>1. LowerAwaits(c, id) \/ Pending(Top(c), id)
      BY <1>1, <2>1, <2>5, AwaitsTop
    <3>2. Pending(Top(c), id) => Left(scan, id)
      BY <2>2, <2>4 DEF Pending, Left
    <3>3. QED BY <2>3, <3>1, <3>2
  <2>6. d \in Call /\ Shaped(d) /\ d.file = c.file
    BY <2>3 DEF Typed
  <2>7. Waiting' /\ Sweeping
    BY <1>1, <1>3, <2>1, <2>2, <2>3, <2>4, <2>5, <2>6, GoesOn
  <2>8. QED BY <1>1, <1>3, <2>7 DEF OInv, Files
<1>4. QED BY <1>1, <1>2, <1>3

\* An expired file that is read is noted for removal; one that cannot be read is stale no more.
LEMMA FileReadSweeps == ASSUME OInv, NEW c \in calls, FileRead(c) PROVE Files' /\ Waiting' /\ Sweeping
<1> DEFINE file == Top(c).id
           expired == IF Top(c).for # "list" /\ Expired(file) THEN Top(c).expired \cup {file} ELSE Top(c).expired
           scan == [Top(c) EXCEPT !.expired = expired]
           d == WithTop(c, scan)
<1>1. /\ c.scans # <<>> /\ Top(c).at = "read" /\ UNCHANGED <<disk, initialized, clock, requests>>
      /\ \/ file \in DOMAIN disk /\ Goes(c, d, initialized) /\ UNCHANGED unread
         \/ unread' = unread \cup {file} /\ Goes(c, c, initialized)
  BY DEF FileRead, Scanning, Noted
<1>2. c \in Call /\ Shaped(c) /\ Top(c) \in Scan /\ initialized \in BOOLEAN /\ DOMAIN disk \subseteq Ids
  BY <1>1, Moved, StackTop, DiskElim
<1>3. Files'
  BY <1>1 DEF OInv, Files
<1>4. \A id : Awaits(c, id) => LowerAwaits(c, id) \/ Pending(Top(c), id)
  BY <1>1, <1>2, AwaitsTop
<1>5. CASE file \in DOMAIN disk /\ Goes(c, d, initialized) /\ UNCHANGED unread
  <2>1. /\ scan \in Scan /\ scan.for = Top(c).for /\ scan.at = "read" /\ scan.names = Top(c).names
        /\ scan.expired = expired
    BY <1>1, <1>2, <1>5 DEF Scan
  <2> HIDE DEF scan
  <2>2. /\ Typed(c, d) /\ d.scans # <<>> /\ Top(d) = scan
        /\ IsOpening(d) => IsOpening(c)
        /\ \A id : LowerAwaits(d, id) <=> LowerAwaits(c, id)
    BY <1>1, <1>2, <2>1, WithTopAwaits
  <2> HIDE DEF d
  <2>3. Stale' = Stale /\ \A id \in Stale : Expired(id)
    BY <1>1, <1>5 DEF Stale, Expired
  <2>4. ASSUME NEW id \in Stale', Awaits(c, id) PROVE LowerAwaits(d, id) \/ Left(Top(d), id)
    <3>1. LowerAwaits(c, id) \/ Pending(Top(c), id)
      BY <1>4, <2>4
    <3>2. id = file /\ Top(c).for = "open" => id \in expired
      BY <2>3
    <3>3. Pending(Top(c), id) => Left(scan, id)
      BY <1>1, <2>1, <3>2 DEF Pending, Left
    <3>4. QED BY <2>2, <3>1, <3>3
  <2>5. d \in Call /\ Shaped(d) /\ d.file = c.file
    BY <2>2 DEF Typed
  <2>6. Waiting' /\ Sweeping
    BY <1>1, <1>2, <1>5, <2>1, <2>2, <2>3, <2>4, <2>5, GoesOn
  <2>7. QED BY <1>3, <2>6
<1>6. CASE unread' = unread \cup {file} /\ Goes(c, c, initialized)
  <2>1. Stale' \subseteq Stale /\ file \notin Stale'
    BY <1>1, <1>6 DEF Stale, Expired
  <2> HIDE DEF file, scan, d
  <2>2. ASSUME NEW id \in Stale', Awaits(c, id) PROVE LowerAwaits(c, id) \/ Left(Top(c), id)
    BY <1>4, <2>1, <2>2 DEF Pending, file
  <2>3. Waiting' /\ Sweeping
    BY <1>1, <1>2, <1>6, <2>1, <2>2, GoesOn
  <2>4. QED BY <1>3, <2>3
<1>7. QED BY <1>1, <1>5, <1>6

LEMMA ScanFailsSweeps == ASSUME OInv, NEW c \in calls, ScanFails(c) PROVE Files' /\ Waiting' /\ Sweeping
<1>1. c.scans # <<>> /\ Throw(c) /\ UNCHANGED <<disk, clock, requests>>
  BY DEF ScanFails, Scanning
<1>2. QED BY <1>1, ThrowSweeps

\* A file that is gone is not stale.
LEMMA GoneIsNotStale ==
  ASSUME disk \in Disks, NEW id, disk' = WithoutFile(id), UNCHANGED <<clock, unread>>
  PROVE  disk' \in Disks /\ Stale' \subseteq Stale /\ id \notin Stale'
<1>1. /\ disk' \in Disks /\ DOMAIN disk' = DOMAIN disk \ {id}
      /\ \A name \in DOMAIN disk \ {id} : disk'[name] = disk[name]
  BY WithoutType
<1>2. \A name : Expired(name)' => Expired(name) /\ name # id
  BY <1>1 DEF Expired
<1>3. QED BY <1>1, <1>2 DEF Stale

LEMMA ExpiredUnlinkedSweeps ==
  ASSUME OInv, NEW c \in calls, ExpiredUnlinked(c) PROVE Files' /\ Waiting' /\ Sweeping
<1> DEFINE file == Top(c).id
<1>1. /\ c.scans # <<>> /\ Top(c).at = "unlink" /\ disk' = WithoutFile(file) /\ Goes(c, c, initialized)
      /\ UNCHANGED <<initialized, clock, requests, unread>>
  BY DEF ExpiredUnlinked, Scanning
<1>2. c \in Call /\ Shaped(c) /\ initialized \in BOOLEAN /\ disk \in Disks
  BY Moved
<1>3. disk' \in Disks /\ Stale' \subseteq Stale /\ file \notin Stale'
  BY <1>1, <1>2, GoneIsNotStale
<1>4. ASSUME NEW id \in Stale', Awaits(c, id) PROVE LowerAwaits(c, id) \/ Left(Top(c), id)
  <2>1. LowerAwaits(c, id) \/ Pending(Top(c), id)
    BY <1>1, <1>2, <1>4, AwaitsTop
  <2>2. QED BY <1>3, <2>1 DEF Pending
<1>5. Waiting' /\ Sweeping
  BY <1>1, <1>2, <1>3, <1>4, GoesOn
<1>6. QED BY <1>1, <1>3, <1>5 DEF OInv, Files

-----------------------------------------------------------------------------
(* Steps of an operation, once the store is open *)

\* A call at work scans nothing: it ends, or goes to its next step.
LEMMA WorkSweeps ==
  ASSUME OInv, NEW c \in calls, c.scans = <<>>, NEW at \in {"write", "rename"}, c.at \in {"check", "write"},
         calls' = calls \ {c} \/ calls' = (calls \ {c}) \cup {[c EXCEPT !.at = at]},
         UNCHANGED <<disk, initialized, clock, requests, unread>>
  PROVE  Files' /\ Waiting' /\ Sweeping
<1> DEFINE e == [c EXCEPT !.at = at]
<1>1. c \in Call /\ Shaped(c)
  BY Moved
<1>2. e \in Call /\ e.scans = <<>> /\ e.at = at /\ e.op = c.op /\ e.id = c.id /\ e.file = c.file
  BY <1>1 DEF Call
<1>3. calls' = (calls \ {c}) \cup {e} => Becomes(c, e)
  BY DEF Becomes
<1>4. calls' = calls \ {c} \/ calls' = (calls \ {c}) \cup {e}
  OBVIOUS
<1> HIDE DEF e
<1>5. Typed(c, e)
  BY <1>1, <1>2 DEF Typed, Shaped
<1>6. ~IsOpening(e) /\ \A id : ~Awaits(c, id)
  BY <1>2, Idle
<1>7. Stale' = Stale /\ Files'
  BY DEF OInv, Files, Stale, Expired
<1>8. CASE calls' = calls \ {c}
  BY <1>6, <1>7, <1>8, Dropped
<1>9. CASE calls' = (calls \ {c}) \cup {e}
  BY <1>2, <1>3, <1>5, <1>6, <1>7, <1>9, Replaced
<1>10. QED BY <1>4, <1>8, <1>9

LEMMA CheckedSweeps == ASSUME OInv, NEW c \in calls, Checked(c) PROVE Files' /\ Waiting' /\ Sweeping
<1>1. /\ c.scans = <<>> /\ c.at = "check"
      /\ calls' = calls \ {c} \/ calls' = (calls \ {c}) \cup {[c EXCEPT !.at = "write"]}
      /\ UNCHANGED <<disk, initialized, clock, requests, unread>>
  BY DEF Checked, At
<1>2. QED BY <1>1, WorkSweeps

LEMMA WrittenSweeps == ASSUME OInv, NEW c \in calls, Written(c) PROVE Files' /\ Waiting' /\ Sweeping
<1>1. /\ c.scans = <<>> /\ c.at = "write" /\ calls' = (calls \ {c}) \cup {[c EXCEPT !.at = "rename"]}
      /\ UNCHANGED <<disk, initialized, clock, requests, unread>>
  BY DEF Written, At
<1>2. QED BY <1>1, WorkSweeps

\* A call that scans nothing is over.
LEMMA OverSweeps ==
  ASSUME OInv, NEW c \in calls, c.scans = <<>>, calls' = calls \ {c}, Stale' \subseteq Stale,
         UNCHANGED <<initialized, clock>>
  PROVE  Waiting' /\ Sweeping
<1>1. \A id : ~Awaits(c, id)
  BY Idle
<1>2. QED BY <1>1, Dropped

\* What is saved expires tomorrow.
LEMMA RenamedSweeps == ASSUME OInv, NEW c \in calls, Renamed(c) PROVE Files' /\ Waiting' /\ Sweeping
<1>1. /\ c.scans = <<>> /\ c.at = "rename" /\ disk' = With(c.id, c.file) /\ calls' = calls \ {c}
      /\ UNCHANGED <<initialized, clock, requests, unread>>
  BY DEF Renamed, At
<1>2. c \in Call /\ Shaped(c) /\ disk \in Disks /\ c.file.expires = clock + 1 /\ clock \in 0..MaxClock
  BY Moved DEF OInv, Waiting, Files
<1>3. c.id \in Ids /\ c.file \in Snapshot
  BY <1>1, <1>2 DEF Shaped, Call
<1>4. /\ disk' \in Disks /\ DOMAIN disk' = DOMAIN disk \cup {c.id} /\ disk'[c.id] = c.file
      /\ \A name \in DOMAIN disk : name # c.id => disk'[name] = disk[name]
  BY <1>1, <1>2, <1>3, WithType
<1>5. ~(clock + 1 <= clock)
  BY <1>2
<1>6. \A id : Expired(id)' => Expired(id)
  BY <1>1, <1>2, <1>4, <1>5 DEF Expired
<1>7. Stale' \subseteq Stale
  BY <1>1, <1>6 DEF Stale
<1>8. Waiting' /\ Sweeping
  BY <1>1, <1>7, OverSweeps
<1>9. QED BY <1>1, <1>4, <1>8 DEF OInv, Files

LEMMA RemovedSweeps == ASSUME OInv, NEW c \in calls, Removed(c) PROVE Files' /\ Waiting' /\ Sweeping
<1>1. /\ c.scans = <<>> /\ disk' = WithoutFile(c.id) /\ calls' = calls \ {c}
      /\ UNCHANGED <<initialized, clock, requests, unread>>
  BY DEF Removed, At
<1>2. disk' \in Disks /\ Stale' \subseteq Stale
  BY <1>1, Moved, GoneIsNotStale
<1>3. Waiting' /\ Sweeping
  BY <1>1, <1>2, OverSweeps
<1>4. QED BY <1>1, <1>2, <1>3 DEF OInv, Files

LEMMA CallEndsSweeps == ASSUME OInv, NEW c \in calls, CallEnds(c) PROVE Files' /\ Waiting' /\ Sweeping
<1>1. c.scans = <<>> /\ calls' = calls \ {c} /\ UNCHANGED <<disk, initialized, clock, requests, unread>>
  BY DEF CallEnds, At
<1>2. Stale' = Stale /\ Files'
  BY <1>1 DEF Stale, Expired, OInv, Files
<1>3. QED BY <1>1, <1>2, OverSweeps

\* A call that begins opens the store only when it is closed.
LEMMA RequestSweeps ==
  ASSUME OInv, NEW op \in {"save", "load", "list", "sweep", "remove"}, NEW id \in Ids \cup {None},
         op = "save" => id \in Ids, Request(op, id)
  PROVE  Files' /\ Waiting' /\ Sweeping
<1> DEFINE request == [key |-> requests + 1, op |-> op, id |-> id, at |-> "init", scans |-> <<>>,
                       file |-> [version |-> requests + 1, expires |-> clock + 1]]
<1>a. PICK call : call = request
  OBVIOUS
<1>b. PICK e : e = IF initialized THEN Enter(call) ELSE [call EXCEPT !.scans = <<Opening>>]
  OBVIOUS
<1>1. /\ requests < MaxRequests /\ requests' = requests + 1 /\ calls' = calls \cup {e}
      /\ UNCHANGED <<disk, initialized, clock, unread>>
  BY <1>a, <1>b DEF Request
<1>2. requests \in 0..MaxRequests /\ clock \in 0..MaxClock /\ initialized \in BOOLEAN
  BY DEF OInv, Files
<1>3. /\ requests + 1 \in 1..MaxRequests /\ requests + 1 \in 0..MaxRequests /\ clock + 1 \in 1..MaxClock + 1
  BY <1>1, <1>2, StoreConstants
<1>4. /\ call \in Call /\ call.scans = <<>> /\ call.at = "init" /\ call.op = op /\ call.id = id
      /\ call.file.expires = clock + 1
  <2>1. <<>> \in Seq(Scan)
    BY EmptySeq
  <2>2. QED BY <1>a, <1>3, <2>1 DEF Call, Snapshot
<1>5. Shaped(call)
  <2>1. Len(<<>>) = 0 /\ 1..0 = {}
    BY EmptySeq
  <2>2. QED BY <1>4, <2>1 DEF Shaped
<1>6. Typed(call, e) /\ (initialized => ~IsOpening(e))
  <2>1. CASE initialized
    BY <1>b, <1>4, <1>5, <2>1, EnterCarries
  <2>2. CASE ~initialized
    <3> DEFINE s == <<Opening>>
    <3>1. s \in Seq(Scan) /\ Len(s) = 1 /\ s[1] = Opening /\ \A k \in 1..1 : k = 1
      BY OpeningSound
    <3>2. Opening.for = "open"
      BY DEF Opening
    <3> HIDE DEF s
    <3>3. e = [call EXCEPT !.scans = s]
      BY <1>b, <2>2 DEF s
    <3>4. e \in Call /\ e.scans = s /\ e.at = "init" /\ e.op = op /\ e.id = id /\ e.file = call.file
      BY <1>4, <3>1, <3>3, OtherScans
    <3>5. Shaped(e)
      BY <1>5, <1>4, <3>1, <3>2, <3>4 DEF Shaped
    <3>6. QED BY <2>2, <3>4, <3>5 DEF Typed
  <2>3. QED BY <2>1, <2>2
<1>7. Waiting'
  BY <1>1, <1>4, <1>6 DEF OInv, Waiting, Typed
<1>8. Stale' = Stale
  BY <1>1 DEF Stale, Expired
<1>9. Sweeping
  BY <1>1, <1>6, <1>8 DEF OInv, Swept, Sweeping
<1>10. Files'
  BY <1>1, <1>3 DEF OInv, Files
<1>11. QED BY <1>7, <1>9, <1>10

-----------------------------------------------------------------------------

LEMMA StepSweeps == ASSUME OInv, [Next]_vars PROVE Files' /\ Waiting' /\ Sweeping
<1>1. CASE \E op \in {"save", "load", "remove"}, id \in Ids : Request(op, id)
  BY <1>1, RequestSweeps
<1>2. CASE \E op \in {"list", "sweep"} : Request(op, None)
  BY <1>2, RequestSweeps
<1>3. CASE \E c \in calls : Step(c)
  BY <1>3, ProvisionedSweeps, DirectoryReadSweeps, FileReadSweeps, ExpiredUnlinkedSweeps, ScanFailsSweeps,
     CheckedSweeps, WrittenSweeps, RenamedSweeps, RemovedSweeps, CallEndsSweeps DEF Step
<1>4. CASE Crash
  <2>1. Files' /\ Waiting'
    BY <1>4 DEF Crash, OInv, Files, Waiting
  <2>2. Sweeping
    BY <1>4 DEF Crash, Sweeping
  <2>3. QED BY <2>1, <2>2
<1>5. CASE Tick
  <2>1. Files'
    <3>1. clock' \in 0..MaxClock
      BY <1>5, StoreConstants DEF Tick, OInv, Files
    <3>2. QED BY <1>5, <3>1 DEF Tick, OInv, Files
  <2>2. calls = {} /\ calls' = {}
    BY <1>5 DEF Tick
  <2>3. QED BY <2>1, <2>2 DEF Waiting, Sweeping
<1>6. CASE UNCHANGED vars
  <2>1. UNCHANGED <<disk, initialized, calls, clock, requests, unread>>
    BY <1>6 DEF vars
  <2>2. Stale' = Stale
    BY <2>1 DEF Stale, Expired
  <2>3. QED BY <2>1, <2>2 DEF OInv, Files, Waiting, Swept, Sweeping
<1>7. QED BY <1>1, <1>2, <1>3, <1>4, <1>5, <1>6 DEF Next

\* initialize sets its flag at privacy-store.mjs:115, before it sweeps, and every load and
\* removal of the sweep opens the store again; an exception on the way may leave any number
\* of calls half-way.  Whatever was asked meanwhile, by however many pages, and whatever
\* failed or crashed: when the last opening under way is over and the store is still
\* open, no session that could be read is expired.  Nothing is assumed of who saves.
THEOREM OpeningSweeps == Spec => OpensSwept
<1> DEFINE Ended == (\E c \in calls : IsOpening(c)) /\ initialized' /\ ~(\E c \in calls' : IsOpening(c))
           Fresh == \A id \in DOMAIN disk' \ unread' : disk'[id].expires > clock'
<1>1. Init => OInv
  <2> SUFFICES ASSUME Init PROVE OInv
    OBVIOUS
  <2>1. disk \in Disks
    <3>1. disk \in [{} -> Snapshot]
      BY DEF Init
    <3>2. QED BY <3>1, DiskIntro
  <2>2. 0 \in 0..MaxClock /\ 0 \in 0..MaxRequests
    BY StoreConstants
  <2>3. QED BY <2>1, <2>2 DEF Init, OInv, Files, Waiting, Swept
<1>2. OInv /\ [Next]_vars => OInv' /\ [Ended => Fresh]_vars
  <2> SUFFICES ASSUME OInv, [Next]_vars PROVE OInv' /\ (Ended => Fresh)
    OBVIOUS
  <2>1. Files' /\ Waiting' /\ Sweeping
    BY StepSweeps
  <2>2. Swept'
    BY <2>1 DEF Sweeping, Swept
  <2>3. ASSUME Ended, NEW id \in DOMAIN disk' \ unread'
        PROVE  disk'[id].expires > clock'
    <3>1. Stale' = {}
      BY <2>1, <2>3, AwaitsOpens DEF Sweeping
    <3>2. disk' \in Disks /\ clock' \in 0..MaxClock
      BY <2>1 DEF Files
    <3>3. id \in Ids /\ disk'[id] \in Snapshot
      BY <2>3, <3>2, DiskElim
    <3>4. ~Expired(id)'
      BY <2>3, <3>1, <3>3 DEF Stale
    <3>5. disk'[id].expires \in 1..MaxClock + 1
      BY <3>3 DEF Snapshot
    <3>6. ~(disk'[id].expires <= clock')
      BY <2>3, <3>4 DEF Expired
    <3>7. QED BY <3>2, <3>5, <3>6, StoreConstants
  <2>4. QED BY <2>1, <2>2, <2>3 DEF OInv
<1>3. QED BY <1>1, <1>2, PTL DEF Spec, OpensSwept

=============================================================================
