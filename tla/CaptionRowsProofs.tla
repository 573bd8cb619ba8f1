------------------------- MODULE CaptionRowsProofs -------------------------
(***************************************************************************)
(* Theorems about the caption worker: its row events keep their contract   *)
(* (RowFeed), agree with the rows on the screen after every frame, were    *)
(* read twice, and never show two people under one alias.                  *)
(***************************************************************************)
EXTENDS CaptionRows, SequenceTheorems, WellFoundedInduction, TLAPS

-----------------------------------------------------------------------------
(* The inductive invariant *)

\* An alias stands for one name, never for nobody's; once somebody has gone without
\* an alias the table is full.
Aliases ==
  /\ \A k \in 1..Len(aliases) : aliases[k] \notin Generic
  /\ \A j, k \in 1..Len(aliases) : aliases[j] = aliases[k] => j = k
  /\ \A i \in 1..Len(rows) : rows[i].speaker.label = "unknown" => Len(aliases) >= MaxAliases

\* No id is given twice.
RowIds ==
  /\ \A i, j \in 1..Len(rows) : rows[i].id = rows[j].id => i = j
  /\ \A i \in 1..Len(rows) : rows[i].id < nextId
  /\ \A id \in DOMAIN feed : id < nextId

\* What the browser knows of a row is what the tracker remembers to have told.
FedRow(row, told) ==
  IF row.emitted = None THEN row.id \notin DOMAIN told /\ row.revision = 0
  ELSE /\ row.id \in DOMAIN told
       /\ told[row.id] = [revision |-> row.revision, speaker |-> row.speaker,
                          text |-> row.emitted, gone |-> FALSE]

Fed ==
  /\ \A i \in 1..Len(rows) : FedRow(rows[i], feed)
  /\ \A id \in DOMAIN feed : feed[id].gone \/ \E i \in 1..Len(rows) : rows[i].id = id

\* The text of a row was read, under a name that shows as its speaker.
ReadIn(table, row, readings) ==
  \E name \in Names : <<name, row.text>> \in readings /\ SpeakerIn(table, name) = row.speaker

\* A claimed row was read in this frame, any other in the one before.
Readings ==
  /\ ~frame.open => frame.claimed = {}
  /\ \A i \in 1..Len(rows) :
       ReadIn(aliases, rows[i], IF rows[i].id \in frame.claimed THEN frame.read ELSE frame.before)

IInv == TypeOK /\ Aliases /\ RowIds /\ Fed /\ Readings

-----------------------------------------------------------------------------
(* The loop that erases rows *)

\* Induction, for a set of numbers.
LEMMA Induction ==
  ASSUME NEW T, 0 \in T, \A n \in Nat : n \in T => n + 1 \in T
  PROVE  \A n \in Nat : n \in T
<1> DEFINE R == {p \in Nat \X Nat : p[1] < p[2]}
           U == {n \in Nat : n \notin T}
<1>1. IsWellFoundedOn(R, Nat)
  BY NatLessThanWellFounded DEF OpToRel
<1> HIDE DEF R
<1>2. ASSUME U # {} PROVE FALSE
  <2>1. PICK x \in U : \A y \in U : ~(<<y, x>> \in R)
    BY <1>1, <1>2, WFMin
  <2>2. x \in Nat \ {0} /\ x - 1 \in Nat /\ (x - 1) + 1 = x
    OBVIOUS
  <2>3. x - 1 \in U
    BY <2>2
  <2>4. <<x - 1, x>> \in R
    BY <2>2 DEF R
  <2>5. QED BY <2>1, <2>3, <2>4
<1>3. QED BY <1>2

\* What the loop has kept after i rows.
Keeps(all, claimed, f, i) ==
  IF i = 0 THEN <<>>
  ELSE IF all[i].id \in claimed THEN Append(f[i - 1], all[i]) ELSE f[i - 1]

\* The loop over the rows is what its recursive definition says.
LEMMA LoopDefined ==
  ASSUME NEW all \in Seq(Row), NEW claimed
  PROVE  \E f : /\ f = [i \in 0..Len(all) |-> Keeps(all, claimed, f, i)]
                /\ KeptOf(all, claimed) = f[Len(all)]
<1> DEFINE IsLoop(f, n) == f = [i \in 0..n |-> Keeps(all, claimed, f, i)]
           T == {n \in Nat : \E f : IsLoop(f, n)}
<1>1. 0 \in T
  <2> DEFINE f == [i \in 0..0 |-> <<>>]
  <2>1. IsLoop(f, 0)
    BY DEF Keeps
  <2>2. QED BY <2>1
<1>2. ASSUME NEW n \in Nat, n \in T PROVE n + 1 \in T
  <2>1. PICK f : IsLoop(f, n)
    BY <1>2
  <2> DEFINE g == [i \in 0..n + 1 |-> Keeps(all, claimed, f, i)]
  <2>2. \A i \in 0..n : g[i] = f[i]
    BY <2>1
  <2>3. \A i \in 0..n + 1 : i # 0 => i - 1 \in 0..n
    OBVIOUS
  <2>4. \A i \in 0..n + 1 : Keeps(all, claimed, f, i) = Keeps(all, claimed, g, i)
    <3> TAKE i \in 0..n + 1
    <3>1. i # 0 => g[i - 1] = f[i - 1]
      BY <2>2, <2>3
    <3> HIDE DEF g
    <3>2. QED BY <3>1 DEF Keeps
  <2>5. IsLoop(g, n + 1)
    BY <2>4
  <2> HIDE DEF IsLoop, g
  <2>6. QED BY <2>5
<1>3. PICK g : IsLoop(g, Len(all))
  <2>1. Len(all) \in Nat
    BY LenProperties
  <2> HIDE DEF T
  <2>2. Len(all) \in T
    BY <1>1, <1>2, <2>1, Induction
  <2>3. QED BY <2>2 DEF T
<1> DEFINE P(f) == IsLoop(f, Len(all))
<1>4. P(CHOOSE f : P(f))
  <2>1. P(g)
    BY <1>3
  <2> HIDE DEF P
  <2>2. QED BY <2>1
<1>5. KeptOf(all, claimed) = (CHOOSE f : P(f))[Len(all)]
  BY DEF KeptOf, Keeps
<1>6. QED BY <1>4, <1>5

\* It keeps the claimed rows and no other, and none twice.
LEMMA LoopKeeps ==
  ASSUME NEW all \in Seq(Row), NEW claimed,
         \A i, j \in 1..Len(all) : all[i].id = all[j].id => i = j
  PROVE  LET kept == KeptOf(all, claimed)
         IN /\ kept \in Seq(Row)
            /\ \A k \in 1..Len(kept) : /\ kept[k].id \in claimed
                                       /\ \E i \in 1..Len(all) : kept[k] = all[i]
            /\ \A i \in 1..Len(all) : all[i].id \in claimed => \E k \in 1..Len(kept) : kept[k] = all[i]
            /\ \A j, k \in 1..Len(kept) : kept[j].id = kept[k].id => j = k
<1> DEFINE Good(s, n) ==
      /\ s \in Seq(Row)
      /\ \A k \in 1..Len(s) : s[k].id \in claimed /\ \E i \in 1..n : s[k] = all[i]
      /\ \A i \in 1..n : all[i].id \in claimed => \E k \in 1..Len(s) : s[k] = all[i]
      /\ \A j, k \in 1..Len(s) : s[j].id = s[k].id => j = k
<1>1. PICK f : /\ f = [i \in 0..Len(all) |-> Keeps(all, claimed, f, i)]
               /\ KeptOf(all, claimed) = f[Len(all)]
  BY LoopDefined
<1> DEFINE T == {n \in Nat : n <= Len(all) => Good(f[n], n)}
<1>2. Len(all) \in Nat
  BY LenProperties
<1>3. 0 \in T
  <2>1. f[0] = <<>>
    <3>1. 0 \in 0..Len(all)
      BY <1>2
    <3>2. f[0] = Keeps(all, claimed, f, 0)
      BY <1>1, <3>1
    <3>3. QED BY <3>2 DEF Keeps
  <2>2. Good(<<>>, 0)
    <3>1. <<>> \in Seq(Row) /\ Len(<<>>) = 0 /\ 1..0 = {}
      BY EmptySeq
    <3>2. QED BY <3>1
  <2> HIDE DEF Good
  <2>3. QED BY <2>1, <2>2
<1>4. ASSUME NEW n \in Nat, n \in T PROVE n + 1 \in T
  <2> HIDE DEF Good
  <2> SUFFICES ASSUME n + 1 <= Len(all) PROVE Good(f[n + 1], n + 1)
    OBVIOUS
  <2>1. n + 1 \in 0..Len(all) /\ n + 1 \in 1..Len(all) /\ (n + 1) - 1 = n /\ n <= Len(all) /\ n + 1 # 0
    BY <1>2
  <2>2. Good(f[n], n)
    BY <1>4, <2>1
  <2> USE DEF Good
  <2>3. f[n + 1] = IF all[n + 1].id \in claimed THEN Append(f[n], all[n + 1]) ELSE f[n]
    <3>1. f[n + 1] = Keeps(all, claimed, f, n + 1)
      BY <1>1, <2>1
    <3>2. QED BY <2>1, <3>1 DEF Keeps
  <2> DEFINE s == f[n]
             row == all[n + 1]
  <2>4. row \in Row
    BY <2>1, ElementOfSeq
  <2>5. \A i \in 1..n + 1 : i \in 1..n \/ i = n + 1
    OBVIOUS
  <2>6. CASE row.id \in claimed
    <3> DEFINE t == Append(s, row)
    <3>1. f[n + 1] = t
      BY <2>3, <2>6
    <3>2. /\ t \in Seq(Row) /\ Len(t) = Len(s) + 1 /\ t[Len(s) + 1] = row /\ Len(s) \in Nat
          /\ \A k \in 1..Len(s) : t[k] = s[k]
      BY <2>2, <2>4, AppendProperties, LenProperties
    <3> HIDE DEF t
    <3>3. \A k \in 1..Len(t) : k \in 1..Len(s) \/ k = Len(s) + 1
      BY <3>2
    <3>4. \A k \in 1..Len(s) : k \in 1..Len(t)
      BY <3>2
    <3>5. \A k \in 1..Len(s) : s[k].id # row.id
      <4> TAKE k \in 1..Len(s)
      <4>1. PICK i \in 1..n : s[k] = all[i]
        BY <2>2
      <4>2. i \in 1..Len(all) /\ i # n + 1
        BY <1>2, <2>1
      <4>3. QED BY <2>1, <4>1, <4>2
    <3>6. \A k \in 1..Len(t) : t[k].id \in claimed /\ \E i \in 1..n + 1 : t[k] = all[i]
      <4> TAKE k \in 1..Len(t)
      <4>1. CASE k \in 1..Len(s)
        <5>1. s[k].id \in claimed /\ t[k] = s[k]
          BY <2>2, <3>2, <4>1
        <5>2. PICK i \in 1..n : s[k] = all[i]
          BY <2>2, <4>1
        <5>3. i \in 1..n + 1
          OBVIOUS
        <5>4. QED BY <5>1, <5>2, <5>3
      <4>2. CASE k = Len(s) + 1
        BY <2>6, <3>2, <4>2
      <4>3. QED BY <3>3, <4>1, <4>2
    <3>7. \A i \in 1..n + 1 : all[i].id \in claimed => \E k \in 1..Len(t) : t[k] = all[i]
      <4> TAKE i \in 1..n + 1
      <4>1. CASE i \in 1..n
        BY <2>2, <3>2, <3>4, <4>1
      <4>2. CASE i = n + 1
        <5>1. Len(s) + 1 \in 1..Len(t)
          BY <3>2
        <5>2. QED BY <3>2, <4>2, <5>1
      <4>3. QED BY <2>5, <4>1, <4>2
    <3>8. \A j, k \in 1..Len(t) : t[j].id = t[k].id => j = k
      <4> TAKE j, k \in 1..Len(t)
      <4> HAVE t[j].id = t[k].id
      <4>1. CASE j \in 1..Len(s) /\ k \in 1..Len(s)
        BY <2>2, <3>2, <4>1
      <4>2. CASE j \in 1..Len(s) /\ k = Len(s) + 1
        BY <3>2, <3>5, <4>2
      <4>3. CASE j = Len(s) + 1 /\ k \in 1..Len(s)
        BY <3>2, <3>5, <4>3
      <4>4. QED BY <3>3, <4>1, <4>2, <4>3
    <3>9. QED BY <3>1, <3>2, <3>6, <3>7, <3>8
  <2>7. CASE row.id \notin claimed
    <3>1. f[n + 1] = s
      BY <2>3, <2>7
    <3>2. \A k \in 1..Len(s) : s[k].id \in claimed /\ \E i \in 1..n + 1 : s[k] = all[i]
      <4> TAKE k \in 1..Len(s)
      <4>1. PICK i \in 1..n : s[k] = all[i]
        BY <2>2
      <4>2. i \in 1..n + 1
        OBVIOUS
      <4>3. QED BY <2>2, <4>1, <4>2
    <3>3. \A i \in 1..n + 1 : all[i].id \in claimed => \E k \in 1..Len(s) : s[k] = all[i]
      BY <2>2, <2>5, <2>7
    <3>4. s \in Seq(Row) /\ \A j, k \in 1..Len(s) : s[j].id = s[k].id => j = k
      BY <2>2
    <3> HIDE DEF s
    <3>5. QED BY <3>1, <3>2, <3>3, <3>4
  <2>8. QED BY <2>6, <2>7
<1>5. Good(f[Len(all)], Len(all))
  <2> HIDE DEF T
  <2>1. Len(all) \in T
    BY <1>2, <1>3, <1>4, Induction
  <2> HIDE DEF Good
  <2>2. QED BY <1>2, <2>1 DEF T
<1> DEFINE kept == KeptOf(all, claimed)
<1>6. Good(kept, Len(all))
  <2> HIDE DEF Good
  <2>1. QED BY <1>1, <1>5
<1> HIDE DEF kept
<1>7. QED BY <1>6 DEF kept

-----------------------------------------------------------------------------
(* The alias table *)

\* The n-th entry of the table is shown as speaker n, and nothing else is.
LEMMA AliasShows ==
  ASSUME NEW table \in Seq(Names), NEW name \in Names,
         \A k \in 1..Len(table) : table[k] \notin Generic,
         \A j, k \in 1..Len(table) : table[j] = table[k] => j = k
  PROVE  /\ \A k \in 1..Len(table) : table[k] = name =>
              SpeakerIn(table, name) = [label |-> "displayed-alias", alias |-> k]
         /\ (\A k \in 1..Len(table) : table[k] # name) =>
              SpeakerIn(table, name) = [label |-> IF name \in Generic THEN "anonymous" ELSE "unknown", alias |-> 0]
<1>1. ASSUME NEW k \in 1..Len(table), table[k] = name
      PROVE  SpeakerIn(table, name) = [label |-> "displayed-alias", alias |-> k]
  <2> DEFINE c == CHOOSE n \in 1..Len(table) : table[n] = name
  <2>1. c \in 1..Len(table) /\ table[c] = name
    BY <1>1
  <2>2. c = k
    BY <1>1, <2>1
  <2>3. name \notin Generic
    BY <1>1
  <2>4. SpeakerIn(table, name) = [label |-> "displayed-alias", alias |-> c]
    BY <1>1, <2>3 DEF SpeakerIn
  <2>5. QED BY <2>2, <2>4
<1>2. ASSUME \A k \in 1..Len(table) : table[k] # name
      PROVE  SpeakerIn(table, name) = [label |-> IF name \in Generic THEN "anonymous" ELSE "unknown", alias |-> 0]
  BY <1>2 DEF SpeakerIn
<1>3. QED BY <1>1, <1>2

\* The table after a name was read, and what it makes of the names read before.
LEMMA NamedTable ==
  ASSUME TypeOK, Aliases, NEW name \in Names
  PROVE  LET table == Named(name)
         IN /\ table \in Seq(Names) /\ Len(table) <= MaxAliases /\ Len(table) >= Len(aliases)
            /\ \A k \in 1..Len(table) : table[k] \notin Generic
            /\ \A j, k \in 1..Len(table) : table[j] = table[k] => j = k
            /\ \A other \in Names :
                 (SpeakerIn(aliases, other).label = "unknown" => Len(aliases) >= MaxAliases)
                   => SpeakerIn(table, other) = SpeakerIn(aliases, other)
<1>1. /\ aliases \in Seq(Names) /\ Len(aliases) <= MaxAliases /\ Len(aliases) \in Nat
      /\ \A k \in 1..Len(aliases) : aliases[k] \notin Generic
      /\ \A j, k \in 1..Len(aliases) : aliases[j] = aliases[k] => j = k
  BY LenProperties DEF TypeOK, Aliases
<1>2. CASE name \in Generic \/ Known(name) \/ Len(aliases) >= MaxAliases
  <2>1. Named(name) = aliases
    BY <1>2 DEF Named
  <2>2. QED BY <1>1, <2>1
<1>3. CASE ~(name \in Generic \/ Known(name) \/ Len(aliases) >= MaxAliases)
  <2> DEFINE table == Named(name)
             n == Len(aliases)
  <2>1. table = Append(aliases, name) /\ name \notin Generic /\ n < MaxAliases
        /\ \A k \in 1..n : aliases[k] # name
    BY <1>1, <1>3, RowConstants DEF Named, Known
  <2>2. /\ table \in Seq(Names) /\ Len(table) = n + 1 /\ table[n + 1] = name
        /\ \A k \in 1..n : table[k] = aliases[k]
    BY <1>1, <2>1, AppendProperties
  <2> HIDE DEF table
  <2>3. \A k \in 1..Len(table) : k \in 1..n \/ k = n + 1
    BY <1>1, <2>2
  <2>4. \A k \in 1..Len(table) : table[k] \notin Generic
    BY <1>1, <2>1, <2>2, <2>3
  <2>5. \A j, k \in 1..Len(table) : table[j] = table[k] => j = k
    <3> TAKE j, k \in 1..Len(table)
    <3> HAVE table[j] = table[k]
    <3>1. QED BY <1>1, <2>1, <2>2, <2>3
  <2>6. ASSUME NEW other \in Names, SpeakerIn(aliases, other).label = "unknown" => n >= MaxAliases
        PROVE  SpeakerIn(table, other) = SpeakerIn(aliases, other)
    <3>1. CASE \E k \in 1..n : aliases[k] = other
      <4>1. PICK k \in 1..n : aliases[k] = other
        BY <3>1
      <4>2. k \in 1..Len(table) /\ table[k] = other
        BY <1>1, <2>2, <4>1
      <4>3. SpeakerIn(aliases, other) = [label |-> "displayed-alias", alias |-> k]
        BY <1>1, <4>1, AliasShows
      <4>4. SpeakerIn(table, other) = [label |-> "displayed-alias", alias |-> k]
        BY <2>2, <2>4, <2>5, <4>2, AliasShows
      <4>5. QED BY <4>3, <4>4
    <3>2. CASE \A k \in 1..n : aliases[k] # other
      <4>1. SpeakerIn(aliases, other)
              = [label |-> IF other \in Generic THEN "anonymous" ELSE "unknown", alias |-> 0]
        BY <1>1, <3>2, AliasShows
      <4>2. other \in Generic
        <5> SUFFICES ASSUME other \notin Generic PROVE FALSE
          OBVIOUS
        <5>1. SpeakerIn(aliases, other).label = "unknown"
          BY <4>1
        <5>2. n >= MaxAliases
          BY <2>6, <5>1
        <5>3. QED BY <1>1, <2>1, <5>2, RowConstants
      <4>3. \A k \in 1..Len(table) : table[k] # other
        BY <2>4, <4>2
      <4>4. SpeakerIn(table, other)
              = [label |-> IF other \in Generic THEN "anonymous" ELSE "unknown", alias |-> 0]
        BY <2>2, <2>4, <2>5, <4>3, AliasShows
      <4>5. QED BY <4>1, <4>4
    <3>3. QED BY <3>1, <3>2
  <2>7. Len(table) <= MaxAliases /\ Len(table) >= n
    BY <1>1, <2>1, <2>2, RowConstants
  <2>8. QED BY <2>2, <2>4, <2>5, <2>6, <2>7 DEF table
<1>4. QED BY <1>2, <1>3

\* Who has just been read is in the table, or it is full.
LEMMA NameTaken ==
  ASSUME TypeOK, Aliases, NEW name \in Names
  PROVE  LET speaker == SpeakerIn(Named(name), name)
         IN /\ speaker \in Speaker
            /\ speaker.label = "unknown" => Len(Named(name)) >= MaxAliases
            /\ speaker.label = "displayed-alias" =>
                 speaker.alias \in 1..Len(Named(name)) /\ Named(name)[speaker.alias] = name
<1> DEFINE table == Named(name)
<1>1. /\ table \in Seq(Names) /\ Len(table) <= MaxAliases /\ Len(table) \in Nat
      /\ \A k \in 1..Len(table) : table[k] \notin Generic
      /\ \A j, k \in 1..Len(table) : table[j] = table[k] => j = k
  BY NamedTable, LenProperties
<1>2. CASE \E k \in 1..Len(table) : table[k] = name
  <2>1. PICK k \in 1..Len(table) : table[k] = name
    BY <1>2
  <2> HIDE DEF table
  <2>2. SpeakerIn(table, name) = [label |-> "displayed-alias", alias |-> k]
    BY <1>1, <2>1, AliasShows
  <2>3. k \in 0..MaxAliases
    BY <1>1, <2>1, RowConstants
  <2>4. QED BY <2>1, <2>2, <2>3 DEF Speaker, table
<1>3. CASE \A k \in 1..Len(table) : table[k] # name
  <2>1. SpeakerIn(table, name) = [label |-> IF name \in Generic THEN "anonymous" ELSE "unknown", alias |-> 0]
    <3> HIDE DEF table
    <3>1. QED BY <1>1, <1>3, AliasShows
  <2>2. name \notin Generic => Len(table) >= MaxAliases
    <3> SUFFICES ASSUME name \notin Generic, ~(Len(table) >= MaxAliases) PROVE FALSE
      OBVIOUS
    <3>1. aliases \in Seq(Names) /\ Len(aliases) \in Nat
      BY LenProperties DEF TypeOK
    <3>2. CASE Known(name) \/ Len(aliases) >= MaxAliases
      <4>1. table = aliases
        BY <3>2 DEF Named
      <4>2. QED BY <1>3, <3>2, <4>1 DEF Known
    <3>3. CASE ~(Known(name) \/ Len(aliases) >= MaxAliases)
      <4>1. table = Append(aliases, name)
        BY <3>3 DEF Named
      <4> HIDE DEF table
      <4>2. Len(table) = Len(aliases) + 1 /\ table[Len(aliases) + 1] = name
        BY <3>1, <4>1, AppendProperties
      <4>3. Len(aliases) + 1 \in 1..Len(table)
        BY <3>1, <4>2
      <4>4. QED BY <1>3, <4>2, <4>3
    <3>4. QED BY <3>2, <3>3
  <2> HIDE DEF table
  <2>3. QED BY <2>1, <2>2, RowConstants DEF Speaker, table
<1>4. QED BY <1>2, <1>3

-----------------------------------------------------------------------------
(* A line *)

\* A step of the abstract feed, or none.
Tells == feed' = feed \/ Contract!Next

\* ReadTwice and OneVoice, of one step.
TellsReadTwice ==
  \A id \in DOMAIN feed' :
    id \notin DOMAIN feed \/ feed'[id].revision # feed[id].revision =>
      \E one, other \in {name \in Names : SpeakerIn(aliases', name) = feed'[id].speaker} :
        <<one, feed'[id].text>> \in frame.before /\ <<other, feed'[id].text>> \in frame'.read

TellsOneVoice ==
  \A id \in DOMAIN feed' :
    (id \notin DOMAIN feed \/ feed'[id].revision # feed[id].revision)
      /\ feed'[id].speaker.label = "displayed-alias"
      => /\ feed'[id].speaker.alias \in 1..Len(aliases')
         /\ <<aliases'[feed'[id].speaker.alias], feed'[id].text>> \in frame'.read

Promise == Tells /\ TellsReadTwice /\ TellsOneVoice

LEMMA SilentPromise == ASSUME feed' = feed PROVE Promise
  BY DEF Promise, Tells, TellsReadTwice, TellsOneVoice

\* What reading a name does, whatever happens to the rows.
LEMMA NameRead ==
  ASSUME IInv, NEW name \in Names, aliases' = Named(name)
  PROVE  /\ aliases' \in Seq(Names) /\ Len(aliases') <= MaxAliases /\ Len(aliases') >= Len(aliases)
         /\ \A k \in 1..Len(aliases') : aliases'[k] \notin Generic
         /\ \A j, k \in 1..Len(aliases') : aliases'[j] = aliases'[k] => j = k
         /\ SpeakerIn(aliases', name) \in Speaker
         /\ SpeakerIn(aliases', name).label = "unknown" => Len(aliases') >= MaxAliases
         /\ SpeakerIn(aliases', name).label = "displayed-alias" =>
              /\ SpeakerIn(aliases', name).alias \in 1..Len(aliases')
              /\ aliases'[SpeakerIn(aliases', name).alias] = name
         /\ \A readings : \A i \in 1..Len(rows) :
              ReadIn(aliases, rows[i], readings) => ReadIn(aliases', rows[i], readings)
<1>1. TypeOK /\ Aliases
  BY DEF IInv
<1>2. ASSUME NEW i \in 1..Len(rows), NEW readings, ReadIn(aliases, rows[i], readings)
      PROVE  ReadIn(aliases', rows[i], readings)
  <2>1. PICK other \in Names : /\ <<other, rows[i].text>> \in readings
                               /\ SpeakerIn(aliases, other) = rows[i].speaker
    BY <1>2 DEF ReadIn
  <2>2. SpeakerIn(aliases, other).label = "unknown" => Len(aliases) >= MaxAliases
    BY <1>1, <2>1 DEF Aliases
  <2>3. SpeakerIn(aliases', other) = SpeakerIn(aliases, other)
    BY <1>1, <2>2, NamedTable
  <2>4. QED BY <2>1, <2>3 DEF ReadIn
<1>3. \A readings : \A i \in 1..Len(rows) :
        ReadIn(aliases, rows[i], readings) => ReadIn(aliases', rows[i], readings)
  BY <1>2
<1>4. QED BY <1>1, <1>3, NamedTable, NameTaken

\* The line that claims a row: what the frame then holds.
LEMMA Claimed ==
  ASSUME TypeOK, NEW key \in Keys, NEW name \in Names, NEW text \in Texts, NEW id \in 1..MaxRows,
         frame.open, Claim(key, name, text, id)
  PROVE  /\ frame' \in Frame /\ frame'.open /\ frame'.before = frame.before
         /\ frame'.claimed = frame.claimed \cup {id}
         /\ frame'.read = frame.read \cup {<<name, text>>}
<1>1. key \in Nat /\ <<name, text>> \in Names \X Texts
  BY RowConstants
<1>2. QED BY <1>1 DEF TypeOK, Frame, Claim

\* A line that puts a row of the same id and speaker, with the text it read, in the
\* place of a row nobody had claimed.
RowChanges(i, row, key, name, text) ==
  /\ i \in 1..Len(rows) /\ rows[i].id \notin frame.claimed
  /\ row \in Row /\ row.id = rows[i].id /\ row.speaker = rows[i].speaker /\ row.text = text
  /\ rows[i].speaker = SpeakerIn(aliases', name)
  /\ rows' = [rows EXCEPT ![i] = row]
  /\ nextId' = nextId
  /\ Claim(key, name, text, row.id)

LEMMA RowChangesHolds ==
  ASSUME IInv, NEW key \in Keys, NEW name \in Names, NEW text \in Texts,
         frame.open, aliases' = Named(name), NEW i, NEW row, RowChanges(i, row, key, name, text)
  PROVE  /\ rows' \in Seq(Row) /\ Len(rows') = Len(rows) /\ rows'[i] = row
         /\ \A j \in 1..Len(rows) : j # i => rows'[j] = rows[j] /\ rows[j].id # row.id
         /\ frame' \in Frame
         /\ Aliases' /\ Readings'
         /\ \A j, k \in 1..Len(rows') : rows'[j].id = rows'[k].id => j = k
         /\ \A j \in 1..Len(rows') : rows'[j].id < nextId'
<1>1. rows \in Seq(Row) /\ i \in 1..Len(rows) /\ row \in Row /\ row.id \in 1..MaxRows
  BY DEF IInv, TypeOK, RowChanges, Row
<1>2. /\ rows' \in Seq(Row) /\ Len(rows') = Len(rows) /\ rows'[i] = row
      /\ \A j \in 1..Len(rows) : j # i => rows'[j] = rows[j]
  BY <1>1, ExceptSeq DEF RowChanges
<1>3. \A j \in 1..Len(rows) : j # i => rows[j].id # row.id
  BY <1>1 DEF IInv, RowIds, RowChanges
<1>4. /\ frame' \in Frame /\ frame'.open /\ frame'.before = frame.before
      /\ frame'.claimed = frame.claimed \cup {row.id}
      /\ frame'.read = frame.read \cup {<<name, text>>}
  BY <1>1, Claimed DEF IInv, RowChanges
<1>5. Aliases'
  <2>1. \A j \in 1..Len(rows') : rows'[j].speaker = rows[j].speaker
    BY <1>1, <1>2 DEF RowChanges
  <2>2. Len(aliases) \in Nat /\ Len(aliases') \in Nat
    BY NameRead, LenProperties DEF IInv, TypeOK
  <2>3. \A j \in 1..Len(rows') : rows'[j].speaker.label = "unknown" => Len(aliases') >= MaxAliases
    BY <1>2, <2>1, <2>2, NameRead, RowConstants DEF IInv, Aliases
  <2>4. QED BY <2>3, NameRead DEF Aliases
<1>6. Readings'
  <2>1. ASSUME NEW j \in 1..Len(rows')
        PROVE  ReadIn(aliases', rows'[j], IF rows'[j].id \in frame'.claimed THEN frame'.read ELSE frame'.before)
    <3>1. CASE j = i
      <4>1. rows'[j].id \in frame'.claimed
        BY <1>2, <1>4, <3>1
      <4>2. <<name, rows'[j].text>> \in frame'.read /\ SpeakerIn(aliases', name) = rows'[j].speaker
        BY <1>2, <1>4, <3>1 DEF RowChanges
      <4>3. QED BY <4>1, <4>2 DEF ReadIn
    <3>2. CASE j # i
      <4>1. j \in 1..Len(rows) /\ rows'[j] = rows[j] /\ rows[j].id # row.id
        BY <1>2, <1>3, <3>2
      <4>2. ReadIn(aliases, rows[j], IF rows[j].id \in frame.claimed THEN frame.read ELSE frame.before)
        BY <4>1 DEF IInv, Readings
      <4>3. ReadIn(aliases', rows[j], IF rows[j].id \in frame.claimed THEN frame.read ELSE frame.before)
        BY <4>1, <4>2, NameRead
      <4>4. rows[j].id \in frame.claimed <=> rows'[j].id \in frame'.claimed
        BY <1>4, <4>1
      <4>5. frame.read \subseteq frame'.read
        BY <1>4
      <4>6. QED BY <1>4, <4>1, <4>3, <4>4, <4>5 DEF ReadIn
    <3>3. QED BY <3>1, <3>2
  <2>2. QED BY <1>4, <2>1 DEF Readings
<1>7. \A j, k \in 1..Len(rows') : rows'[j].id = rows'[k].id => j = k
  BY <1>1, <1>2, <1>3 DEF IInv, RowIds, RowChanges
<1>8. \A j \in 1..Len(rows') : rows'[j].id < nextId'
  BY <1>1, <1>2 DEF IInv, RowIds, RowChanges
<1>9. QED BY <1>2, <1>3, <1>4, <1>5, <1>6, <1>7, <1>8

LEMMA FirstOf ==
  ASSUME NEW S, S \subseteq Nat, S # {} PROVE First(S) \in S
<1> DEFINE R == {p \in Nat \X Nat : p[1] < p[2]}
<1>1. IsWellFoundedOn(R, Nat)
  BY NatLessThanWellFounded DEF OpToRel
<1> HIDE DEF R
<1>2. PICK x \in S : \A y \in S : ~(<<y, x>> \in R)
  BY <1>1, WFMin
<1>3. \A y \in S : x <= y
  <2> TAKE y \in S
  <2>1. x \in Nat /\ y \in Nat /\ ~(y < x)
    BY <1>2 DEF R
  <2>2. QED BY <2>1
<1>4. QED BY <1>3 DEF First

LEMMA NewRowHolds ==
  ASSUME IInv, NEW key \in Keys, NEW name \in Names, NEW text \in Texts, running' = running,
         frame.open, aliases' = Named(name), NewRow(key, name, text, SpeakerIn(aliases', name))
  PROVE  IInv' /\ Promise
<1> DEFINE speaker == SpeakerIn(aliases', name)
           row == [key |-> key, id |-> nextId, revision |-> 0, speaker |-> speaker,
                   text |-> text, stable |-> 1, emitted |-> None]
           n == Len(rows)
<1>1. /\ rows \in Seq(Row) /\ n \in Nat /\ nextId \in 1..MaxRows /\ nextId' = nextId + 1
      /\ rows' = Append(rows, row) /\ feed' = feed /\ Claim(key, name, text, nextId)
  BY LenProperties, RowConstants DEF IInv, TypeOK, NewRow
<1>2. speaker \in Speaker /\ (speaker.label = "unknown" => Len(aliases') >= MaxAliases)
  BY NameRead
<1>3. row \in Row /\ row.id = nextId /\ row.speaker = speaker /\ row.text = text
      /\ row.emitted = None /\ row.revision = 0
  BY <1>1, <1>2, RowConstants DEF Row
<1> HIDE DEF speaker, row
<1>4. /\ rows' \in Seq(Row) /\ Len(rows') = n + 1 /\ rows'[n + 1] = row
      /\ \A j \in 1..n : rows'[j] = rows[j]
  BY <1>1, <1>3, AppendProperties
<1>5. \A j \in 1..Len(rows') : j \in 1..n \/ j = n + 1
  BY <1>1, <1>4
<1>6. \A j \in 1..n : rows[j].id < nextId
  BY DEF IInv, RowIds
<1>6b. \A j \in 1..n : rows[j].id \in 1..MaxRows
  <2>1. \A j \in 1..n : rows[j] \in Row
    BY <1>1, ElementOfSeq
  <2>2. QED BY <2>1 DEF Row
<1>7. /\ frame' \in Frame /\ frame'.open /\ frame'.before = frame.before
      /\ frame'.claimed = frame.claimed \cup {nextId}
      /\ frame'.read = frame.read \cup {<<name, text>>}
  BY <1>1, Claimed DEF IInv
<1>8. TypeOK'
  <2>1. nextId' \in 1..MaxRows + 1
    BY <1>1, RowConstants
  <2>2. QED BY <1>1, <1>4, <1>7, <2>1, NameRead DEF IInv, TypeOK
<1>9. Aliases'
  <2>1. Len(aliases) \in Nat /\ Len(aliases') \in Nat
    BY NameRead, LenProperties DEF IInv, TypeOK
  <2>2. \A j \in 1..Len(rows') : rows'[j].speaker.label = "unknown" => Len(aliases') >= MaxAliases
    BY <1>2, <1>3, <1>4, <1>5, <2>1, NameRead, RowConstants DEF IInv, Aliases
  <2>3. QED BY <2>2, NameRead DEF Aliases
<1>10. RowIds'
  <2>1. \A j, k \in 1..Len(rows') : rows'[j].id = rows'[k].id => j = k
    <3> TAKE j, k \in 1..Len(rows')
    <3> HAVE rows'[j].id = rows'[k].id
    <3>1. \A l \in 1..n : rows[l].id # nextId
      BY <1>1, <1>6, <1>6b
    <3>2. QED BY <1>1, <1>3, <1>4, <1>5, <3>1 DEF IInv, RowIds
  <2>2. \A j \in 1..Len(rows') : rows'[j].id < nextId'
    BY <1>1, <1>3, <1>4, <1>5, <1>6, <1>6b
  <2>3. \A id \in DOMAIN feed : id < nextId + 1
    BY <1>1 DEF IInv, RowIds, TypeOK
  <2>4. QED BY <1>1, <2>1, <2>2, <2>3 DEF RowIds
<1>11. Fed'
  <2>1. nextId \notin DOMAIN feed
    BY <1>1 DEF IInv, RowIds
  <2>2. \A j \in 1..Len(rows') : FedRow(rows'[j], feed')
    <3>1. \A j \in 1..n : FedRow(rows[j], feed)
      BY DEF IInv, Fed
    <3>2. QED BY <1>1, <1>3, <1>4, <1>5, <2>1, <3>1 DEF FedRow
  <2>3. \A j \in 1..n : j \in 1..Len(rows')
    BY <1>1, <1>4
  <2>4. \A id \in DOMAIN feed' : feed'[id].gone \/ \E i \in 1..Len(rows') : rows'[i].id = id
    BY <1>1, <1>4, <2>3 DEF IInv, Fed
  <2>5. QED BY <2>2, <2>4 DEF Fed
<1>12. Readings'
  <2>1. ASSUME NEW j \in 1..Len(rows')
        PROVE  ReadIn(aliases', rows'[j], IF rows'[j].id \in frame'.claimed THEN frame'.read ELSE frame'.before)
    <3>1. CASE j = n + 1
      BY <1>3, <1>4, <1>7, <3>1 DEF ReadIn, speaker
    <3>2. CASE j \in 1..n
      <4>1. rows'[j] = rows[j] /\ rows[j].id # nextId
        BY <1>1, <1>4, <1>6, <1>6b, <3>2
      <4>2. ReadIn(aliases', rows[j], IF rows[j].id \in frame.claimed THEN frame.read ELSE frame.before)
        BY <3>2, NameRead DEF IInv, Readings
      <4>3. rows[j].id \in frame.claimed <=> rows'[j].id \in frame'.claimed
        BY <1>7, <4>1
      <4>4. frame.read \subseteq frame'.read
        BY <1>7
      <4>5. QED BY <1>7, <4>1, <4>2, <4>3, <4>4 DEF ReadIn
    <3>3. QED BY <1>5, <3>1, <3>2
  <2>2. QED BY <1>7, <2>1 DEF Readings
<1>13. QED BY <1>1, <1>8, <1>9, <1>10, <1>11, <1>12, SilentPromise DEF IInv

\* Same and Likely are indices of rows that nobody has claimed.
LEMMA SameRow ==
  ASSUME IInv, NEW speaker, NEW text, Same(speaker, text) # {}
  PROVE  LET i == First(Same(speaker, text))
         IN /\ i \in 1..Len(rows) /\ rows[i] \in Row /\ rows[i].id \notin frame.claimed
            /\ rows[i].speaker = speaker /\ rows[i].text = text
<1>1. rows \in Seq(Row) /\ Len(rows) \in Nat
  BY LenProperties DEF IInv, TypeOK
<1>2. \A i \in 1..Len(rows) : rows[i] \in Row
  BY <1>1, ElementOfSeq
<1>3. Same(speaker, text) \subseteq Nat
  BY <1>1 DEF Same, Unclaimed
<1>4. First(Same(speaker, text)) \in Same(speaker, text)
  BY <1>3, FirstOf
<1>5. QED BY <1>2, <1>4 DEF Same, Unclaimed

LEMMA LikelyRow ==
  ASSUME IInv, NEW key, NEW speaker, NEW text, Likely(key, speaker, text) # {}
  PROVE  LET i == First(Likely(key, speaker, text))
         IN /\ i \in 1..Len(rows) /\ rows[i] \in Row /\ rows[i].id \notin frame.claimed
            /\ rows[i].speaker = speaker
<1>1. rows \in Seq(Row) /\ Len(rows) \in Nat
  BY LenProperties DEF IInv, TypeOK
<1>2. \A i \in 1..Len(rows) : rows[i] \in Row
  BY <1>1, ElementOfSeq
<1>3. Likely(key, speaker, text) \subseteq Nat
  BY <1>1 DEF Likely, Unclaimed
<1>4. First(Likely(key, speaker, text)) \in Likely(key, speaker, text)
  BY <1>3, FirstOf
<1>5. QED BY <1>2, <1>4 DEF Likely, Unclaimed

LEMMA RewrittenHolds ==
  ASSUME IInv, NEW key \in Keys, NEW name \in Names, NEW text \in Texts, running' = running,
         frame.open, aliases' = Named(name), Rewritten(key, name, text, SpeakerIn(aliases', name))
  PROVE  IInv' /\ Promise
<1> DEFINE speaker == SpeakerIn(aliases', name)
           i == First(Likely(key, speaker, text))
           row == [rows[i] EXCEPT !.key = key, !.text = text, !.stable = 1]
<1>1. /\ i \in 1..Len(rows) /\ rows[i] \in Row /\ rows[i].id \notin frame.claimed
      /\ rows[i].speaker = speaker
  BY LikelyRow DEF Rewritten
<1>2. /\ rows' = [rows EXCEPT ![i] = row] /\ Claim(key, name, text, rows[i].id)
      /\ nextId' = nextId /\ feed' = feed
  BY DEF Rewritten
<1> HIDE DEF i
<1>3. row \in Row /\ row.id = rows[i].id /\ row.speaker = rows[i].speaker /\ row.text = text
      /\ row.emitted = rows[i].emitted /\ row.revision = rows[i].revision
  BY <1>1 DEF Row
<1> HIDE DEF row
<1>4. RowChanges(i, row, key, name, text)
  BY <1>1, <1>2, <1>3 DEF RowChanges
<1>5. /\ rows' \in Seq(Row) /\ Len(rows') = Len(rows) /\ rows'[i] = row
      /\ \A j \in 1..Len(rows) : j # i => rows'[j] = rows[j]
      /\ frame' \in Frame /\ Aliases' /\ Readings'
      /\ \A j, k \in 1..Len(rows') : rows'[j].id = rows'[k].id => j = k
      /\ \A j \in 1..Len(rows') : rows'[j].id < nextId'
  BY <1>4, RowChangesHolds
<1>6. TypeOK'
  BY <1>2, <1>5, NameRead DEF IInv, TypeOK
<1>7. RowIds'
  BY <1>2, <1>5 DEF IInv, RowIds
<1>8. Fed'
  <2>1. \A j \in 1..Len(rows') : FedRow(rows'[j], feed')
    <3> TAKE j \in 1..Len(rows')
    <3>1. FedRow(rows[j], feed) /\ rows'[j].id = rows[j].id /\ rows'[j].emitted = rows[j].emitted
          /\ rows'[j].revision = rows[j].revision /\ rows'[j].speaker = rows[j].speaker
      BY <1>1, <1>3, <1>5 DEF IInv, Fed
    <3>2. QED BY <1>2, <3>1 DEF FedRow
  <2>2. \A id \in DOMAIN feed' : feed'[id].gone \/ \E j \in 1..Len(rows') : rows'[j].id = id
    BY <1>1, <1>2, <1>3, <1>5 DEF IInv, Fed
  <2>3. QED BY <2>1, <2>2 DEF Fed
<1>9. QED BY <1>2, <1>5, <1>6, <1>7, <1>8, SilentPromise DEF IInv

LEMMA RereadHolds ==
  ASSUME IInv, NEW key \in Keys, NEW name \in Names, NEW text \in Texts, running' = running,
         frame.open, aliases' = Named(name), Reread(key, name, text, SpeakerIn(aliases', name))
  PROVE  IInv' /\ Promise
<1> DEFINE speaker == SpeakerIn(aliases', name)
           i == First(Same(speaker, text))
           read == [rows[i] EXCEPT !.key = key, !.stable = 2]
           row == Emit(read)
           old == rows[i]
           fresh == row.revision # old.revision
<1>1. /\ i \in 1..Len(rows) /\ old \in Row /\ old.id \notin frame.claimed
      /\ old.speaker = speaker /\ old.text = text
  <2>1. Same(speaker, text) # {}
    BY DEF Reread
  <2> HIDE DEF speaker
  <2>2. QED BY <2>1, SameRow
<1>2. /\ row.revision <= MaxRevisions /\ rows' = [rows EXCEPT ![i] = row]
      /\ Claim(key, name, text, old.id) /\ nextId' = nextId
      /\ feed' = IF row.revision = old.revision THEN feed ELSE Tell(row)
  BY DEF Reread
<1> HIDE DEF i
<1>3. /\ read \in Row /\ read.id = old.id /\ read.speaker = speaker /\ read.text = text
      /\ read.emitted = old.emitted /\ read.revision = old.revision
  BY <1>1 DEF Row
<1> HIDE DEF read
<1>4. IF old.emitted = text THEN row = read
      ELSE row = [read EXCEPT !.revision = @ + 1, !.emitted = read.text]
  BY <1>3 DEF Emit
<1>5. old.revision \in Nat
  BY <1>1, RowConstants DEF Row
<1> HIDE DEF row, old
<1>6. /\ row \in Row /\ row.id = old.id /\ row.speaker = speaker /\ row.text = text /\ row.emitted = text
      /\ row.revision = IF old.emitted = text THEN old.revision ELSE old.revision + 1
  <2>1. CASE old.emitted = text
    BY <1>3, <1>4, <2>1
  <2>2. CASE old.emitted # text
    <3>1. row = [read EXCEPT !.revision = old.revision + 1, !.emitted = text]
      BY <1>3, <1>4, <2>2
    <3>2. row.revision = old.revision + 1 /\ row.emitted = text /\ row.id = old.id
          /\ row.speaker = speaker /\ row.text = text
      BY <1>3, <3>1 DEF Row
    <3>3. old.revision + 1 \in 0..MaxRevisions
      BY <1>2, <1>5, <3>2, RowConstants
    <3>4. row \in Row
      BY <1>3, <3>1, <3>3 DEF Row
    <3>5. QED BY <2>2, <3>2, <3>4
  <2>3. QED BY <2>1, <2>2
<1>7. fresh <=> old.emitted # text
  BY <1>5, <1>6
<1>8. RowChanges(i, row, key, name, text)
  BY <1>1, <1>2, <1>6 DEF RowChanges, old
<1>9. /\ rows' \in Seq(Row) /\ Len(rows') = Len(rows) /\ rows'[i] = row
      /\ \A j \in 1..Len(rows) : j # i => rows'[j] = rows[j] /\ rows[j].id # row.id
      /\ frame' \in Frame /\ Aliases' /\ Readings'
      /\ \A j, k \in 1..Len(rows') : rows'[j].id = rows'[k].id => j = k
      /\ \A j \in 1..Len(rows') : rows'[j].id < nextId'
  BY <1>8, RowChangesHolds
<1>10. FedRow(old, feed) /\ i \in 1..Len(rows) /\ text # None
  BY <1>1, RowConstants DEF IInv, Fed, old
<1>11. CASE ~fresh
  <2>1. feed' = feed
    BY <1>2, <1>11
  <2>2. TypeOK'
    BY <1>2, <1>9, <2>1, NameRead DEF IInv, TypeOK
  <2>3. RowIds'
    BY <1>2, <1>9, <2>1 DEF IInv, RowIds
  <2>4. FedRow(row, feed)
    BY <1>1, <1>6, <1>7, <1>10, <1>11 DEF FedRow
  <2>5. \A j \in 1..Len(rows') : FedRow(rows'[j], feed')
    BY <1>9, <2>1, <2>4 DEF IInv, Fed
  <2>6. \A id \in DOMAIN feed' : feed'[id].gone \/ \E j \in 1..Len(rows') : rows'[j].id = id
    BY <1>6, <1>9, <1>10, <2>1 DEF IInv, Fed, old
  <2>7. QED BY <1>9, <2>1, <2>2, <2>3, <2>5, <2>6, SilentPromise DEF IInv, Fed
<1>12. CASE fresh
  <2> DEFINE told == [revision |-> row.revision, speaker |-> speaker, text |-> text, gone |-> FALSE]
  <2>1. feed' = [id \in DOMAIN feed \cup {row.id} |-> IF id = row.id THEN told ELSE feed[id]]
    BY <1>2, <1>6, <1>12 DEF Tell, Told
  <2>2. row.revision \in 1..MaxRevisions /\ row.revision = old.revision + 1 /\ row.id \in 1..MaxRows
        /\ speaker \in Speaker
    BY <1>2, <1>5, <1>6, <1>7, <1>12, RowConstants DEF Row
  <2>3. told \in [revision : 1..MaxRevisions, speaker : Speaker, text : Texts, gone : BOOLEAN]
    BY <2>2
  <2>4. told.revision = row.revision /\ told.speaker = speaker /\ told.text = text /\ told.gone = FALSE
    OBVIOUS
  <2> HIDE DEF told
  <2>5. /\ DOMAIN feed' = DOMAIN feed \cup {row.id} /\ feed'[row.id] = told
        /\ \A id \in DOMAIN feed : id # row.id => feed'[id] = feed[id]
    BY <2>1
  <2>6. TypeOK'
    <3>1. DOMAIN feed' \subseteq 1..MaxRows
      BY <2>2, <2>5 DEF IInv, TypeOK
    <3>2. \A id \in DOMAIN feed' : feed'[id] \in [revision : 1..MaxRevisions, speaker : Speaker,
                                                  text : Texts, gone : BOOLEAN]
      BY <2>3, <2>5 DEF IInv, TypeOK
    <3>3. QED BY <1>2, <1>9, <3>1, <3>2, NameRead DEF IInv, TypeOK
  <2>7. RowIds'
    <3>1. row.id < nextId
      BY <1>1, <1>6 DEF IInv, RowIds, old
    <3>2. QED BY <1>2, <1>9, <2>5, <3>1 DEF IInv, RowIds
  <2>8. \A j \in 1..Len(rows') : FedRow(rows'[j], feed')
    <3> TAKE j \in 1..Len(rows')
    <3>1. CASE j = i
      <4>1. told = [revision |-> row.revision, speaker |-> row.speaker, text |-> row.emitted, gone |-> FALSE]
        BY <1>6 DEF told
      <4>2. QED BY <1>6, <1>9, <1>10, <2>5, <3>1, <4>1 DEF FedRow
    <3>2. CASE j # i
      <4>1. FedRow(rows[j], feed) /\ rows'[j] = rows[j] /\ rows[j].id # row.id
        BY <1>9, <3>2 DEF IInv, Fed
      <4>2. QED BY <2>5, <4>1 DEF FedRow
    <3>3. QED BY <3>1, <3>2
  <2>9. \A id \in DOMAIN feed' : feed'[id].gone \/ \E j \in 1..Len(rows') : rows'[j].id = id
    <3> TAKE id \in DOMAIN feed'
    <3>1. CASE id = row.id
      BY <1>9, <1>10, <3>1
    <3>2. CASE id # row.id
      <4>1. feed[id].gone \/ \E j \in 1..Len(rows) : rows[j].id = id
        BY <2>5, <3>2 DEF IInv, Fed
      <4>2. \A j \in 1..Len(rows) : rows'[j].id = rows[j].id
        BY <1>6, <1>9 DEF old
      <4>3. QED BY <1>9, <2>5, <3>2, <4>1, <4>2
    <3>3. QED BY <3>1, <3>2
  <2>10. Contract!Observe(row.id)
    <3>1. CASE row.id \notin DOMAIN feed
      <4>1. old.revision = 0
        BY <1>6, <1>10, <3>1 DEF FedRow
      <4>2. QED BY <2>2, <2>4, <2>5, <3>1, <4>1 DEF Contract!Observe
    <3>2. CASE row.id \in DOMAIN feed
      <4>1. feed[row.id] = [revision |-> old.revision, speaker |-> old.speaker,
                            text |-> old.emitted, gone |-> FALSE]
        BY <1>6, <1>10, <3>2 DEF FedRow
      <4>2. QED BY <1>1, <1>7, <1>12, <2>2, <2>4, <2>5, <3>2, <4>1 DEF Contract!Observe
    <3>3. QED BY <3>1, <3>2
  <2>11. Tells
    BY <2>5, <2>10 DEF Tells, Contract!Next
  <2>12. \A id \in DOMAIN feed' :
           id \notin DOMAIN feed \/ feed'[id].revision # feed[id].revision => id = row.id
    BY <2>5
  <2>13. frame'.read = frame.read \cup {<<name, text>>} /\ frame.open
    BY <1>1, <1>2, Claimed DEF IInv, TypeOK, Row
  <2>14. TellsReadTwice
    <3>1. PICK one \in Names : <<one, text>> \in frame.before /\ SpeakerIn(aliases', one) = speaker
      <4>1. ReadIn(aliases, old, frame.before)
        BY <1>1 DEF IInv, Readings, old
      <4>2. ReadIn(aliases', old, frame.before)
        BY <1>1, <4>1, NameRead DEF old
      <4>3. QED BY <1>1, <4>2 DEF ReadIn
    <3>2. <<name, text>> \in frame'.read
      BY <2>13
    <3>3. QED BY <2>4, <2>5, <2>12, <3>1, <3>2 DEF TellsReadTwice
  <2>15. TellsOneVoice
    <3>1. speaker.label = "displayed-alias" =>
            speaker.alias \in 1..Len(aliases') /\ aliases'[speaker.alias] = name
      BY NameRead
    <3> HIDE DEF speaker
    <3>2. QED BY <2>4, <2>5, <2>12, <2>13, <3>1 DEF TellsOneVoice
  <2>16. QED BY <1>9, <2>6, <2>7, <2>8, <2>9, <2>11, <2>14, <2>15 DEF IInv, Fed, Promise
<1>13. QED BY <1>11, <1>12

LEMMA LineReadHolds ==
  ASSUME IInv, NEW key \in Keys, NEW name \in Names, NEW text \in Texts, LineRead(key, name, text)
  PROVE  IInv' /\ Promise
BY NewRowHolds, RewrittenHolds, RereadHolds DEF LineRead

-----------------------------------------------------------------------------
(* The other steps *)

LEMMA FrameBeginsHolds == ASSUME IInv, FrameBegins PROVE IInv' /\ Promise
<1>1. UNCHANGED <<aliases, rows, nextId, running, feed>> /\ ~frame.open /\ frame.claimed = {}
  BY DEF IInv, Readings, FrameBegins
<1>2. /\ frame' \in Frame /\ frame'.open /\ frame'.claimed = {} /\ frame'.before = frame.before
  BY DEF IInv, TypeOK, Frame, FrameBegins
<1>3. TypeOK'
  BY <1>1, <1>2 DEF IInv, TypeOK
<1>4. Aliases' /\ RowIds' /\ Fed'
  BY <1>1 DEF IInv, Aliases, RowIds, Fed
<1>5. Readings'
  BY <1>1, <1>2 DEF IInv, Readings
<1>6. QED BY <1>1, <1>3, <1>4, <1>5, SilentPromise DEF IInv

LEMMA FrameEndsHolds == ASSUME IInv, FrameEnds PROVE IInv' /\ Promise
<1> DEFINE ids == frame.claimed
<1>1. /\ rows \in Seq(Row) /\ rows' = KeptOf(rows, ids) /\ frame' = Closed
      /\ UNCHANGED <<aliases, nextId, running>>
      /\ \A i, j \in 1..Len(rows) : rows[i].id = rows[j].id => i = j
  BY DEF IInv, TypeOK, RowIds, FrameEnds, Kept
<1>2. /\ rows' \in Seq(Row)
      /\ \A k \in 1..Len(rows') : rows'[k].id \in ids /\ \E i \in 1..Len(rows) : rows'[k] = rows[i]
      /\ \A i \in 1..Len(rows) : rows[i].id \in ids => \E k \in 1..Len(rows') : rows'[k] = rows[i]
      /\ \A j, k \in 1..Len(rows') : rows'[j].id = rows'[k].id => j = k
  <2> DEFINE kept == KeptOf(rows, ids)
  <2>1. /\ kept \in Seq(Row)
        /\ \A k \in 1..Len(kept) : kept[k].id \in ids /\ \E i \in 1..Len(rows) : kept[k] = rows[i]
        /\ \A i \in 1..Len(rows) : rows[i].id \in ids => \E k \in 1..Len(kept) : kept[k] = rows[i]
        /\ \A j, k \in 1..Len(kept) : kept[j].id = kept[k].id => j = k
    BY <1>1, LoopKeeps
  <2>2. rows' = kept
    BY <1>1
  <2> HIDE DEF kept
  <2>3. QED BY <2>1, <2>2
<1>3. /\ DOMAIN feed' = DOMAIN feed
      /\ \A id \in DOMAIN feed : feed'[id] = IF id \in Lost THEN [feed[id] EXCEPT !.gone = TRUE] ELSE feed[id]
  BY DEF FrameEnds
<1>4. /\ frame' \in Frame /\ ~frame'.open /\ frame'.claimed = {} /\ frame'.before = frame.read
  BY <1>1 DEF IInv, TypeOK, Frame, Closed
<1>5. \A id \in DOMAIN feed : /\ feed[id] \in [revision : 1..MaxRevisions, speaker : Speaker,
                                              text : Texts, gone : BOOLEAN]
                              /\ feed'[id] \in [revision : 1..MaxRevisions, speaker : Speaker,
                                                text : Texts, gone : BOOLEAN]
                              /\ feed'[id].revision = feed[id].revision
                              /\ id \in Lost => feed'[id].gone
  <2> TAKE id \in DOMAIN feed
  <2>1. feed[id] \in [revision : 1..MaxRevisions, speaker : Speaker, text : Texts, gone : BOOLEAN]
    BY DEF IInv, TypeOK
  <2>2. CASE id \in Lost
    <3>1. feed'[id] = [feed[id] EXCEPT !.gone = TRUE]
      BY <1>3, <2>2
    <3>2. QED BY <2>1, <3>1
  <2>3. CASE id \notin Lost
    BY <1>3, <2>1, <2>3
  <2>4. QED BY <2>2, <2>3
<1>6. TypeOK'
  BY <1>1, <1>2, <1>3, <1>4, <1>5 DEF IInv, TypeOK
<1>7. Aliases'
  BY <1>1, <1>2 DEF IInv, Aliases
<1>8. RowIds'
  BY <1>1, <1>2, <1>3 DEF IInv, RowIds
<1>9. Fed'
  <2>1. \A k \in 1..Len(rows') : FedRow(rows'[k], feed')
    <3> TAKE k \in 1..Len(rows')
    <3>1. PICK i \in 1..Len(rows) : rows'[k] = rows[i]
      BY <1>2
    <3>2. FedRow(rows[i], feed) /\ rows[i].id \in ids
      BY <1>2, <3>1 DEF IInv, Fed
    <3>3. rows[i].id \notin Lost
      BY <3>2 DEF Lost
    <3>4. QED BY <1>3, <3>1, <3>2, <3>3 DEF FedRow
  <2>2. \A id \in DOMAIN feed' : feed'[id].gone \/ \E k \in 1..Len(rows') : rows'[k].id = id
    <3> TAKE id \in DOMAIN feed'
    <3>1. CASE id \in Lost
      BY <1>3, <1>5, <3>1
    <3>2. CASE id \notin Lost /\ ~feed[id].gone
      <4>1. PICK i \in 1..Len(rows) : rows[i].id = id
        BY <1>3, <3>2 DEF IInv, Fed
      <4>2. FedRow(rows[i], feed) /\ id \in DOMAIN feed
        BY <1>3 DEF IInv, Fed
      <4>3. rows[i].emitted # None
        BY <4>1, <4>2 DEF FedRow
      <4>4. id \in ids
        BY <3>2, <4>1, <4>3 DEF Lost
      <4>5. QED BY <1>2, <4>1, <4>4
    <3>3. CASE id \notin Lost /\ feed[id].gone
      BY <1>3, <3>3
    <3>4. QED BY <3>1, <3>2, <3>3
  <2>3. QED BY <2>1, <2>2 DEF Fed
<1>10. Readings'
  <2>1. ASSUME NEW k \in 1..Len(rows') PROVE ReadIn(aliases', rows'[k], frame'.before)
    <3>1. PICK i \in 1..Len(rows) : rows'[k] = rows[i]
      BY <1>2
    <3>2. rows[i].id \in ids
      BY <1>2, <3>1
    <3>3. ReadIn(aliases, rows[i], frame.read)
      BY <3>2 DEF IInv, Readings
    <3>4. QED BY <1>1, <1>4, <3>1, <3>3
  <2>2. QED BY <1>4, <2>1 DEF Readings
<1>11. Contract!Disappear(Lost \cap DOMAIN feed)
  <2>1. feed' = [id \in DOMAIN feed |-> IF id \in Lost THEN [feed[id] EXCEPT !.gone = TRUE] ELSE feed[id]]
    BY DEF FrameEnds
  <2>2. QED BY <2>1 DEF Contract!Disappear
<1>12. Tells
  <2>1. Lost \cap DOMAIN feed \in SUBSET DOMAIN feed
    OBVIOUS
  <2>2. QED BY <1>11, <2>1 DEF Tells, Contract!Next
<1>13. TellsReadTwice /\ TellsOneVoice
  BY <1>3, <1>5 DEF TellsReadTwice, TellsOneVoice
<1>14. QED BY <1>6, <1>7, <1>8, <1>9, <1>10, <1>12, <1>13 DEF IInv, Promise

LEMMA StillHolds ==
  ASSUME IInv, UNCHANGED <<aliases, rows, nextId, frame, feed>>, running' \in BOOLEAN
  PROVE  IInv' /\ Promise
<1>1. TypeOK'
  BY DEF IInv, TypeOK
<1>2. Aliases' /\ RowIds' /\ Fed' /\ Readings'
  BY DEF IInv, Aliases, RowIds, Fed, Readings
<1>3. QED BY <1>1, <1>2, SilentPromise DEF IInv

LEMMA InitHolds == Init => IInv
<1> SUFFICES ASSUME Init PROVE IInv
  OBVIOUS
<1>1. aliases \in Seq(Names) /\ rows \in Seq(Row) /\ Len(aliases) = 0 /\ Len(rows) = 0
  BY EmptySeq DEF Init
<1>2. DOMAIN feed = {}
  BY DEF Init
<1>3. frame \in Frame /\ frame.claimed = {}
  BY DEF Init, Frame
<1>4. TypeOK
  BY <1>1, <1>2, <1>3, RowConstants DEF Init, TypeOK
<1>5. Aliases /\ RowIds /\ Fed /\ Readings
  BY <1>1, <1>2, <1>3 DEF Aliases, RowIds, Fed, Readings
<1>6. QED BY <1>4, <1>5 DEF IInv

LEMMA StepHolds == ASSUME IInv, [Next]_vars PROVE IInv' /\ Promise
<1>1. CASE FrameBegins
  BY <1>1, FrameBeginsHolds
<1>2. CASE FrameEnds
  BY <1>2, FrameEndsHolds
<1>3. CASE WorkerEnds
  BY <1>3, StillHolds DEF WorkerEnds
<1>4. ASSUME NEW key \in Keys, NEW name \in Names, NEW text \in Texts, LineRead(key, name, text)
      PROVE  IInv' /\ Promise
  BY <1>4, LineReadHolds
<1>5. CASE UNCHANGED vars
  BY <1>5, StillHolds DEF vars, IInv, TypeOK
<1>6. QED BY <1>1, <1>2, <1>3, <1>4, <1>5 DEF Next

-----------------------------------------------------------------------------
(* Theorems *)

\* The tracker and what it has told agree with each other in every state.
THEOREM Tracked == Spec => []IInv
<1>1. IInv /\ [Next]_vars => IInv'
  BY StepHolds
<1>2. QED BY <1>1, InitHolds, PTL DEF Spec

\* The rows, the alias table and the feed stay within their types: no row id and no
\* revision is past its bound, every alias has an entry.
THEOREM TypeCorrect == Spec => []TypeOK
<1>1. IInv => TypeOK
  BY DEF IInv
<1>2. QED BY <1>1, Tracked, PTL

\* After each frame the browser shows the rows the tracker follows, with the text that
\* was sent last: none is left on the screen that has gone, none is missing.
THEOREM ScreenAlwaysAgrees == Spec => []ScreenAgrees
<1>1. IInv => ScreenAgrees
  <2> SUFFICES ASSUME IInv PROVE ScreenAgrees
    OBVIOUS
  <2> DEFINE shown == {<<id, feed[id].text>> : id \in {row \in DOMAIN feed : ~feed[row].gone}}
             kept == {<<rows[i].id, rows[i].emitted>> : i \in {j \in 1..Len(rows) : rows[j].emitted # None}}
  <2>1. \A i \in 1..Len(rows) : FedRow(rows[i], feed)
    BY DEF IInv, Fed
  <2>2. ASSUME NEW id \in DOMAIN feed, ~feed[id].gone PROVE <<id, feed[id].text>> \in kept
    <3>1. PICK i \in 1..Len(rows) : rows[i].id = id
      BY <2>2 DEF IInv, Fed
    <3>2. FedRow(rows[i], feed) /\ rows[i].id \in DOMAIN feed
      BY <2>1, <3>1
    <3>3. rows[i].emitted # None /\ feed[id].text = rows[i].emitted
      <4> HIDE DEF shown, kept
      <4>1. QED BY <3>1, <3>2 DEF FedRow
    <3>4. QED BY <3>1, <3>3
  <2>3. ASSUME NEW i \in 1..Len(rows), rows[i].emitted # None
        PROVE  <<rows[i].id, rows[i].emitted>> \in shown
    <3>1. /\ rows[i].id \in DOMAIN feed /\ feed[rows[i].id].text = rows[i].emitted
          /\ ~feed[rows[i].id].gone
      <4>1. FedRow(rows[i], feed)
        BY <2>1
      <4> HIDE DEF shown, kept
      <4>2. QED BY <2>3, <4>1 DEF FedRow
    <3>2. QED BY <3>1
  <2>4. shown \subseteq kept
    BY <2>2
  <2>5. kept \subseteq shown
    BY <2>3
  <2>6. shown = kept
    BY <2>4, <2>5
  <2>7. QED BY <2>6 DEF ScreenAgrees
<1>2. QED BY <1>1, Tracked, PTL

\* The worker implements RowFeed: one row per appearance, a revision per rewrite, one
\* speaker per row, and no row comes back once it has left the screen.
THEOREM FeedKept == Spec => KeepsContract
<1>1. Init => Contract!Init
  BY DEF Init, Contract!Init
<1>2. IInv /\ [Next]_vars => [Contract!Next]_feed
  BY StepHolds DEF Promise, Tells
<1>3. QED BY <1>1, <1>2, Tracked, PTL DEF Spec, KeepsContract, Contract!Spec

\* Nothing is sent that two consecutive frames did not read, with one speaker.
THEOREM NothingSentUnread == Spec => ReadTwice
<1>1. IInv /\ [Next]_vars => [TellsReadTwice]_vars
  BY StepHolds DEF Promise
<1>2. QED BY <1>1, Tracked, PTL DEF Spec, ReadTwice, TellsReadTwice

\* No text is sent under the alias of somebody whose name it was not read under.
THEOREM AliasesTellApart == Spec => OneVoice
<1>1. IInv /\ [Next]_vars => [TellsOneVoice]_vars
  BY StepHolds DEF Promise
<1>2. QED BY <1>1, Tracked, PTL DEF Spec, OneVoice, TellsOneVoice

=============================================================================
