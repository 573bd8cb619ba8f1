---------------------------- MODULE CaptionRows ----------------------------
(***************************************************************************)
(* The caption worker (native/teams-captions): the loop of RunOcrCapture   *)
(* over the speaker aliases (caption_speaker.h) and the tracking of the    *)
(* rows (caption_rows.h), from the lines that OCR reads to the row events. *)
(*                                                                         *)
(* One frame is processed in one go; its loop over the lines is unrolled.  *)
(* A line is a key (its place in the layout), a displayed name and a text. *)
(* Lines that cannot be split into a name and a text are dropped before    *)
(* and do not appear here.                                                 *)
(***************************************************************************)
EXTENDS Naturals, Sequences, FiniteSets

CONSTANTS
  Keys,         \* places of lines in the layout, numbered in reading order
  Names,        \* displayed names
  Generic,      \* names such as "Anonymous" that stand for nobody
  Texts,
  Rewrites,     \* the pairs of texts IsLikelyRewrite accepts
  None,         \* no text yet
  MaxAliases,   \* 999 in the code
  MaxRows,      \* bound of the model: row ids
  MaxRevisions  \* bound of the model: revisions of a row

ASSUME RowConstants ==
  /\ Keys \subseteq Nat \ {0} /\ Generic \subseteq Names
  /\ Rewrites \subseteq Texts \X Texts /\ None \notin Texts
  /\ MaxAliases \in Nat /\ MaxRows \in Nat /\ MaxRevisions \in Nat

VARIABLES
  aliases,   \* entries_: the k-th name is shown as speaker-k
  rows,      \* rows_
  nextId,    \* nextId_
  frame,     \* the frame being processed
  running,   \* the worker has not returned
  feed       \* history: what the row events told, see RowFeed

vars == <<aliases, rows, nextId, frame, running, feed>>

Speaker == [label : {"displayed-alias", "anonymous", "unknown"}, alias : 0..MaxAliases]

Row == [key : Keys, id : 1..MaxRows, revision : 0..MaxRevisions, speaker : Speaker,
        text : Texts, stable : {1, 2}, emitted : Texts \cup {None}]

\* last: the key of the line processed last.  read and before are history: what this
\* frame and the one before it read.
Frame == [open : BOOLEAN, last : Nat, claimed : SUBSET (1..MaxRows),
          read : SUBSET (Names \X Texts), before : SUBSET (Names \X Texts)]

TypeOK ==
  /\ aliases \in Seq(Names) /\ Len(aliases) <= MaxAliases
  /\ rows \in Seq(Row)
  /\ nextId \in 1..MaxRows + 1
  /\ frame \in Frame /\ running \in BOOLEAN
  /\ DOMAIN feed \subseteq 1..MaxRows
  /\ \A id \in DOMAIN feed : feed[id] \in [revision : 1..MaxRevisions, speaker : Speaker,
                                           text : Texts, gone : BOOLEAN]

Init ==
  /\ aliases = <<>> /\ rows = <<>> /\ nextId = 1 /\ running = TRUE
  /\ frame = [open |-> FALSE, last |-> 0, claimed |-> {}, read |-> {}, before |-> {}]
  /\ feed = [id \in {} |-> 0]

-----------------------------------------------------------------------------
(* SpeakerAliasTable *)

Known(name) == \E k \in 1..Len(aliases) : aliases[k] = name

\* AliasFor: the table after a name was read.
Named(name) ==
  IF name \in Generic \/ Known(name) \/ Len(aliases) >= MaxAliases THEN aliases
  ELSE Append(aliases, name)

\* Mutant of SpeakerIn: a name that no longer fits gets the last alias.
SpeakerSqueezed(table, name) ==
  CASE name \in Generic -> [label |-> "anonymous", alias |-> 0]
    [] name \notin Generic /\ \E k \in 1..Len(table) : table[k] = name ->
         [label |-> "displayed-alias", alias |-> CHOOSE k \in 1..Len(table) : table[k] = name]
    [] OTHER -> [label |-> "displayed-alias", alias |-> MaxAliases]

\* Anonymize, with the table that already holds the name if there was room.
SpeakerIn(table, name) ==
  CASE name \in Generic -> [label |-> "anonymous", alias |-> 0]
    [] name \notin Generic /\ \E k \in 1..Len(table) : table[k] = name ->
         [label |-> "displayed-alias", alias |-> CHOOSE k \in 1..Len(table) : table[k] = name]
    [] OTHER -> [label |-> "unknown", alias |-> 0]

-----------------------------------------------------------------------------
(* CaptionRowTracker *)

First(indices) == CHOOSE i \in indices : \A j \in indices : i <= j

Unclaimed(speaker) ==
  {i \in 1..Len(rows) : rows[i].id \notin frame.claimed /\ rows[i].speaker = speaker}

Same(speaker, text) == {i \in Unclaimed(speaker) : rows[i].text = text}

Likely(key, speaker, text) ==
  {i \in Unclaimed(speaker) : rows[i].key = key /\ <<rows[i].text, text>> \in Rewrites}

\* A row that was read twice is emitted, unless that text of it already was.
Emit(row) ==
  IF row.emitted = row.text THEN row
  ELSE [row EXCEPT !.revision = @ + 1, !.emitted = row.text]

Told(row) == [revision |-> row.revision, speaker |-> row.speaker, text |-> row.text, gone |-> FALSE]

Tell(row) == [id \in DOMAIN feed \cup {row.id} |-> IF id = row.id THEN Told(row) ELSE feed[id]]

Claim(key, name, text, id) ==
  frame' = [frame EXCEPT !.last = key, !.claimed = @ \cup {id}, !.read = @ \cup {<<name, text>>}]

NewRow(key, name, text, speaker) ==
  /\ Same(speaker, text) = {} /\ Likely(key, speaker, text) = {} /\ nextId <= MaxRows
  /\ rows' = Append(rows, [key |-> key, id |-> nextId, revision |-> 0, speaker |-> speaker,
                           text |-> text, stable |-> 1, emitted |-> None])
  /\ nextId' = nextId + 1
  /\ Claim(key, name, text, nextId)
  /\ UNCHANGED feed

\* Mutant of Rewritten: the count of equal readings is not started again.
RewrittenKeepsCount(key, name, text, speaker) ==
  /\ Same(speaker, text) = {} /\ Likely(key, speaker, text) # {}
  /\ LET i == First(Likely(key, speaker, text))
         row == IF rows[i].stable = 2 THEN Emit([rows[i] EXCEPT !.key = key, !.text = text])
                ELSE [rows[i] EXCEPT !.key = key, !.text = text]
     IN /\ row.revision <= MaxRevisions
        /\ rows' = [rows EXCEPT ![i] = row]
        /\ feed' = IF rows[i].stable = 2 THEN Tell(row) ELSE feed
        /\ Claim(key, name, text, rows[i].id)
  /\ UNCHANGED nextId

Rewritten(key, name, text, speaker) ==
  /\ Same(speaker, text) = {} /\ Likely(key, speaker, text) # {}
  /\ LET i == First(Likely(key, speaker, text))
     IN /\ rows' = [rows EXCEPT ![i].key = key, ![i].text = text, ![i].stable = 1]
        /\ Claim(key, name, text, rows[i].id)
  /\ UNCHANGED <<nextId, feed>>

\* Mutant of Reread: a rewrite does not count as a revision.
RereadUnrevised(key, name, text, speaker) ==
  /\ Same(speaker, text) # {}
  /\ LET i == First(Same(speaker, text))
         row == [rows[i] EXCEPT !.key = key, !.stable = 2, !.emitted = text,
                                !.revision = IF @ = 0 THEN 1 ELSE @]
     IN /\ rows' = [rows EXCEPT ![i] = row]
        /\ feed' = IF rows[i].emitted = text THEN feed ELSE Tell(row)
        /\ Claim(key, name, text, rows[i].id)
  /\ UNCHANGED nextId

Reread(key, name, text, speaker) ==
  /\ Same(speaker, text) # {}
  /\ LET i == First(Same(speaker, text))
         row == Emit([rows[i] EXCEPT !.key = key, !.stable = 2])
     IN /\ row.revision <= MaxRevisions
        /\ rows' = [rows EXCEPT ![i] = row]
        /\ feed' = IF row.revision = rows[i].revision THEN feed ELSE Tell(row)
        /\ Claim(key, name, text, rows[i].id)
  /\ UNCHANGED nextId

-----------------------------------------------------------------------------
(* RunOcrCapture *)

FrameBegins ==
  /\ running /\ ~frame.open
  /\ frame' = [frame EXCEPT !.open = TRUE, !.last = 0, !.claimed = {}, !.read = {}]
  /\ UNCHANGED <<aliases, rows, nextId, running, feed>>

LineRead(key, name, text) ==
  /\ running /\ frame.open /\ key > frame.last
  /\ aliases' = Named(name)
  /\ LET speaker == SpeakerIn(aliases', name)
     IN \/ NewRow(key, name, text, speaker)
        \/ Rewritten(key, name, text, speaker)
        \/ Reread(key, name, text, speaker)
  /\ UNCHANGED running

\* The loop that erases the rows without a claim, up to the i-th row.
KeptOf(all, claimed) ==
  LET kept[i \in 0..Len(all)] ==
        IF i = 0 THEN <<>>
        ELSE IF all[i].id \in claimed THEN Append(kept[i - 1], all[i]) ELSE kept[i - 1]
  IN kept[Len(all)]

Kept == KeptOf(rows, frame.claimed)

Lost == {rows[i].id : i \in {j \in 1..Len(rows) : /\ rows[j].id \notin frame.claimed
                                                   /\ rows[j].emitted # None}}

Closed == [frame EXCEPT !.open = FALSE, !.last = 0, !.claimed = {}, !.read = {}, !.before = frame.read]

\* Mutant of FrameEnds: rows that left the screen are dropped without a word.
FrameEndsSilently ==
  /\ running /\ frame.open
  /\ rows' = Kept /\ frame' = Closed
  /\ UNCHANGED <<aliases, nextId, running, feed>>

\* Rows that no line claimed are announced, if they had been, and erased.
FrameEnds ==
  /\ running /\ frame.open
  /\ rows' = Kept
  /\ feed' = [id \in DOMAIN feed |-> IF id \in Lost THEN [feed[id] EXCEPT !.gone = TRUE] ELSE feed[id]]
  /\ frame' = Closed
  /\ UNCHANGED <<aliases, nextId, running>>

\* A line of low confidence, a window that moved, an engine that failed: the worker
\* ends before it looks at any row of the frame.  (It also ends when its pipe is broken:
\* then nobody reads what it told.)
WorkerEnds ==
  /\ running /\ (frame.open => frame.last = 0)
  /\ running' = FALSE
  /\ UNCHANGED <<aliases, rows, nextId, frame, feed>>

Next ==
  \/ FrameBegins \/ FrameEnds \/ WorkerEnds
  \/ \E key \in Keys, name \in Names, text \in Texts : LineRead(key, name, text)

Spec == Init /\ [][Next]_vars

-----------------------------------------------------------------------------
(* Properties *)

\* The row events of the tracker keep the contract the browser relies on: one row per
\* appearance, a revision per rewrite, one speaker per row, no return of a row.
Contract == INSTANCE RowFeed WITH feed <- feed

KeepsContract == Contract!Spec

\* teams-caption-source.md: what is sent was read in two consecutive frames, each time
\* under a name that shows as the speaker of the row.  (For an alias that is one name;
\* those who are anonymous, or no longer fit in the table, cannot be told apart.)
ReadTwice ==
  [][\A id \in DOMAIN feed' :
       id \notin DOMAIN feed \/ feed'[id].revision # feed[id].revision =>
         \E one, other \in {name \in Names : SpeakerIn(aliases', name) = feed'[id].speaker} :
           <<one, feed'[id].text>> \in frame.before /\ <<other, feed'[id].text>> \in frame'.read]_vars

\* After each frame the rows the browser takes to be on the screen are those the
\* tracker still follows, with the text that was sent last.
ScreenAgrees ==
  ~frame.open =>
    {<<id, feed[id].text>> : id \in {row \in DOMAIN feed : ~feed[row].gone}}
      = {<<rows[i].id, rows[i].emitted>> : i \in {j \in 1..Len(rows) : rows[j].emitted # None}}

\* Two people are never shown under one alias: what a row with an alias says was read
\* under the name of that alias only.
OneVoice ==
  [][\A id \in DOMAIN feed' :
       (id \notin DOMAIN feed \/ feed'[id].revision # feed[id].revision)
         /\ feed'[id].speaker.label = "displayed-alias"
         => /\ feed'[id].speaker.alias \in 1..Len(aliases')
            /\ <<aliases'[feed'[id].speaker.alias], feed'[id].text>> \in frame'.read]_vars

=============================================================================
