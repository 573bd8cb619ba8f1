--------------------------- MODULE DiscussionMap ---------------------------
(***************************************************************************)
(* The analysed discussion and its history: the contract every model       *)
(* answer goes through (app/domain/analysis/contract.ts), the human edits, *)
(* undo and redo (app/domain/mind-map/workspace.ts), the page that holds   *)
(* the history (app/app/page.tsx), and the asynchronous analysis that the  *)
(* capture panel schedules (scheduleAnalysis).                             *)
(*                                                                         *)
(* applyAnalysisDelta works on a copy and publishes it at the end, in one  *)
(* synchronous call.  Its loop over the operations of a delta is unrolled  *)
(* here: `draft` is the copy, and nothing else happens while it is open.   *)
(*                                                                         *)
(* Titles, details and confidences are left out.  Statuses are grouped:    *)
(* "open" stands for proposed, open and blocked, "final" for confirmed and *)
(* done.  The relation of a link is left out.                              *)
(***************************************************************************)
EXTENDS Naturals, Sequences, FiniteSets

CONSTANTS
  Ids,           \* canonical item ids; their number is maximumAnalysisItems
  Utterances,    \* ids of the utterances that may become final
  MaxEvidence,   \* maximumEvidenceIds
  MaxHistory,    \* maximumHistoryEntries
  MaxOperations, \* operations of a delta
  MaxRevision,   \* bound of the model: revisions of a session
  MaxSessions    \* bound of the model: sessions in a run

ASSUME MapConstants ==
  /\ MaxEvidence \in Nat \ {0} /\ MaxHistory \in Nat \ {0} /\ MaxOperations \in Nat \ {0}
  /\ MaxRevision \in Nat /\ MaxSessions \in Nat \ {0}

VARIABLES
  past,      \* analysisHistory.past: the items of each earlier state
  items,     \* analysisHistory.present.items
  revision,  \* analysisHistory.present.revision
  future,    \* analysisHistory.future
  final,     \* final utterances of the transcript
  session,   \* analysisGenerationRef
  request,   \* the analysis in flight; its answer is due
  draft,     \* the copy a delta is applied to
  deleting   \* a deletion of the session is under way

vars == <<past, items, revision, future, final, session, request, draft, deleting>>

Item == [kind : {"decision", "other"}, status : {"open", "final", "superseded", "withdrawn"},
         provenance : {"ai-suggested", "human-confirmed", "human-edited"},
         evidence : SUBSET Utterances, links : SUBSET Ids]

Items == UNION {[known -> Item] : known \in SUBSET Ids}

NoItems == [id \in {} |-> 0]

\* seen is a history variable: the items the analysis was asked about.
TypeOK ==
  /\ items \in Items /\ past \in Seq(Items) /\ future \in Seq(Items)
  /\ Len(past) + Len(future) <= MaxHistory
  /\ revision \in 0..MaxRevision
  /\ final \subseteq Utterances
  /\ session \in 1..MaxSessions
  /\ request \in [waiting : BOOLEAN, revision : Nat, session : Nat, seen : Items]
  /\ draft \in [open : BOOLEAN, left : 0..MaxOperations, items : Items]
  /\ deleting \in BOOLEAN

NoRequest == [waiting |-> FALSE, revision |-> 0, session |-> 0, seen |-> NoItems]
NoDraft == [open |-> FALSE, left |-> 0, items |-> NoItems]

Init ==
  /\ past = <<>> /\ items = NoItems /\ revision = 0 /\ future = <<>>
  /\ final = {} /\ session = 1 /\ request = NoRequest /\ draft = NoDraft
  /\ deleting = FALSE

-----------------------------------------------------------------------------
(* The contract *)

OfModel(item) == item.provenance = "ai-suggested"

\* validateAnalysisState
Valid(state) ==
  \A id \in DOMAIN state :
    /\ state[id].evidence # {} /\ Cardinality(state[id].evidence) <= MaxEvidence
    /\ state[id].evidence \subseteq final
    /\ state[id].links \subseteq DOMAIN state \ {id}
    /\ ~(OfModel(state[id]) /\ state[id].kind = "decision" /\ state[id].status = "final")

\* assertAiMutable
Mutable(id) == id \in DOMAIN draft.items /\ OfModel(draft.items[id])

\* parseEvidence and verifyEvidence
Evidence == {ids \in SUBSET final : ids # {} /\ Cardinality(ids) <= MaxEvidence}

Fits(evidence) == evidence # {} /\ Cardinality(evidence) <= MaxEvidence

Working == draft.open /\ draft.left > 0

Operated(state) ==
  /\ draft' = [draft EXCEPT !.items = state, !.left = @ - 1]
  /\ UNCHANGED <<past, items, revision, future, final, session, request, deleting>>

\* An add whose evidence a tombstone already has is a replay.
Replay(evidence) ==
  \E id \in DOMAIN items : /\ OfModel(items[id]) /\ items[id].status = "withdrawn"
                           /\ evidence \subseteq items[id].evidence

Add(id, kind, evidence) ==
  /\ Working /\ id \notin DOMAIN draft.items
  /\ evidence \in Evidence /\ ~Replay(evidence)
  /\ Operated([known \in DOMAIN draft.items \cup {id} |->
       IF known = id THEN [kind |-> kind, status |-> "open", provenance |-> "ai-suggested",
                           evidence |-> evidence, links |-> {}]
       ELSE draft.items[known]])

\* Mutant of Update: items a human confirmed are mutable too.
UpdateAny(id, status, added, removed) ==
  /\ Working /\ id \in DOMAIN draft.items
  /\ added \subseteq final /\ removed \subseteq draft.items[id].evidence
  /\ LET evidence == (draft.items[id].evidence \ removed) \cup added
     IN /\ Fits(evidence)
        /\ ~(draft.items[id].kind = "decision" /\ status = "final")
        /\ Operated([draft.items EXCEPT ![id].status = status, ![id].evidence = evidence])

Update(id, status, added, removed) ==
  /\ Working /\ Mutable(id)
  /\ added \subseteq final /\ removed \subseteq draft.items[id].evidence
  /\ LET evidence == (draft.items[id].evidence \ removed) \cup added
     IN /\ Fits(evidence)
        /\ ~(draft.items[id].kind = "decision" /\ status = "final")
        /\ Operated([draft.items EXCEPT ![id].status = status, ![id].evidence = evidence])

Merge(id, duplicates, evidence) ==
  /\ Working /\ Mutable(id) /\ evidence \in Evidence
  /\ duplicates # {} /\ id \notin duplicates /\ \A duplicate \in duplicates : Mutable(duplicate)
  /\ LET united == (UNION {draft.items[one].evidence : one \in duplicates \cup {id}}) \cup evidence
     IN /\ Fits(united)
        /\ Operated([known \in DOMAIN draft.items |->
             CASE known = id -> [draft.items[known] EXCEPT !.evidence = united]
               [] known \in duplicates -> [draft.items[known] EXCEPT !.status = "superseded",
                                                                     !.links = @ \cup {id}]
               [] OTHER -> draft.items[known]])

Retract(id, evidence) ==
  /\ Working /\ Mutable(id) /\ evidence \in Evidence
  /\ Fits(draft.items[id].evidence \cup evidence)
  /\ Operated([draft.items EXCEPT ![id].status = "withdrawn", ![id].evidence = @ \cup evidence])

Link(from, to, evidence) ==
  /\ Working /\ Mutable(from) /\ to \in DOMAIN draft.items \ {from} /\ evidence \in Evidence
  /\ Fits(draft.items[from].evidence \cup evidence)
  /\ Operated([draft.items EXCEPT ![from].links = @ \cup {to}, ![from].evidence = @ \cup evidence])

-----------------------------------------------------------------------------
(* History *)

\* Mutant of Trimmed: one entry too many.
TrimmedLate(stack) ==
  IF Len(stack) > MaxHistory + 1 THEN SubSeq(stack, Len(stack) - MaxHistory, Len(stack)) ELSE stack

\* trimHistoryStacks after a commit, where the redo stack is empty.
Trimmed(stack) ==
  IF Len(stack) > MaxHistory THEN SubSeq(stack, Len(stack) - MaxHistory + 1, Len(stack)) ELSE stack

\* commitAnalysisHistory with a state of the next revision.
Commit(state) ==
  /\ past' = Trimmed(Append(past, items))
  /\ future' = <<>>
  /\ items' = state /\ revision' = revision + 1

\* restoredState for an undo: AI items the target does not know stay as tombstones.
WithTombstones(target) ==
  [id \in DOMAIN target \cup {known \in DOMAIN items : OfModel(items[known])} |->
     IF id \in DOMAIN target THEN target[id] ELSE [items[id] EXCEPT !.status = "withdrawn"]]

Idle == ~draft.open

CanUndo == past # <<>> /\ Valid(WithTombstones(past[Len(past)]))
CanRedo == future # <<>> /\ Valid(Head(future))

\* Mutant of Undo: the revision goes back with the items.
UndoRewinds ==
  /\ Idle /\ revision < MaxRevision /\ CanUndo
  /\ future' = <<items>> \o future
  /\ past' = SubSeq(past, 1, Len(past) - 1)
  /\ items' = WithTombstones(past[Len(past)]) /\ revision' = revision - 1
  /\ UNCHANGED <<final, session, request, draft, deleting>>

\* Mutant of Undo: what the model added is forgotten.
UndoForgets ==
  /\ Idle /\ revision < MaxRevision /\ past # <<>>
  /\ future' = <<items>> \o future
  /\ past' = SubSeq(past, 1, Len(past) - 1)
  /\ items' = past[Len(past)] /\ revision' = revision + 1
  /\ UNCHANGED <<final, session, request, draft, deleting>>

Undo ==
  /\ Idle /\ revision < MaxRevision /\ CanUndo
  /\ future' = <<items>> \o future
  /\ past' = SubSeq(past, 1, Len(past) - 1)
  /\ items' = WithTombstones(past[Len(past)]) /\ revision' = revision + 1
  /\ UNCHANGED <<final, session, request, draft, deleting>>

Redo ==
  /\ Idle /\ revision < MaxRevision /\ CanRedo
  /\ past' = Append(past, items)
  /\ future' = Tail(future)
  /\ items' = Head(future) /\ revision' = revision + 1
  /\ UNCHANGED <<final, session, request, draft, deleting>>

\* applyHumanItemPatch: an edit, or the confirmation of a suggestion.
Edit(id, status) ==
  /\ Idle /\ revision < MaxRevision /\ id \in DOMAIN items
  /\ LET edited == [items EXCEPT ![id].status = status, ![id].provenance = "human-edited"]
     IN Valid(edited) /\ Commit(edited)
  /\ UNCHANGED <<final, session, request, draft, deleting>>

ConfirmItem(id) ==
  /\ Idle /\ revision < MaxRevision /\ id \in DOMAIN items /\ OfModel(items[id])
  /\ LET confirmed == [items EXCEPT ![id].provenance = "human-confirmed"]
     IN Valid(confirmed) /\ Commit(confirmed)
  /\ UNCHANGED <<final, session, request, draft, deleting>>

-----------------------------------------------------------------------------
(* Analysis *)

Ask ==
  /\ Idle /\ ~request.waiting
  /\ request' = [waiting |-> TRUE, revision |-> revision, session |-> session, seen |-> items]
  /\ UNCHANGED <<past, items, revision, future, final, session, draft, deleting>>

\* The answer belongs to this session and to this revision.
Answered ==
  /\ Idle /\ request.waiting
  /\ request.session = session /\ request.revision = revision /\ revision < MaxRevision
  /\ draft' = [open |-> TRUE, left |-> MaxOperations, items |-> items]
  /\ UNCHANGED <<past, items, revision, future, final, session, request, deleting>>

\* The answer is stale, empty, refused, or never comes.
Discarded ==
  /\ Idle /\ request.waiting
  /\ request' = NoRequest
  /\ UNCHANGED <<past, items, revision, future, final, session, draft, deleting>>

\* The last checks of applyAnalysisDelta, and the publication of its result.
Applied ==
  /\ draft.open /\ draft.left < MaxOperations /\ Valid(draft.items)
  /\ Commit(draft.items)
  /\ draft' = NoDraft /\ request' = NoRequest
  /\ UNCHANGED <<final, session, deleting>>

\* An operation that the contract refuses refuses the delta.
Rejected ==
  /\ draft.open
  /\ draft' = NoDraft /\ request' = NoRequest
  /\ UNCHANGED <<past, items, revision, future, final, session, deleting>>

-----------------------------------------------------------------------------
(* The transcript and its session *)

Utter(id) ==
  /\ Idle /\ id \notin final
  /\ final' = final \cup {id}
  /\ UNCHANGED <<past, items, revision, future, session, request, draft, deleting>>

Emptied == items' = NoItems /\ revision' = 0 /\ future' = <<>> /\ final' = {}

\* Mutant of StartSession: the undo stack outlives the session.
StartKeepsHistory ==
  /\ Idle /\ session < MaxSessions
  /\ session' = session + 1 /\ Emptied
  /\ UNCHANGED <<past, request, draft, deleting>>

\* An input is started: what was on the screen is gone, and so are late answers.
StartSession ==
  /\ Idle /\ session < MaxSessions
  /\ session' = session + 1 /\ Emptied /\ past' = <<>>
  /\ UNCHANGED <<request, draft, deleting>>

\* deleteCurrent disowns late answers at once, but empties the map only after the
\* input was stopped, the saves were drained and the file was erased.
DeleteBegins ==
  /\ Idle /\ ~deleting /\ session < MaxSessions
  /\ session' = session + 1 /\ deleting' = TRUE
  /\ UNCHANGED <<past, items, revision, future, final, request, draft>>

DeleteEnds ==
  /\ Idle /\ deleting
  /\ deleting' = FALSE /\ Emptied /\ past' = <<>>
  /\ UNCHANGED <<session, request, draft>>

Statuses == {"open", "final", "superseded", "withdrawn"}

Operation ==
  \/ \E id \in Ids, kind \in {"decision", "other"}, evidence \in Evidence : Add(id, kind, evidence)
  \/ \E id \in DOMAIN draft.items, status \in Statuses, added, removed \in SUBSET Utterances :
       Update(id, status, added, removed)
  \/ \E id \in DOMAIN draft.items, duplicates \in SUBSET DOMAIN draft.items, evidence \in Evidence :
       Merge(id, duplicates, evidence)
  \/ \E id \in DOMAIN draft.items, evidence \in Evidence : Retract(id, evidence)
  \/ \E from, to \in DOMAIN draft.items, evidence \in Evidence : Link(from, to, evidence)

Human ==
  \/ \E id \in DOMAIN items : ConfirmItem(id) \/ \E status \in Statuses : Edit(id, status)
  \/ Undo \/ Redo

Analysis == Ask \/ Answered \/ Discarded \/ Operation \/ Applied \/ Rejected

Next ==
  \/ Human \/ Analysis \/ \E id \in Utterances : Utter(id)
  \/ StartSession \/ DeleteBegins \/ DeleteEnds

Spec == Init /\ [][Next]_vars

-----------------------------------------------------------------------------
(* Properties *)

\* The present state always passes validateAnalysisState, and so does what undo and
\* redo would restore, tombstones included: neither is ever refused.
AlwaysRestorable ==
  /\ Valid(items)
  /\ past # <<>> => CanUndo
  /\ future # <<>> => CanRedo

\* analysis-contract.md: what a human confirmed or edited is changed by no delta,
\* whatever its operations and their order.
HumanProtected ==
  [][Applied => \A id \in DOMAIN items :
       ~OfModel(items[id]) => id \in DOMAIN items' /\ items'[id] = items[id]]_vars

\* A discussion never loses an item before its session ends or is deleted: deltas
\* leave tombstones, and so does every undo.
NothingErased ==
  [][session' = session /\ deleting' = deleting => DOMAIN items \subseteq DOMAIN items']_vars

\* An answer changes only the very state its analysis saw: a revision names one
\* state while the answer is due, through undo and redo, and even when a deletion
\* sets it back to zero under an analysis that was asked after the deletion began.
AppliedToWhatItSaw == draft.open => request.seen = items

=============================================================================
