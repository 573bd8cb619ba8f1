------------------------ MODULE DiscussionMapProofs ------------------------
(***************************************************************************)
(* What DiscussionMap guarantees for every number of items, utterances,    *)
(* operations and history entries: its state is well typed, no delta       *)
(* touches what a human confirmed or edited, no answer is applied to what  *)
(* it did not see, and the whole history can be restored without a loss.   *)
(***************************************************************************)
EXTENDS DiscussionMap, SequenceTheorems, TLAPS

Draft == [open : BOOLEAN, left : 0..MaxOperations, items : Items]

\* A state of the map is a function on the items it knows.
LEMMA ItemsElim ==
  ASSUME NEW state \in Items
  PROVE  DOMAIN state \subseteq Ids /\ state \in [DOMAIN state -> Item]
BY DEF Items

LEMMA ItemsIntro ==
  ASSUME NEW known \in SUBSET Ids, NEW state \in [known -> Item]
  PROVE  state \in Items /\ DOMAIN state = known
BY DEF Items

LEMMA NoItemsTyped == NoItems \in Items /\ DOMAIN NoItems = {}
<1>1. NoItems \in [{} -> Item]
  BY DEF NoItems
<1>2. QED
  BY <1>1, ItemsIntro

\* What every operation of a delta has in common.
LEMMA OperatedTyped ==
  ASSUME TypeOK, Working, NEW state \in Items, Operated(state)
  PROVE  TypeOK' /\ draft'.items = state /\ draft'.open /\ items' = items
<1>1. draft \in Draft
  BY DEF TypeOK, Draft
<1>2. draft' = [draft EXCEPT !.items = state, !.left = @ - 1]
  BY DEF Operated
<1>3. draft.left - 1 \in 0..MaxOperations
  BY <1>1, MapConstants DEF Working, Draft
<1>4. draft' \in Draft /\ draft'.items = state /\ draft'.open
  BY <1>1, <1>2, <1>3 DEF Draft, Working
<1>5. QED
  BY <1>4 DEF TypeOK, Draft, Operated

\* The copy a delta works on knows every item of the map, and has what a human
\* decided as it is.
DraftInv ==
  draft.open => /\ DOMAIN items \subseteq DOMAIN draft.items
                /\ \A id \in DOMAIN items : ~OfModel(items[id]) => draft.items[id] = items[id]

\* Revision 0 is the empty map.
ZeroInv == revision = 0 => items = NoItems

\* Revisions grow under a request, so one that is still of this session and of this
\* revision was asked about these very items -- unless a deletion emptied the map
\* under it: then there is nothing left to edit, undo or redo before its answer.
EmptyMap == revision = 0 /\ past = <<>> /\ future = <<>>

RequestInv ==
  request.waiting =>
    /\ request.session <= session
    /\ request.revision = 0 => request.seen = NoItems
    /\ request.session = session /\ ~EmptyMap =>
         /\ request.revision <= revision
         /\ request.revision = revision => request.seen = items

\* A delta is applied to an answer that is still of this session and revision.
FreshInv ==
  draft.open => /\ request.waiting /\ request.session = session
                /\ request.revision = revision /\ revision < MaxRevision

IInv == TypeOK /\ DraftInv /\ ZeroInv /\ RequestInv /\ FreshInv

LEMMA DraftTyped ==
  ASSUME TypeOK
  PROVE  /\ draft \in Draft
         /\ DOMAIN draft.items \subseteq Ids /\ draft.items \in [DOMAIN draft.items -> Item]
<1>1. draft \in Draft
  BY DEF TypeOK, Draft
<1>2. draft.items \in Items
  BY <1>1 DEF Draft
<1>3. QED
  BY <1>1, <1>2, ItemsElim

\* An operation that changes items of the model only, and forgets none.
LEMMA OperatedInd ==
  ASSUME IInv, Working, NEW state \in Items, Operated(state),
         DOMAIN draft.items \subseteq DOMAIN state,
         \A id \in DOMAIN draft.items : ~OfModel(draft.items[id]) => state[id] = draft.items[id]
  PROVE  IInv'
<1>1. TypeOK' /\ draft'.items = state /\ draft'.open /\ items' = items
  BY OperatedTyped DEF IInv
<1>2. draft.open
  BY DEF Working
<1>3. DOMAIN items \subseteq DOMAIN state
  BY <1>2 DEF IInv, DraftInv
<1>4. ASSUME NEW id \in DOMAIN items, ~OfModel(items[id])
      PROVE  state[id] = items[id]
  <2>1. id \in DOMAIN draft.items /\ draft.items[id] = items[id]
    BY <1>2, <1>4 DEF IInv, DraftInv
  <2>2. QED
    BY <2>1, <1>4
<1>5. DraftInv'
  BY <1>1, <1>3, <1>4 DEF DraftInv
<1>6. ZeroInv' /\ RequestInv'
  BY DEF IInv, ZeroInv, RequestInv, EmptyMap, Operated
<1>7. FreshInv'
  BY <1>2 DEF IInv, FreshInv, Operated
<1>8. QED
  BY <1>1, <1>5, <1>6, <1>7 DEF IInv

\* Replacing one item of the model by another item.
LEMMA ReplaceInd ==
  ASSUME IInv, Working, NEW id, Mutable(id), NEW item \in Item,
         Operated([draft.items EXCEPT ![id] = item])
  PROVE  IInv'
<1> DEFINE state == [draft.items EXCEPT ![id] = item]
<1>1. DOMAIN draft.items \subseteq Ids /\ draft.items \in [DOMAIN draft.items -> Item]
  BY DraftTyped DEF IInv
<1>2. state \in [DOMAIN draft.items -> Item]
  BY <1>1
<1>3. state \in Items /\ DOMAIN state = DOMAIN draft.items
  BY <1>1, <1>2, ItemsIntro
<1>4. \A other \in DOMAIN draft.items :
        ~OfModel(draft.items[other]) => state[other] = draft.items[other]
  BY DEF Mutable
<1>5. Operated(state)
  OBVIOUS
<1> HIDE DEF state
<1>6. QED
  BY <1>3, <1>4, <1>5, OperatedInd

LEMMA MutableItem ==
  ASSUME TypeOK, NEW id, Mutable(id)
  PROVE  id \in Ids /\ draft.items[id] \in Item
BY DraftTyped DEF Mutable

LEMMA EvidenceTyped ==
  ASSUME TypeOK
  PROVE  Evidence \subseteq SUBSET Utterances
BY DEF TypeOK, Evidence

LEMMA AddInd ==
  ASSUME IInv, NEW id \in Ids, NEW kind \in {"decision", "other"}, NEW evidence \in Evidence,
         Add(id, kind, evidence)
  PROVE  IInv'
<1> DEFINE known == DOMAIN draft.items \cup {id}
           added == [kind |-> kind, status |-> "open", provenance |-> "ai-suggested",
                     evidence |-> evidence, links |-> {}]
           state == [one \in known |-> IF one = id THEN added ELSE draft.items[one]]
<1>1. DOMAIN draft.items \subseteq Ids /\ draft.items \in [DOMAIN draft.items -> Item]
  BY DraftTyped DEF IInv
<1>2. added \in Item
  BY EvidenceTyped DEF IInv, Item
<1>3. Working /\ id \notin DOMAIN draft.items /\ Operated(state)
  BY DEF Add
<1> HIDE DEF added
<1>4. state \in [known -> Item]
  BY <1>1, <1>2
<1>5. known \in SUBSET Ids
  BY <1>1
<1>6. \A one \in DOMAIN draft.items : state[one] = draft.items[one]
  BY <1>3
<1> HIDE DEF state
<1>7. state \in Items /\ DOMAIN state = known
  BY <1>4, <1>5, ItemsIntro
<1>8. QED
  BY <1>3, <1>6, <1>7, OperatedInd

LEMMA UpdateInd ==
  ASSUME IInv, NEW id, NEW status \in Statuses, NEW added \in SUBSET Utterances,
         NEW removed \in SUBSET Utterances, Update(id, status, added, removed)
  PROVE  IInv'
<1> DEFINE evidence == (draft.items[id].evidence \ removed) \cup added
           item == [draft.items[id] EXCEPT !.status = status, !.evidence = evidence]
<1>1. Working /\ Mutable(id)
  BY DEF Update
<1>2. draft.items[id] \in Item
  BY <1>1, MutableItem DEF IInv
<1>3. item \in Item
  BY <1>2 DEF Item, Statuses
<1>4. Operated([draft.items EXCEPT ![id].status = status, ![id].evidence = evidence])
  BY DEF Update
<1>5. [draft.items EXCEPT ![id].status = status, ![id].evidence = evidence]
        = [draft.items EXCEPT ![id] = item]
  BY <1>1 DEF Mutable
<1>6. Operated([draft.items EXCEPT ![id] = item])
  BY <1>4, <1>5
<1> HIDE DEF item
<1>7. QED
  BY <1>1, <1>3, <1>6, ReplaceInd

LEMMA RetractInd ==
  ASSUME IInv, NEW id, NEW evidence \in Evidence, Retract(id, evidence)
  PROVE  IInv'
<1> DEFINE item == [draft.items[id] EXCEPT !.status = "withdrawn", !.evidence = @ \cup evidence]
<1>1. Working /\ Mutable(id)
  BY DEF Retract
<1>2. draft.items[id] \in Item /\ evidence \subseteq Utterances
  BY <1>1, MutableItem, EvidenceTyped DEF IInv
<1>3. item \in Item
  BY <1>2 DEF Item
<1>4. [draft.items EXCEPT ![id].status = "withdrawn", ![id].evidence = @ \cup evidence]
        = [draft.items EXCEPT ![id] = item]
  BY <1>1 DEF Mutable
<1>5. Operated([draft.items EXCEPT ![id] = item])
  BY <1>4 DEF Retract
<1> HIDE DEF item
<1>6. QED
  BY <1>1, <1>3, <1>5, ReplaceInd

LEMMA LinkInd ==
  ASSUME IInv, NEW from, NEW to, NEW evidence \in Evidence, Link(from, to, evidence)
  PROVE  IInv'
<1> DEFINE item == [draft.items[from] EXCEPT !.links = @ \cup {to}, !.evidence = @ \cup evidence]
<1>1. Working /\ Mutable(from) /\ to \in DOMAIN draft.items
  BY DEF Link
<1>2. draft.items[from] \in Item /\ evidence \subseteq Utterances
  BY <1>1, MutableItem, EvidenceTyped DEF IInv
<1>3. to \in Ids
  BY <1>1, DraftTyped DEF IInv
<1>4. item \in Item
  BY <1>2, <1>3 DEF Item
<1>5. [draft.items EXCEPT ![from].links = @ \cup {to}, ![from].evidence = @ \cup evidence]
        = [draft.items EXCEPT ![from] = item]
  BY <1>1 DEF Mutable
<1>6. Operated([draft.items EXCEPT ![from] = item])
  BY <1>5 DEF Link
<1> HIDE DEF item
<1>7. QED
  BY <1>1, <1>4, <1>6, ReplaceInd

LEMMA MergeInd ==
  ASSUME IInv, NEW id, NEW duplicates, NEW evidence \in Evidence, Merge(id, duplicates, evidence)
  PROVE  IInv'
<1> DEFINE united == (UNION {draft.items[one].evidence : one \in duplicates \cup {id}}) \cup evidence
           canonical == [draft.items[id] EXCEPT !.evidence = united]
           Superseded(one) == [draft.items[one] EXCEPT !.status = "superseded", !.links = @ \cup {id}]
           state == [known \in DOMAIN draft.items |->
                       CASE known = id -> [draft.items[known] EXCEPT !.evidence = united]
                         [] known \in duplicates -> Superseded(known)
                         [] OTHER -> draft.items[known]]
<1>1. Working /\ Mutable(id) /\ (\A one \in duplicates : Mutable(one)) /\ id \notin duplicates
  BY DEF Merge
<1>2. Operated(state)
  BY DEF Merge
<1>3. DOMAIN draft.items \subseteq Ids /\ draft.items \in [DOMAIN draft.items -> Item]
  BY DraftTyped DEF IInv
<1>4. id \in Ids /\ evidence \subseteq Utterances
  BY <1>1, MutableItem, EvidenceTyped DEF IInv
<1>5. \A one \in duplicates \cup {id} : draft.items[one].evidence \subseteq Utterances
  <2> SUFFICES ASSUME NEW one \in duplicates \cup {id}
               PROVE  draft.items[one].evidence \subseteq Utterances
    OBVIOUS
  <2>1. draft.items[one] \in Item
    BY <1>1, MutableItem DEF IInv
  <2>2. QED
    BY <2>1 DEF Item
<1>6. united \subseteq Utterances
  <2> SUFFICES ASSUME NEW utterance \in united
               PROVE  utterance \in Utterances
    OBVIOUS
  <2>1. CASE utterance \in evidence
    BY <1>4, <2>1
  <2>2. CASE utterance \in UNION {draft.items[one].evidence : one \in duplicates \cup {id}}
    <3>1. PICK one \in duplicates \cup {id} : utterance \in draft.items[one].evidence
      BY <2>2
    <3>2. QED
      BY <1>5, <3>1
  <2>3. QED
    BY <2>1, <2>2
<1> HIDE DEF united
<1>7. ASSUME NEW known \in DOMAIN draft.items
      PROVE  /\ [draft.items[known] EXCEPT !.evidence = united] \in Item
             /\ Superseded(known) \in Item
             /\ draft.items[known] \in Item
  <2>1. draft.items[known] \in Item
    BY <1>3
  <2>2. QED
    BY <2>1, <1>4, <1>6 DEF Item
<1> HIDE DEF Superseded
<1>8. ASSUME NEW known \in DOMAIN draft.items
      PROVE  state[known] \in Item
  BY <1>7
<1>9. state \in [DOMAIN draft.items -> Item]
  BY <1>8
<1>10. \A known \in DOMAIN draft.items :
         ~OfModel(draft.items[known]) => state[known] = draft.items[known]
  BY <1>1 DEF Mutable
<1> HIDE DEF state
<1>11. state \in Items /\ DOMAIN state = DOMAIN draft.items
  BY <1>3, <1>9, ItemsIntro
<1>12. QED
  BY <1>1, <1>2, <1>10, <1>11, OperatedInd

-----------------------------------------------------------------------------
(* The history *)

\* Commit keeps the undo stack within MaxHistory.
LEMMA TrimmedTyped ==
  ASSUME NEW stack \in Seq(Items)
  PROVE  Trimmed(stack) \in Seq(Items) /\ Len(Trimmed(stack)) <= MaxHistory
<1>1. Len(stack) \in Nat /\ MaxHistory \in Nat \ {0}
  BY MapConstants, LenProperties
<1>2. CASE Len(stack) <= MaxHistory
  BY <1>1, <1>2 DEF Trimmed
<1>3. CASE Len(stack) > MaxHistory
  <2> DEFINE from == Len(stack) - MaxHistory + 1
  <2>1. from \in 1..Len(stack) /\ Len(stack) - from + 1 = MaxHistory
    BY <1>1, <1>3
  <2>2. \A i \in from..Len(stack) : stack[i] \in Items
    <3>1. \A i \in from..Len(stack) : i \in 1..Len(stack)
      BY <1>1, <2>1
    <3>2. QED
      BY <3>1, ElementOfSeq
  <2>3. SubSeq(stack, from, Len(stack)) \in Seq(Items)
    BY <1>1, <2>1, <2>2, SubSeqProperties
  <2>4. Len(SubSeq(stack, from, Len(stack))) = Len(stack) - from + 1
    BY <1>1, <2>1, <2>2, SubSeqProperties
  <2>5. Trimmed(stack) = SubSeq(stack, from, Len(stack))
    BY <1>1, <1>3 DEF Trimmed
  <2>6. QED
    BY <2>1, <2>3, <2>4, <2>5
<1>4. QED
  BY <1>1, <1>2, <1>3

LEMMA CommitTyped ==
  ASSUME TypeOK, revision < MaxRevision, NEW state \in Items, Commit(state)
  PROVE  /\ items' \in Items /\ past' \in Seq(Items) /\ future' \in Seq(Items)
         /\ Len(past') + Len(future') <= MaxHistory
         /\ revision' \in 0..MaxRevision
<1>1. past \in Seq(Items) /\ items \in Items /\ revision \in 0..MaxRevision
  BY DEF TypeOK
<1>2. Append(past, items) \in Seq(Items)
  BY <1>1, AppendProperties
<1>3. past' \in Seq(Items) /\ Len(past') <= MaxHistory
  BY <1>2, TrimmedTyped DEF Commit
<1>4. future' \in Seq(Items) /\ Len(future') = 0
  BY EmptySeq DEF Commit
<1>5. items' \in Items /\ revision' \in 0..MaxRevision
  BY <1>1, MapConstants DEF Commit
<1>6. Len(past') \in Nat
  BY <1>3, LenProperties
<1>7. QED
  BY <1>3, <1>4, <1>5, <1>6, MapConstants

\* Every human action is one revision further, with no delta open.
LEMMA HumanInd ==
  ASSUME IInv, Idle, UNCHANGED <<final, session, request, draft, deleting>>,
         items' \in Items, past' \in Seq(Items), future' \in Seq(Items),
         Len(past') + Len(future') <= MaxHistory,
         revision < MaxRevision, revision' = revision + 1, ~EmptyMap
  PROVE  IInv'
<1>1. revision \in Nat /\ request.revision \in Nat /\ MaxRevision \in Nat /\ revision' \in 0..MaxRevision
  BY MapConstants DEF IInv, TypeOK
<1>2. TypeOK'
  BY <1>1 DEF IInv, TypeOK
<1>3. DraftInv' /\ FreshInv'
  BY DEF Idle, DraftInv, FreshInv
<1>4. ~EmptyMap' /\ ZeroInv'
  BY <1>1 DEF EmptyMap, ZeroInv
<1>5. RequestInv'
  BY <1>1, <1>4 DEF IInv, RequestInv
<1>6. QED
  BY <1>2, <1>3, <1>4, <1>5 DEF IInv

\* Replacing one item of the map and committing the result.
LEMMA PatchInd ==
  ASSUME IInv, Idle, revision < MaxRevision, NEW id \in DOMAIN items, NEW item \in Item,
         Commit([items EXCEPT ![id] = item]), UNCHANGED <<final, session, request, draft, deleting>>
  PROVE  IInv'
<1> DEFINE state == [items EXCEPT ![id] = item]
<1>1. DOMAIN items \subseteq Ids /\ items \in [DOMAIN items -> Item]
  BY ItemsElim DEF IInv, TypeOK
<1>2. state \in [DOMAIN items -> Item]
  BY <1>1
<1>3. state \in Items
  BY <1>1, <1>2, ItemsIntro
<1>4. Commit(state)
  OBVIOUS
<1> HIDE DEF state
<1>5. /\ items' \in Items /\ past' \in Seq(Items) /\ future' \in Seq(Items)
      /\ Len(past') + Len(future') <= MaxHistory
  BY <1>3, <1>4, CommitTyped DEF IInv
<1>6. revision' = revision + 1
  BY <1>4 DEF Commit
<1>7. ~EmptyMap
  BY NoItemsTyped DEF IInv, ZeroInv, EmptyMap
<1>8. QED
  BY <1>5, <1>6, <1>7, HumanInd

LEMMA EditInd ==
  ASSUME IInv, NEW id \in DOMAIN items, NEW status \in Statuses, Edit(id, status)
  PROVE  IInv'
<1> DEFINE item == [items[id] EXCEPT !.status = status, !.provenance = "human-edited"]
<1>1. Idle /\ revision < MaxRevision /\ UNCHANGED <<final, session, request, draft, deleting>>
  BY DEF Edit
<1>2. Commit([items EXCEPT ![id].status = status, ![id].provenance = "human-edited"])
  BY DEF Edit
<1>3. [items EXCEPT ![id].status = status, ![id].provenance = "human-edited"]
        = [items EXCEPT ![id] = item]
  OBVIOUS
<1>4. items[id] \in Item
  BY ItemsElim DEF IInv, TypeOK
<1>5. item \in Item
  BY <1>4 DEF Item, Statuses
<1>6. Commit([items EXCEPT ![id] = item])
  BY <1>2, <1>3
<1> HIDE DEF item
<1>7. QED
  BY <1>1, <1>5, <1>6, PatchInd

LEMMA ConfirmItemInd ==
  ASSUME IInv, NEW id \in DOMAIN items, ConfirmItem(id)
  PROVE  IInv'
<1> DEFINE item == [items[id] EXCEPT !.provenance = "human-confirmed"]
<1>1. Idle /\ revision < MaxRevision /\ UNCHANGED <<final, session, request, draft, deleting>>
  BY DEF ConfirmItem
<1>2. Commit([items EXCEPT ![id].provenance = "human-confirmed"])
  BY DEF ConfirmItem
<1>3. [items EXCEPT ![id].provenance = "human-confirmed"] = [items EXCEPT ![id] = item]
  OBVIOUS
<1>4. items[id] \in Item
  BY ItemsElim DEF IInv, TypeOK
<1>5. item \in Item
  BY <1>4 DEF Item
<1>6. Commit([items EXCEPT ![id] = item])
  BY <1>2, <1>3
<1> HIDE DEF item
<1>7. QED
  BY <1>1, <1>5, <1>6, PatchInd

\* An undo restores a state of the map.
LEMMA TombstonesTyped ==
  ASSUME items \in Items, NEW target \in Items
  PROVE  WithTombstones(target) \in Items
<1> DEFINE known == DOMAIN target \cup {one \in DOMAIN items : OfModel(items[one])}
           Kept(id) == IF id \in DOMAIN target THEN target[id]
                       ELSE [items[id] EXCEPT !.status = "withdrawn"]
<1>1. DOMAIN items \subseteq Ids /\ items \in [DOMAIN items -> Item]
  BY ItemsElim
<1>2. DOMAIN target \subseteq Ids /\ target \in [DOMAIN target -> Item]
  BY ItemsElim
<1>3. ASSUME NEW id \in known
      PROVE  Kept(id) \in Item
  <2>1. CASE id \in DOMAIN target
    BY <1>2, <2>1
  <2>2. CASE id \notin DOMAIN target
    <3>1. items[id] \in Item
      BY <1>1, <1>3, <2>2
    <3>2. [items[id] EXCEPT !.status = "withdrawn"] \in Item
      BY <3>1 DEF Item
    <3>3. QED
      BY <2>2, <3>2
  <2>3. QED
    BY <2>1, <2>2
<1>4. known \in SUBSET Ids
  BY <1>1, <1>2
<1>5. WithTombstones(target) = [id \in known |-> Kept(id)]
  BY DEF WithTombstones
<1> HIDE DEF known, Kept
<1>6. [id \in known |-> Kept(id)] \in [known -> Item]
  BY <1>3
<1>7. QED
  BY <1>4, <1>5, <1>6, ItemsIntro

LEMMA UndoInd ==
  ASSUME IInv, Undo
  PROVE  IInv'
<1> DEFINE target == past[Len(past)]
<1>1. /\ Idle /\ revision < MaxRevision /\ past # <<>>
      /\ UNCHANGED <<final, session, request, draft, deleting>> /\ revision' = revision + 1
      /\ future' = <<items>> \o future /\ past' = SubSeq(past, 1, Len(past) - 1)
      /\ items' = WithTombstones(target)
  BY DEF Undo, CanUndo
<1>2. /\ items \in Items /\ past \in Seq(Items) /\ future \in Seq(Items)
      /\ Len(past) + Len(future) <= MaxHistory
  BY DEF IInv, TypeOK
<1>3. Len(past) \in Nat \ {0} /\ Len(future) \in Nat /\ MaxHistory \in Nat
  BY <1>1, <1>2, LenProperties, EmptySeq, MapConstants
<1>4. target \in Items
  BY <1>2, <1>3, ElementOfSeq
<1>5. items' \in Items
  BY <1>1, <1>2, <1>4, TombstonesTyped
<1>6. past' \in Seq(Items) /\ Len(past') = Len(past) - 1
  <2>1. \A i \in 1..(Len(past) - 1) : past[i] \in Items
    BY <1>2, <1>3, ElementOfSeq
  <2>2. Len(past) - 1 \in Int /\ 1 \in Int
    BY <1>3
  <2>3. SubSeq(past, 1, Len(past) - 1) \in Seq(Items)
    BY <2>1, <2>2, SubSeqProperties
  <2>4. Len(SubSeq(past, 1, Len(past) - 1)) =
          IF 1 <= Len(past) - 1 THEN Len(past) - 1 - 1 + 1 ELSE 0
    BY <2>1, <2>2, SubSeqProperties
  <2>5. past' = SubSeq(past, 1, Len(past) - 1)
    BY <1>1
  <2>6. Len(past') = Len(past) - 1
    <3> DEFINE length == Len(past)
               shorter == Len(past')
    <3>1. length \in Nat \ {0} /\ shorter = IF 1 <= length - 1 THEN length - 1 - 1 + 1 ELSE 0
      BY <1>3, <2>4, <2>5
    <3> HIDE DEF length, shorter
    <3>2. shorter = length - 1
      BY <3>1
    <3>3. QED
      BY <3>2 DEF length, shorter
  <2>7. QED
    BY <2>3, <2>5, <2>6
<1>7. future' \in Seq(Items) /\ Len(future') = Len(future) + 1
  <2>1. <<items>> \in Seq(Items) /\ Len(<<items>>) = 1
    BY <1>2
  <2>2. QED
    BY <1>1, <1>2, <1>3, <2>1, ConcatProperties
<1>8. Len(past') + Len(future') <= MaxHistory
  BY <1>2, <1>3, <1>6, <1>7
<1>9. ~EmptyMap
  BY <1>1 DEF EmptyMap
<1>10. QED
  BY <1>1, <1>5, <1>6, <1>7, <1>8, <1>9, HumanInd

LEMMA RedoInd ==
  ASSUME IInv, Redo
  PROVE  IInv'
<1>1. /\ Idle /\ revision < MaxRevision /\ future # <<>>
      /\ UNCHANGED <<final, session, request, draft, deleting>> /\ revision' = revision + 1
      /\ past' = Append(past, items) /\ future' = Tail(future) /\ items' = Head(future)
  BY DEF Redo, CanRedo
<1>2. /\ items \in Items /\ past \in Seq(Items) /\ future \in Seq(Items)
      /\ Len(past) + Len(future) <= MaxHistory
  BY DEF IInv, TypeOK
<1>3. Len(past) \in Nat /\ Len(future) \in Nat /\ MaxHistory \in Nat
  BY <1>2, LenProperties, MapConstants
<1>4. past' \in Seq(Items) /\ Len(past') = Len(past) + 1
  BY <1>1, <1>2, AppendProperties
<1>5. items' \in Items /\ future' \in Seq(Items) /\ Len(future') = Len(future) - 1
  BY <1>1, <1>2, HeadTailProperties
<1>6. Len(past') + Len(future') <= MaxHistory
  BY <1>2, <1>3, <1>4, <1>5
<1>7. ~EmptyMap
  BY <1>1 DEF EmptyMap
<1>8. QED
  BY <1>1, <1>4, <1>5, <1>6, <1>7, HumanInd

-----------------------------------------------------------------------------
(* The analysis *)

LEMMA RequestTyped ==
  ASSUME NEW number \in Nat, NEW seen \in Items, NEW where \in Nat, NEW waiting \in BOOLEAN
  PROVE  [waiting |-> waiting, revision |-> number, session |-> where, seen |-> seen]
           \in [waiting : BOOLEAN, revision : Nat, session : Nat, seen : Items]
OBVIOUS

LEMMA NothingOpen ==
  /\ NoRequest \in [waiting : BOOLEAN, revision : Nat, session : Nat, seen : Items]
  /\ NoDraft \in Draft /\ ~NoRequest.waiting /\ ~NoDraft.open
<1>1. MaxOperations \in Nat
  BY MapConstants
<1>2. QED
  BY <1>1, NoItemsTyped DEF NoRequest, NoDraft, Draft

LEMMA AskInd ==
  ASSUME IInv, Ask
  PROVE  IInv'
<1>1. items \in Items /\ revision \in Nat /\ session \in Nat
  BY MapConstants DEF IInv, TypeOK
<1>2. request' = [waiting |-> TRUE, revision |-> revision, session |-> session, seen |-> items]
  BY DEF Ask
<1>3. request' \in [waiting : BOOLEAN, revision : Nat, session : Nat, seen : Items]
  BY <1>1, <1>2, RequestTyped
<1>4. TypeOK'
  BY <1>3 DEF IInv, TypeOK, Ask
<1>5. DraftInv' /\ FreshInv' /\ ZeroInv'
  BY DEF IInv, Ask, Idle, DraftInv, FreshInv, ZeroInv
<1>6. RequestInv'
  BY <1>1, <1>2 DEF IInv, Ask, RequestInv, ZeroInv
<1>7. QED
  BY <1>4, <1>5, <1>6 DEF IInv

LEMMA AnsweredInd ==
  ASSUME IInv, Answered
  PROVE  IInv'
<1>1. draft' = [open |-> TRUE, left |-> MaxOperations, items |-> items]
  BY DEF Answered
<1>2. MaxOperations \in 0..MaxOperations /\ items \in Items
  BY MapConstants DEF IInv, TypeOK
<1>3. draft' \in Draft /\ draft'.items = items
  BY <1>1, <1>2 DEF Draft
<1>4. TypeOK'
  BY <1>3 DEF IInv, TypeOK, Answered, Draft
<1>5. DraftInv'
  BY <1>3 DEF Answered, DraftInv
<1>6. FreshInv' /\ RequestInv' /\ ZeroInv'
  BY DEF IInv, Answered, FreshInv, RequestInv, ZeroInv, EmptyMap
<1>7. QED
  BY <1>4, <1>5, <1>6 DEF IInv

LEMMA DiscardedInd ==
  ASSUME IInv, Discarded
  PROVE  IInv'
<1>1. request' = NoRequest /\ UNCHANGED <<past, items, revision, future, final, session, draft, deleting>> /\ ~draft.open
  BY DEF Discarded, Idle
<1>2. TypeOK'
  BY <1>1, NothingOpen DEF IInv, TypeOK
<1>3. QED
  BY <1>1, <1>2, NothingOpen DEF IInv, DraftInv, ZeroInv, RequestInv, FreshInv

LEMMA RejectedInd ==
  ASSUME IInv, Rejected
  PROVE  IInv'
<1>1. draft' = NoDraft /\ request' = NoRequest /\ UNCHANGED <<past, items, revision, future, final, session, deleting>>
  BY DEF Rejected
<1>2. TypeOK'
  BY <1>1, NothingOpen DEF IInv, TypeOK, Draft
<1>3. QED
  BY <1>1, <1>2, NothingOpen DEF IInv, DraftInv, ZeroInv, RequestInv, FreshInv

LEMMA AppliedInd ==
  ASSUME IInv, Applied
  PROVE  IInv'
<1>1. /\ Commit(draft.items) /\ draft' = NoDraft /\ request' = NoRequest
      /\ UNCHANGED <<final, session, deleting>> /\ draft.open
  BY DEF Applied
<1>2. draft.items \in Items /\ revision < MaxRevision
  BY <1>1, DraftTyped DEF IInv, Draft, FreshInv
<1>3. /\ items' \in Items /\ past' \in Seq(Items) /\ future' \in Seq(Items)
      /\ Len(past') + Len(future') <= MaxHistory
      /\ revision' \in 0..MaxRevision
  BY <1>1, <1>2, CommitTyped DEF IInv
<1>4. TypeOK'
  BY <1>1, <1>3, NothingOpen DEF IInv, TypeOK, Draft
<1>5. revision' # 0
  BY <1>1, MapConstants DEF Commit, IInv, TypeOK
<1>6. QED
  BY <1>1, <1>4, <1>5, NothingOpen DEF IInv, DraftInv, ZeroInv, RequestInv, FreshInv

-----------------------------------------------------------------------------
(* The transcript and its session *)

LEMMA UtterInd ==
  ASSUME IInv, NEW id \in Utterances, Utter(id)
  PROVE  IInv'
<1>1. TypeOK'
  BY DEF IInv, TypeOK, Utter
<1>2. QED
  BY <1>1 DEF IInv, DraftInv, ZeroInv, RequestInv, EmptyMap, FreshInv, Utter

LEMMA EmptiedTyped ==
  ASSUME TypeOK, Emptied
  PROVE  /\ items' \in Items /\ future' \in Seq(Items) /\ <<>> \in Seq(Items) /\ final' \subseteq Utterances
         /\ revision' \in 0..MaxRevision
         /\ (past' = <<>> => Len(past') + Len(future') <= MaxHistory)
<1>1. 0 \in 0..MaxRevision /\ Len(<<>>) + Len(<<>>) <= MaxHistory
  BY MapConstants
<1>2. QED
  BY <1>1, NoItemsTyped, EmptySeq DEF Emptied

LEMMA LaterSession ==
  ASSUME TypeOK, session < MaxSessions, session' = session + 1
  PROVE  session' \in 1..MaxSessions /\ session < session' /\ session \in Nat
BY MapConstants DEF TypeOK

LEMMA StartSessionInd ==
  ASSUME IInv, StartSession
  PROVE  IInv'
<1>1. session' \in 1..MaxSessions /\ session < session' /\ session \in Nat
  BY LaterSession DEF IInv, StartSession
<1>2. request.session \in Nat /\ session' \in Nat
  BY <1>1 DEF IInv, TypeOK
<1>3. Emptied /\ past' = <<>> /\ UNCHANGED <<request, draft, deleting>> /\ ~draft.open
  BY DEF StartSession, Idle
<1>4. TypeOK'
  BY <1>1, <1>3, EmptiedTyped DEF IInv, TypeOK
<1>5. DraftInv' /\ FreshInv' /\ ZeroInv'
  BY <1>3 DEF DraftInv, FreshInv, ZeroInv, Emptied
<1>6. RequestInv'
  BY <1>1, <1>2, <1>3 DEF IInv, RequestInv
<1>7. QED
  BY <1>4, <1>5, <1>6 DEF IInv

LEMMA DeleteBeginsInd ==
  ASSUME IInv, DeleteBegins
  PROVE  IInv'
<1>1. session' \in 1..MaxSessions /\ session < session' /\ session \in Nat
  BY LaterSession DEF IInv, DeleteBegins
<1>2. request.session \in Nat /\ session' \in Nat
  BY <1>1 DEF IInv, TypeOK
<1>3. /\ UNCHANGED <<past, items, revision, future, final, request, draft>>
      /\ deleting' \in BOOLEAN /\ ~draft.open
  BY DEF DeleteBegins, Idle
<1>4. TypeOK'
  BY <1>1, <1>3 DEF IInv, TypeOK
<1>5. DraftInv' /\ FreshInv' /\ ZeroInv'
  BY <1>3 DEF IInv, DraftInv, FreshInv, ZeroInv
<1>6. RequestInv'
  BY <1>1, <1>2, <1>3 DEF IInv, RequestInv
<1>7. QED
  BY <1>4, <1>5, <1>6 DEF IInv

LEMMA DeleteEndsInd ==
  ASSUME IInv, DeleteEnds
  PROVE  IInv'
<1>1. /\ Emptied /\ past' = <<>> /\ UNCHANGED <<session, request, draft>>
      /\ deleting' \in BOOLEAN /\ ~draft.open
  BY DEF DeleteEnds, Idle
<1>2. TypeOK'
  BY <1>1, EmptiedTyped DEF IInv, TypeOK
<1>3. EmptyMap'
  BY <1>1 DEF EmptyMap, Emptied
<1>4. DraftInv' /\ FreshInv' /\ ZeroInv'
  BY <1>1 DEF DraftInv, FreshInv, ZeroInv, Emptied
<1>5. RequestInv'
  BY <1>1, <1>3 DEF IInv, RequestInv
<1>6. QED
  BY <1>2, <1>4, <1>5 DEF IInv

-----------------------------------------------------------------------------
(* The theorems *)

LEMMA InitInd == Init => IInv
<1> SUFFICES ASSUME Init PROVE IInv
  OBVIOUS
<1>1. 0 \in 0..MaxRevision /\ 1 \in 1..MaxSessions /\ Len(<<>>) + Len(<<>>) <= MaxHistory
  BY MapConstants
<1>2. TypeOK
  BY <1>1, NoItemsTyped, EmptySeq, NothingOpen DEF Init, TypeOK, Draft
<1>3. QED
  BY <1>2, NothingOpen DEF Init, IInv, DraftInv, ZeroInv, RequestInv, FreshInv

LEMMA OperationInd ==
  ASSUME IInv, Operation
  PROVE  IInv'
<1>1. CASE \E id \in Ids, kind \in {"decision", "other"}, evidence \in Evidence : Add(id, kind, evidence)
  BY <1>1, AddInd
<1>2. CASE \E id \in DOMAIN draft.items, status \in Statuses, added, removed \in SUBSET Utterances :
             Update(id, status, added, removed)
  BY <1>2, UpdateInd
<1>3. CASE \E id \in DOMAIN draft.items, duplicates \in SUBSET DOMAIN draft.items, evidence \in Evidence :
             Merge(id, duplicates, evidence)
  BY <1>3, MergeInd
<1>4. CASE \E id \in DOMAIN draft.items, evidence \in Evidence : Retract(id, evidence)
  BY <1>4, RetractInd
<1>5. CASE \E from, to \in DOMAIN draft.items, evidence \in Evidence : Link(from, to, evidence)
  BY <1>5, LinkInd
<1>6. QED
  BY <1>1, <1>2, <1>3, <1>4, <1>5 DEF Operation

LEMMA NextInd == IInv /\ [Next]_vars => IInv'
<1> SUFFICES ASSUME IInv, [Next]_vars PROVE IInv'
  OBVIOUS
<1>1. CASE Human
  <2>1. CASE \E id \in DOMAIN items : ConfirmItem(id) \/ \E status \in Statuses : Edit(id, status)
    BY <2>1, ConfirmItemInd, EditInd
  <2>2. QED
    BY <1>1, <2>1, UndoInd, RedoInd DEF Human
<1>2. CASE Analysis
  BY <1>2, AskInd, AnsweredInd, DiscardedInd, OperationInd, AppliedInd, RejectedInd DEF Analysis
<1>3. CASE \E id \in Utterances : Utter(id)
  BY <1>3, UtterInd
<1>4. CASE StartSession \/ DeleteBegins \/ DeleteEnds
  BY <1>4, StartSessionInd, DeleteBeginsInd, DeleteEndsInd
<1>5. CASE UNCHANGED vars
  BY <1>5 DEF vars, IInv, TypeOK, DraftInv, ZeroInv, RequestInv, EmptyMap, FreshInv
<1>6. QED
  BY <1>1, <1>2, <1>3, <1>4, <1>5 DEF Next

\* The inductive invariant: the state is well typed, an open draft keeps every item
\* and every human decision, and belongs to a request about the present items.
THEOREM Contract == Spec => []IInv
BY InitInd, NextInd, PTL DEF Spec

\* The map, both stacks and the draft are always well typed, and the two stacks
\* together never hold more than maximumHistoryEntries (trimHistoryStacks).
THEOREM MapTypeCorrect == Spec => []TypeOK
<1>1. IInv => TypeOK
  BY DEF IInv
<1>2. QED
  BY <1>1, Contract, PTL

\* No delta changes an item that a human confirmed or edited (assertAiMutable),
\* whatever its operations are, and however many.
THEOREM HumanDecides == Spec => HumanProtected
<1> DEFINE Kept == Applied => \A id \in DOMAIN items :
                     ~OfModel(items[id]) => id \in DOMAIN items' /\ items'[id] = items[id]
<1>1. IInv /\ [Next]_vars => [Kept]_vars
  <2> SUFFICES ASSUME IInv, Applied
               PROVE  \A id \in DOMAIN items :
                        ~OfModel(items[id]) => id \in DOMAIN items' /\ items'[id] = items[id]
    OBVIOUS
  <2>1. items' = draft.items /\ draft.open
    BY DEF Applied, Commit
  <2>2. QED
    BY <2>1 DEF IInv, DraftInv
<1> HIDE DEF Kept
<1>2. Spec => [][Kept]_vars
  BY <1>1, Contract, PTL DEF Spec
<1>3. QED
  BY <1>2 DEF Kept, HumanProtected

\* A delta is applied only to the state its analysis was asked about: revisions grow
\* through undo and redo too, and what a deletion empties under an analysis cannot
\* reach its revision again.
THEOREM NeverStale == Spec => []AppliedToWhatItSaw
<1>1. IInv => AppliedToWhatItSaw
  BY DEF IInv, ZeroInv, RequestInv, EmptyMap, FreshInv, AppliedToWhatItSaw
<1>2. QED
  BY <1>1, Contract, PTL


-----------------------------------------------------------------------------
(* The history as a whole: what may be restored *)

\* Valid, for a transcript in which these utterances are final.
ValidFor(state, said) ==
  \A id \in DOMAIN state :
    /\ Fits(state[id].evidence) /\ state[id].evidence \subseteq said
    /\ state[id].links \subseteq DOMAIN state \ {id}
    /\ ~(OfModel(state[id]) /\ state[id].kind = "decision" /\ state[id].status = "final")

LEMMA ValidNow == ASSUME NEW state PROVE Valid(state) <=> ValidFor(state, final)
  BY DEF Valid, ValidFor, Fits

LEMMA ValidLater ==
  ASSUME NEW state, NEW said, NEW later, said \subseteq later, ValidFor(state, said)
  PROVE  ValidFor(state, later)
  BY DEF ValidFor

\* No item is lost, and what is new is the model's: an undo may leave it as a tombstone.
Grows(before, after) ==
  /\ DOMAIN before \subseteq DOMAIN after
  /\ \A id \in DOMAIN after \ DOMAIN before : OfModel(after[id])

\* What follows the k-th entry of the undo stack.
After(stack, present, k) == IF k < Len(stack) THEN stack[k + 1] ELSE present

\* Each state of the history is valid and grows out of the one before; what can be redone
\* knows the items of the present.
Timeline(stack, present, redo, said) ==
  /\ ValidFor(present, said)
  /\ \A k \in 1..Len(stack) : ValidFor(stack[k], said) /\ Grows(stack[k], After(stack, present, k))
  /\ \A k \in 1..Len(redo) : ValidFor(redo[k], said) /\ DOMAIN redo[k] = DOMAIN present

HistoryInv ==
  /\ Timeline(past, items, future, final)
  /\ draft.open => Grows(items, draft.items)

LEMMA TombstonesGrow ==
  ASSUME NEW target, NEW said, Grows(target, items), ValidFor(target, said), ValidFor(items, said),
         items \in Items
  PROVE  /\ DOMAIN WithTombstones(target) = DOMAIN items
         /\ ValidFor(WithTombstones(target), said)
         /\ \A id \in DOMAIN target : WithTombstones(target)[id] = target[id]
         /\ \A id \in DOMAIN items \ DOMAIN target : OfModel(WithTombstones(target)[id])
<1> DEFINE known == DOMAIN target \cup {one \in DOMAIN items : OfModel(items[one])}
           Kept(id) == IF id \in DOMAIN target THEN target[id]
                       ELSE [items[id] EXCEPT !.status = "withdrawn"]
<1>1. known = DOMAIN items
  BY DEF Grows
<1>2. WithTombstones(target) = [id \in known |-> Kept(id)]
  BY DEF WithTombstones
<1>3. ASSUME NEW id \in DOMAIN target PROVE WithTombstones(target)[id] = target[id]
  BY <1>2
<1>4. ASSUME NEW id \in DOMAIN items \ DOMAIN target
      PROVE  LET kept == WithTombstones(target)[id]
             IN /\ OfModel(items[id]) /\ OfModel(kept) /\ kept.status = "withdrawn"
                /\ kept.evidence = items[id].evidence /\ kept.links = items[id].links
  <2>1. items[id] \in Item
    BY ItemsElim
  <2>2. WithTombstones(target)[id] = [items[id] EXCEPT !.status = "withdrawn"]
    BY <1>1, <1>2
  <2>3. OfModel(items[id])
    BY DEF Grows
  <2> DEFINE item == items[id]
  <2>4. item \in Item
    BY <2>1
  <2> HIDE DEF item
  <2>5. LET kept == [item EXCEPT !.status = "withdrawn"]
        IN /\ kept.provenance = item.provenance /\ kept.status = "withdrawn"
           /\ kept.evidence = item.evidence /\ kept.links = item.links
    BY <2>4 DEF Item
  <2>6. QED BY <2>2, <2>3, <2>5 DEF item, OfModel
<1>5. DOMAIN WithTombstones(target) = DOMAIN items
  BY <1>1, <1>2
<1> DEFINE restored == WithTombstones(target)
<1>6. ASSUME NEW id \in DOMAIN items
      PROVE  /\ Fits(restored[id].evidence) /\ restored[id].evidence \subseteq said
             /\ restored[id].links \subseteq DOMAIN items \ {id}
             /\ ~(OfModel(restored[id]) /\ restored[id].kind = "decision" /\ restored[id].status = "final")
  <2>1. CASE id \in DOMAIN target
    <3>1. DOMAIN target \subseteq DOMAIN items
      BY DEF Grows
    <3>2. QED BY <1>3, <2>1, <3>1 DEF ValidFor
  <2>2. CASE id \notin DOMAIN target
    BY <1>4, <2>2 DEF ValidFor
  <2>3. QED BY <2>1, <2>2
<1>7. ValidFor(restored, said)
  BY <1>5, <1>6 DEF ValidFor
<1>8. QED BY <1>3, <1>4, <1>5, <1>7

\* A longer stack, the present on top.
LEMMA AppendTimeline ==
  ASSUME NEW stack \in Seq(Items), NEW present \in Items, NEW state, NEW redo, NEW said,
         Timeline(stack, present, redo, said), ValidFor(state, said), Grows(present, state)
  PROVE  LET longer == Append(stack, present)
         IN \A k \in 1..Len(longer) : ValidFor(longer[k], said) /\ Grows(longer[k], After(longer, state, k))
<1> DEFINE longer == Append(stack, present)
           n == Len(stack)
<1>1. /\ n \in Nat /\ Len(longer) = n + 1 /\ longer[n + 1] = present
      /\ \A i \in 1..n : longer[i] = stack[i]
  BY AppendProperties, LenProperties
<1> SUFFICES ASSUME NEW k \in 1..n + 1
             PROVE  ValidFor(longer[k], said) /\ Grows(longer[k], After(longer, state, k))
  BY <1>1
<1>2. CASE k = n + 1
  BY <1>1, <1>2 DEF Timeline, After
<1>3. CASE k = n /\ k \in 1..n
  <2>1. After(longer, state, k) = present /\ After(stack, present, k) = present
    BY <1>1, <1>3 DEF After
  <2>2. QED BY <1>1, <1>3, <2>1 DEF Timeline
<1>4. CASE k < n
  <2>1. k \in 1..n /\ k + 1 \in 1..n
    BY <1>1, <1>4
  <2>2. After(longer, state, k) = stack[k + 1] /\ After(stack, present, k) = stack[k + 1]
    BY <1>1, <1>4, <2>1 DEF After
  <2>3. QED BY <1>1, <2>1, <2>2 DEF Timeline
<1>5. QED BY <1>1, <1>2, <1>3, <1>4

\* The oldest entries may go.
LEMMA TrimTimeline ==
  ASSUME NEW stack \in Seq(Items), NEW state, NEW said,
         \A k \in 1..Len(stack) : ValidFor(stack[k], said) /\ Grows(stack[k], After(stack, state, k))
  PROVE  \A k \in 1..Len(Trimmed(stack)) :
           ValidFor(Trimmed(stack)[k], said) /\ Grows(Trimmed(stack)[k], After(Trimmed(stack), state, k))
<1> DEFINE n == Len(stack)
           from == n - MaxHistory + 1
           short == SubSeq(stack, from, n)
<1>1. n \in Nat /\ MaxHistory \in Nat \ {0}
  BY MapConstants, LenProperties
<1>2. CASE n <= MaxHistory
  BY <1>1, <1>2 DEF Trimmed
<1>3. CASE n > MaxHistory
  <2>1. from \in 1..n /\ n - from + 1 = MaxHistory /\ from <= n
    BY <1>1, <1>3
  <2>2. \A i \in from..n : stack[i] \in Items
    <3>1. \A i \in from..n : i \in 1..n
      BY <1>1, <2>1
    <3>2. QED BY <3>1, ElementOfSeq
  <2>3. /\ Len(short) = MaxHistory
        /\ \A i \in 1..MaxHistory : short[i] = stack[from + i - 1]
    <3>1. from \in Int /\ n \in Int
      BY <1>1
    <3>2. Len(short) = IF from <= n THEN n - from + 1 ELSE 0
      BY <2>2, <3>1, SubSeqProperties
    <3>4. \A i \in 1..(n - from + 1) : short[i] = stack[from + i - 1]
      BY <2>2, <3>1, SubSeqProperties
    <3>3. QED BY <2>1, <3>2, <3>4
  <2>4. Trimmed(stack) = short
    BY <1>1, <1>3 DEF Trimmed
  <2> SUFFICES ASSUME NEW k \in 1..MaxHistory
               PROVE  ValidFor(short[k], said) /\ Grows(short[k], After(short, state, k))
    BY <2>3, <2>4
  <2> DEFINE j == from + k - 1
  <2>5. j \in 1..n /\ short[k] = stack[j] /\ (k < MaxHistory <=> j < n)
    BY <1>1, <1>3, <2>3
  <2>6. After(short, state, k) = After(stack, state, j)
    <3>1. CASE k < MaxHistory
      <4>1. k + 1 \in 1..MaxHistory /\ from + (k + 1) - 1 = j + 1
        BY <1>1, <3>1
      <4> DEFINE i == k + 1
      <4> HIDE DEF i, short, from
      <4>4. short[i] = stack[from + i - 1]
        BY <2>3, <4>1 DEF i
      <4>2. short[k + 1] = stack[j + 1]
        BY <4>1, <4>4 DEF i
      <4>3. QED BY <2>3, <2>5, <3>1, <4>2 DEF After
    <3>2. CASE ~(k < MaxHistory)
      BY <2>3, <2>5, <3>2 DEF After
    <3>3. QED BY <3>1, <3>2
  <2>7. QED BY <2>5, <2>6
<1>4. QED BY <1>1, <1>2, <1>3

\* What an undo or redo needs.
LEMMA TimelineRestorable ==
  ASSUME IInv, HistoryInv
  PROVE  AlwaysRestorable
<1>1. past \in Seq(Items) /\ future \in Seq(Items) /\ items \in Items
  BY DEF IInv, TypeOK
<1>2. Valid(items)
  BY ValidNow DEF HistoryInv, Timeline
<1>3. ASSUME past # <<>> PROVE CanUndo
  <2>1. Len(past) \in 1..Len(past)
    BY <1>1, <1>3, LenProperties, EmptySeq
  <2>2. ValidFor(past[Len(past)], final) /\ Grows(past[Len(past)], items) /\ ValidFor(items, final)
    BY <2>1 DEF HistoryInv, Timeline, After
  <2>3. ValidFor(WithTombstones(past[Len(past)]), final)
    BY <1>1, <2>2, TombstonesGrow
  <2>4. QED BY <1>3, <2>3, ValidNow DEF CanUndo
<1>4. ASSUME future # <<>> PROVE CanRedo
  <2>1. 1 \in 1..Len(future) /\ Head(future) = future[1]
    BY <1>1, <1>4, HeadTailProperties, LenProperties, EmptySeq
  <2>2. ValidFor(Head(future), final)
    BY <2>1 DEF HistoryInv, Timeline
  <2>3. QED BY <1>4, <2>2, ValidNow DEF CanRedo
<1>5. QED BY <1>2, <1>3, <1>4 DEF AlwaysRestorable

\* What a step keeps of the items.
Keeps == session' = session /\ deleting' = deleting => DOMAIN items \subseteq DOMAIN items'

LEMMA HistorySame ==
  ASSUME HistoryInv, UNCHANGED <<past, items, future, final>>, ~draft'.open
  PROVE  HistoryInv' /\ Keeps
  BY DEF HistoryInv, Keeps

LEMMA CommitHistory ==
  ASSUME IInv, HistoryInv, NEW state, Commit(state), ValidFor(state, final), Grows(items, state),
         final' = final, ~draft'.open
  PROVE  HistoryInv' /\ Keeps
<1> DEFINE longer == Append(past, items)
<1>1. past \in Seq(Items) /\ items \in Items
  BY DEF IInv, TypeOK
<1>2. past' = Trimmed(longer) /\ items' = state /\ future' = <<>>
  BY DEF Commit
<1>3. longer \in Seq(Items)
  BY <1>1, AppendProperties
<1>4. \A k \in 1..Len(longer) : ValidFor(longer[k], final) /\ Grows(longer[k], After(longer, state, k))
  BY <1>1, AppendTimeline DEF HistoryInv
<1> HIDE DEF longer
<1>5. \A k \in 1..Len(past') : ValidFor(past'[k], final) /\ Grows(past'[k], After(past', state, k))
  BY <1>2, <1>3, <1>4, TrimTimeline
<1>6. \A k \in 1..Len(future') : ValidFor(future'[k], final) /\ DOMAIN future'[k] = DOMAIN state
  BY <1>2
<1>7. Timeline(past', items', future', final')
  BY <1>2, <1>5, <1>6 DEF Timeline
<1>8. QED BY <1>2, <1>7 DEF HistoryInv, Keeps, Grows

LEMMA PatchHistory ==
  ASSUME IInv, HistoryInv, NEW state, DOMAIN state = DOMAIN items, Valid(state), Commit(state), Idle,
         UNCHANGED <<final, session, request, draft, deleting>>
  PROVE  HistoryInv' /\ Keeps
<1>1. ValidFor(state, final) /\ Grows(items, state) /\ ~draft'.open
  BY ValidNow DEF Grows, Idle
<1>2. QED BY <1>1, CommitHistory

LEMMA EditHistory ==
  ASSUME IInv, HistoryInv, NEW id \in DOMAIN items, NEW status, Edit(id, status)
  PROVE  HistoryInv' /\ Keeps
<1> DEFINE edited == [items EXCEPT ![id].status = status, ![id].provenance = "human-edited"]
<1>1. /\ Idle /\ UNCHANGED <<final, session, request, draft, deleting>>
      /\ Valid(edited) /\ Commit(edited) /\ DOMAIN edited = DOMAIN items
  BY DEF Edit
<1> HIDE DEF edited
<1>2. QED BY <1>1, PatchHistory

LEMMA ConfirmHistory ==
  ASSUME IInv, HistoryInv, NEW id \in DOMAIN items, ConfirmItem(id)
  PROVE  HistoryInv' /\ Keeps
<1> DEFINE confirmed == [items EXCEPT ![id].provenance = "human-confirmed"]
<1>1. /\ Idle /\ UNCHANGED <<final, session, request, draft, deleting>>
      /\ Valid(confirmed) /\ Commit(confirmed) /\ DOMAIN confirmed = DOMAIN items
  BY DEF ConfirmItem
<1> HIDE DEF confirmed
<1>2. QED BY <1>1, PatchHistory

LEMMA AppliedHistory ==
  ASSUME IInv, HistoryInv, Applied
  PROVE  HistoryInv' /\ Keeps
<1>1. /\ draft.open /\ Valid(draft.items) /\ Commit(draft.items) /\ draft' = NoDraft
      /\ final' = final
  BY DEF Applied
<1>2. ValidFor(draft.items, final) /\ Grows(items, draft.items) /\ ~draft'.open
  BY <1>1, ValidNow, NothingOpen DEF HistoryInv
<1>3. QED BY <1>1, <1>2, CommitHistory

LEMMA UndoHistory ==
  ASSUME IInv, HistoryInv, Undo
  PROVE  HistoryInv' /\ Keeps
<1> DEFINE n == Len(past)
           target == past[n]
<1>1. /\ past # <<>> /\ ~draft.open /\ draft' = draft /\ final' = final
      /\ future' = <<items>> \o future /\ past' = SubSeq(past, 1, n - 1)
      /\ items' = WithTombstones(target)
  BY DEF Undo, CanUndo, Idle
<1>2. items \in Items /\ past \in Seq(Items) /\ future \in Seq(Items)
  BY DEF IInv, TypeOK
<1>3. n \in Nat \ {0} /\ Len(future) \in Nat /\ n \in 1..n
  BY <1>1, <1>2, LenProperties, EmptySeq
<1>4. ValidFor(target, final) /\ Grows(target, items) /\ ValidFor(items, final)
  BY <1>3 DEF HistoryInv, Timeline, After
<1>5. /\ DOMAIN items' = DOMAIN items /\ ValidFor(items', final)
      /\ \A id \in DOMAIN target : items'[id] = target[id]
      /\ \A id \in DOMAIN items \ DOMAIN target : OfModel(items'[id])
  BY <1>1, <1>2, <1>4, TombstonesGrow
<1>6. Len(past') = n - 1 /\ \A k \in 1..n - 1 : past'[k] = past[k]
  <2>1. \A i \in 1..n - 1 : past[i] \in Items
    BY <1>2, <1>3, ElementOfSeq
  <2>2. n - 1 \in Int /\ 1 \in Int
    BY <1>3
  <2>3. Len(SubSeq(past, 1, n - 1)) = IF 1 <= n - 1 THEN n - 1 - 1 + 1 ELSE 0
    BY <2>1, <2>2, SubSeqProperties
  <2>4. \A k \in 1..(n - 1 - 1 + 1) : SubSeq(past, 1, n - 1)[k] = past[1 + k - 1]
    BY <2>1, <2>2, SubSeqProperties
  <2> HIDE DEF n
  <2>5. QED BY <1>1, <1>3, <2>3, <2>4
<1> HIDE DEF target
<1>7. ASSUME NEW k \in 1..Len(past')
      PROVE  ValidFor(past'[k], final) /\ Grows(past'[k], After(past', items', k))
  <2>1. k \in 1..n - 1 /\ k \in 1..n /\ k + 1 \in 1..n /\ past'[k] = past[k]
    BY <1>3, <1>6
  <2>2. ValidFor(past[k], final) /\ Grows(past[k], past[k + 1])
    BY <1>3, <2>1 DEF HistoryInv, Timeline, After
  <2>3. CASE k < n - 1
    <3>1. k + 1 \in 1..n - 1
      BY <1>3, <2>1, <2>3
    <3>2. After(past', items', k) = past[k + 1]
      BY <1>6, <2>3, <3>1 DEF After
    <3>3. QED BY <2>1, <2>2, <3>2
  <2>4. CASE k = n - 1
    <3>1. After(past', items', k) = items' /\ k + 1 = n
      BY <1>3, <1>6, <2>4 DEF After
    <3>2. Grows(past[k], target)
      BY <2>2, <3>1 DEF target
    <3>3. Grows(past[k], items')
      BY <1>4, <1>5, <3>2 DEF Grows
    <3>4. QED BY <2>1, <2>2, <3>1, <3>3
  <2>5. QED BY <1>3, <2>1, <2>3, <2>4
<1>8. ASSUME NEW k \in 1..Len(future')
      PROVE  ValidFor(future'[k], final) /\ DOMAIN future'[k] = DOMAIN items'
  <2>1. <<items>> \in Seq(Items) /\ Len(<<items>>) = 1 /\ <<items>>[1] = items
    BY <1>2
  <2>2. /\ Len(future') = Len(future) + 1
        /\ \A i \in 1..Len(future) + 1 : future'[i] = IF i <= 1 THEN items ELSE future[i - 1]
    <3>1. Len(<<items>> \o future) = Len(<<items>>) + Len(future)
      BY <1>2, <2>1, ConcatProperties
    <3>2. \A i \in 1..Len(<<items>>) + Len(future) :
            (<<items>> \o future)[i] = IF i <= Len(<<items>>) THEN <<items>>[i] ELSE future[i - Len(<<items>>)]
      BY <1>2, <2>1, ConcatProperties
    <3>3. QED BY <1>1, <1>3, <2>1, <3>1, <3>2
  <2>3. CASE k <= 1
    BY <1>3, <1>4, <1>5, <2>2, <2>3
  <2>4. CASE k > 1
    <3>1. k - 1 \in 1..Len(future) /\ future'[k] = future[k - 1]
      BY <1>3, <2>2, <2>4
    <3>2. QED BY <1>5, <3>1 DEF HistoryInv, Timeline
  <2>5. QED BY <1>3, <2>2, <2>3, <2>4
<1>9. Timeline(past', items', future', final')
  BY <1>1, <1>5, <1>7, <1>8 DEF Timeline
<1>10. QED BY <1>1, <1>5, <1>9 DEF HistoryInv, Keeps

LEMMA RedoHistory ==
  ASSUME IInv, HistoryInv, Redo
  PROVE  HistoryInv' /\ Keeps
<1>1. /\ future # <<>> /\ ~draft.open /\ draft' = draft /\ final' = final
      /\ past' = Append(past, items) /\ future' = Tail(future) /\ items' = Head(future)
  BY DEF Redo, CanRedo, Idle
<1>2. items \in Items /\ past \in Seq(Items) /\ future \in Seq(Items)
  BY DEF IInv, TypeOK
<1>3. /\ Len(future) \in Nat \ {0} /\ items' = future[1] /\ Len(future') = Len(future) - 1
      /\ \A i \in 1..Len(future') : future'[i] = future[i + 1]
  BY <1>1, <1>2, HeadTailProperties, LenProperties, EmptySeq
<1>4. 1 \in 1..Len(future) /\ ValidFor(items', final) /\ DOMAIN items' = DOMAIN items
  BY <1>3 DEF HistoryInv, Timeline
<1>5. Grows(items, items')
  BY <1>4 DEF Grows
<1>6. \A k \in 1..Len(past') : ValidFor(past'[k], final) /\ Grows(past'[k], After(past', items', k))
  BY <1>1, <1>2, <1>4, <1>5, AppendTimeline DEF HistoryInv
<1>7. ASSUME NEW k \in 1..Len(future')
      PROVE  ValidFor(future'[k], final) /\ DOMAIN future'[k] = DOMAIN items'
  <2>1. k + 1 \in 1..Len(future) /\ future'[k] = future[k + 1]
    BY <1>3
  <2>2. QED BY <1>4, <2>1 DEF HistoryInv, Timeline
<1>8. Timeline(past', items', future', final')
  BY <1>1, <1>4, <1>6, <1>7 DEF Timeline
<1>9. QED BY <1>1, <1>4, <1>8 DEF HistoryInv, Keeps

\* An operation of a delta adds items of the model, and makes none of them a human's.
LEMMA OperatedHistory ==
  ASSUME IInv, HistoryInv, Working, NEW state, Operated(state),
         DOMAIN draft.items \subseteq DOMAIN state,
         \A id \in DOMAIN state :
           id \notin DOMAIN draft.items \/ OfModel(draft.items[id]) => OfModel(state[id])
  PROVE  HistoryInv' /\ Keeps
<1>1. /\ draft' = [draft EXCEPT !.items = state, !.left = @ - 1] /\ draft.open
      /\ UNCHANGED <<past, items, future, final>>
  BY DEF Operated, Working
<1>2. draft'.items = state
  BY <1>1, DraftTyped DEF IInv, Draft
<1>3. Grows(items, state)
  BY <1>1 DEF HistoryInv, Grows
<1>4. QED BY <1>1, <1>2, <1>3 DEF HistoryInv, Keeps

LEMMA ReplaceHistory ==
  ASSUME IInv, HistoryInv, Working, NEW id \in DOMAIN draft.items, NEW item,
         item.provenance = draft.items[id].provenance, Operated([draft.items EXCEPT ![id] = item])
  PROVE  HistoryInv' /\ Keeps
<1> DEFINE state == [draft.items EXCEPT ![id] = item]
<1>1. DOMAIN state = DOMAIN draft.items
  OBVIOUS
<1>2. \A other \in DOMAIN state : OfModel(draft.items[other]) => OfModel(state[other])
  BY DEF OfModel
<1>3. Operated(state)
  OBVIOUS
<1> HIDE DEF state
<1>4. QED BY <1>1, <1>2, <1>3, OperatedHistory

LEMMA AddHistory ==
  ASSUME IInv, HistoryInv, NEW id, NEW kind, NEW evidence, Add(id, kind, evidence)
  PROVE  HistoryInv' /\ Keeps
<1> DEFINE known == DOMAIN draft.items \cup {id}
           added == [kind |-> kind, status |-> "open", provenance |-> "ai-suggested",
                     evidence |-> evidence, links |-> {}]
           state == [one \in known |-> IF one = id THEN added ELSE draft.items[one]]
<1>1. Working /\ id \notin DOMAIN draft.items /\ Operated(state)
  BY DEF Add
<1>2. OfModel(added)
  BY DEF OfModel
<1> HIDE DEF added
<1>3. /\ DOMAIN state = known /\ state[id] = added
      /\ \A one \in DOMAIN draft.items : state[one] = draft.items[one]
  BY <1>1
<1> HIDE DEF state
<1>4. QED BY <1>1, <1>2, <1>3, OperatedHistory

LEMMA UpdateHistory ==
  ASSUME IInv, HistoryInv, NEW id, NEW status, NEW added, NEW removed, Update(id, status, added, removed)
  PROVE  HistoryInv' /\ Keeps
<1> DEFINE evidence == (draft.items[id].evidence \ removed) \cup added
           item == [draft.items[id] EXCEPT !.status = status, !.evidence = evidence]
<1>1. Working /\ Mutable(id) /\ id \in DOMAIN draft.items
  BY DEF Update, Mutable
<1>2. item.provenance = draft.items[id].provenance
  <2>1. draft.items[id] \in Item
    BY <1>1, MutableItem DEF IInv
  <2>2. QED BY <2>1 DEF Item
<1>3. Operated([draft.items EXCEPT ![id].status = status, ![id].evidence = evidence])
  BY DEF Update
<1>4. [draft.items EXCEPT ![id].status = status, ![id].evidence = evidence]
        = [draft.items EXCEPT ![id] = item]
  BY <1>1
<1>5. Operated([draft.items EXCEPT ![id] = item])
  BY <1>3, <1>4
<1> HIDE DEF item
<1>6. QED BY <1>1, <1>2, <1>5, ReplaceHistory

LEMMA RetractHistory ==
  ASSUME IInv, HistoryInv, NEW id, NEW evidence, Retract(id, evidence)
  PROVE  HistoryInv' /\ Keeps
<1> DEFINE item == [draft.items[id] EXCEPT !.status = "withdrawn", !.evidence = @ \cup evidence]
<1>1. Working /\ Mutable(id) /\ id \in DOMAIN draft.items
  BY DEF Retract, Mutable
<1>2. item.provenance = draft.items[id].provenance
  <2>1. draft.items[id] \in Item
    BY <1>1, MutableItem DEF IInv
  <2>2. QED BY <2>1 DEF Item
<1>3. [draft.items EXCEPT ![id].status = "withdrawn", ![id].evidence = @ \cup evidence]
        = [draft.items EXCEPT ![id] = item]
  BY <1>1
<1>4. Operated([draft.items EXCEPT ![id] = item])
  BY <1>3 DEF Retract
<1> HIDE DEF item
<1>5. QED BY <1>1, <1>2, <1>4, ReplaceHistory

LEMMA LinkHistory ==
  ASSUME IInv, HistoryInv, NEW from, NEW to, NEW evidence, Link(from, to, evidence)
  PROVE  HistoryInv' /\ Keeps
<1> DEFINE item == [draft.items[from] EXCEPT !.links = @ \cup {to}, !.evidence = @ \cup evidence]
<1>1. Working /\ Mutable(from) /\ from \in DOMAIN draft.items
  BY DEF Link, Mutable
<1>2. item.provenance = draft.items[from].provenance
  <2>1. draft.items[from] \in Item
    BY <1>1, MutableItem DEF IInv
  <2>2. QED BY <2>1 DEF Item
<1>3. [draft.items EXCEPT ![from].links = @ \cup {to}, ![from].evidence = @ \cup evidence]
        = [draft.items EXCEPT ![from] = item]
  BY <1>1
<1>4. Operated([draft.items EXCEPT ![from] = item])
  BY <1>3 DEF Link
<1> HIDE DEF item
<1>5. QED BY <1>1, <1>2, <1>4, ReplaceHistory

LEMMA MergeHistory ==
  ASSUME IInv, HistoryInv, NEW id, NEW duplicates, NEW evidence, Merge(id, duplicates, evidence)
  PROVE  HistoryInv' /\ Keeps
<1> DEFINE united == (UNION {draft.items[one].evidence : one \in duplicates \cup {id}}) \cup evidence
           state == [known \in DOMAIN draft.items |->
                       CASE known = id -> [draft.items[known] EXCEPT !.evidence = united]
                         [] known \in duplicates -> [draft.items[known] EXCEPT !.status = "superseded",
                                                                               !.links = @ \cup {id}]
                         [] OTHER -> draft.items[known]]
<1>1. Working /\ id \notin duplicates /\ Operated(state)
  BY DEF Merge
<1> HIDE DEF united
<1>2. ASSUME NEW known \in DOMAIN draft.items
      PROVE  state[known].provenance = draft.items[known].provenance
  <2> DEFINE item == draft.items[known]
  <2>1. item \in Item
    BY DraftTyped DEF IInv
  <2>2. state[known] = CASE known = id -> [item EXCEPT !.evidence = united]
                         [] known \in duplicates -> [item EXCEPT !.status = "superseded", !.links = @ \cup {id}]
                         [] OTHER -> item
    OBVIOUS
  <2> HIDE DEF item, state
  <2>3. /\ [item EXCEPT !.evidence = united].provenance = item.provenance
        /\ [item EXCEPT !.status = "superseded", !.links = @ \cup {id}].provenance = item.provenance
    BY <2>1 DEF Item
  <2>4. state[known].provenance = item.provenance
    BY <1>1, <2>2, <2>3
  <2>5. QED BY <2>4 DEF item
<1>3. DOMAIN state = DOMAIN draft.items
  OBVIOUS
<1> HIDE DEF state
<1>4. QED BY <1>1, <1>2, <1>3, OperatedHistory DEF OfModel

LEMMA OperationHistory ==
  ASSUME IInv, HistoryInv, Operation
  PROVE  HistoryInv' /\ Keeps
<1>1. CASE \E id \in Ids, kind \in {"decision", "other"}, evidence \in Evidence : Add(id, kind, evidence)
  BY <1>1, AddHistory
<1>2. CASE \E id \in DOMAIN draft.items, status \in Statuses, added, removed \in SUBSET Utterances :
             Update(id, status, added, removed)
  BY <1>2, UpdateHistory
<1>3. CASE \E id \in DOMAIN draft.items, duplicates \in SUBSET DOMAIN draft.items, evidence \in Evidence :
             Merge(id, duplicates, evidence)
  BY <1>3, MergeHistory
<1>4. CASE \E id \in DOMAIN draft.items, evidence \in Evidence : Retract(id, evidence)
  BY <1>4, RetractHistory
<1>5. CASE \E from, to \in DOMAIN draft.items, evidence \in Evidence : Link(from, to, evidence)
  BY <1>5, LinkHistory
<1>6. QED BY <1>1, <1>2, <1>3, <1>4, <1>5 DEF Operation

LEMMA AnsweredHistory ==
  ASSUME IInv, HistoryInv, Answered
  PROVE  HistoryInv' /\ Keeps
<1>1. draft'.items = items /\ UNCHANGED <<past, items, future, final>>
  BY DEF Answered
<1>2. QED BY <1>1 DEF HistoryInv, Grows, Keeps

LEMMA AnalysisHistory ==
  ASSUME IInv, HistoryInv, Analysis
  PROVE  HistoryInv' /\ Keeps
<1>1. CASE Ask \/ Discarded \/ Rejected
  <2>1. UNCHANGED <<past, items, future, final>> /\ ~draft'.open
    BY <1>1, NothingOpen DEF Ask, Discarded, Rejected, Idle
  <2>2. QED BY <2>1, HistorySame
<1>2. QED
  BY <1>1, OperationHistory, AnsweredHistory, AppliedHistory DEF Analysis

\* A longer transcript keeps what was valid.
LEMMA UtterHistory ==
  ASSUME HistoryInv, NEW id, Utter(id)
  PROVE  HistoryInv' /\ Keeps
<1>1. final \subseteq final' /\ UNCHANGED <<past, items, future, draft>>
  BY DEF Utter
<1>2. Timeline(past', items', future', final')
  <2>1. ValidFor(items, final')
    BY <1>1, ValidLater DEF HistoryInv, Timeline
  <2>2. \A k \in 1..Len(past) : ValidFor(past[k], final')
    BY <1>1, ValidLater DEF HistoryInv, Timeline
  <2>3. \A k \in 1..Len(future) : ValidFor(future[k], final')
    BY <1>1, ValidLater DEF HistoryInv, Timeline
  <2>4. QED BY <1>1, <2>1, <2>2, <2>3 DEF HistoryInv, Timeline
<1>3. QED BY <1>1, <1>2 DEF HistoryInv, Keeps

LEMMA EmptyTimeline == ASSUME NEW said PROVE Timeline(<<>>, NoItems, <<>>, said)
  BY NoItemsTyped DEF Timeline, ValidFor

LEMMA EmptiedHistory ==
  ASSUME Emptied, past' = <<>>, draft' = draft, Idle
  PROVE  HistoryInv'
<1>1. Timeline(past', items', future', final')
  BY EmptyTimeline DEF Emptied
<1>2. QED BY <1>1 DEF HistoryInv, Idle

LEMMA SessionHistory ==
  ASSUME IInv, HistoryInv, StartSession \/ DeleteBegins \/ DeleteEnds
  PROVE  HistoryInv' /\ Keeps
<1>1. CASE StartSession
  <2>1. session' # session
    BY <1>1, LaterSession DEF IInv, StartSession
  <2>2. QED BY <1>1, <2>1, EmptiedHistory DEF StartSession, Keeps
<1>2. CASE DeleteBegins
  BY <1>2, HistorySame DEF DeleteBegins, Idle
<1>3. CASE DeleteEnds
  BY <1>3, EmptiedHistory DEF DeleteEnds, Keeps
<1>4. QED BY <1>1, <1>2, <1>3

LEMMA HistoryInit == Init => HistoryInv
<1> SUFFICES ASSUME Init PROVE HistoryInv
  OBVIOUS
<1>1. Timeline(past, items, future, final)
  BY EmptyTimeline DEF Init
<1>2. QED BY <1>1, NothingOpen DEF Init, HistoryInv

LEMMA HistoryNext == IInv /\ HistoryInv /\ [Next]_vars => HistoryInv' /\ Keeps
<1> SUFFICES ASSUME IInv, HistoryInv, [Next]_vars PROVE HistoryInv' /\ Keeps
  OBVIOUS
<1>1. CASE Human
  <2>1. CASE \E id \in DOMAIN items : ConfirmItem(id) \/ \E status \in Statuses : Edit(id, status)
    BY <2>1, ConfirmHistory, EditHistory
  <2>2. QED BY <1>1, <2>1, UndoHistory, RedoHistory DEF Human
<1>2. CASE Analysis
  BY <1>2, AnalysisHistory
<1>3. CASE \E id \in Utterances : Utter(id)
  BY <1>3, UtterHistory
<1>4. CASE StartSession \/ DeleteBegins \/ DeleteEnds
  BY <1>4, SessionHistory
<1>5. CASE UNCHANGED vars
  BY <1>5 DEF vars, HistoryInv, Keeps
<1>6. QED BY <1>1, <1>2, <1>3, <1>4, <1>5 DEF Next

\* The history of a discussion: every state in it is valid, each knows the items of the one
\* before, and what it knows besides came from the model, so that an undo can keep it.
THEOREM HistoryGrows == Spec => []HistoryInv
BY HistoryInit, HistoryNext, Contract, PTL DEF Spec

\* Neither an undo nor a redo of a discussion is ever refused by validateAnalysisState, with
\* the tombstones it leaves (restoredState), through any mix of deltas, edits and trimming.
THEOREM Restorable == Spec => []AlwaysRestorable
BY TimelineRestorable, Contract, HistoryGrows, PTL

\* No delta, edit, undo or redo loses an item of the discussion.
THEOREM NothingLost == Spec => NothingErased
<1>1. IInv /\ HistoryInv /\ [Next]_vars => [Keeps]_vars
  BY HistoryNext
<1>2. Spec => [][Keeps]_vars
  BY <1>1, Contract, HistoryGrows, PTL DEF Spec
<1>3. QED BY <1>2 DEF Keeps, NothingErased

=============================================================================
