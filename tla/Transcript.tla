----------------------------- MODULE Transcript -----------------------------
(***************************************************************************)
(* The transcript of the page (app/domain/transcription/utterance.ts): how *)
(* an utterance that arrives becomes part of it.  s is any record with the *)
(* fields transcript, a function from ids to utterances (the list of the   *)
(* code is sorted by their start), and finals, the last text of each id in *)
(* finalForAnalysis.                                                       *)
(***************************************************************************)
EXTENDS Naturals

Put(map, key, value) == [k \in DOMAIN map \cup {key} |-> IF k = key THEN value ELSE map[k]]

Stale(s, id, utterance) ==
  /\ id \in DOMAIN s.transcript
  /\ \/ utterance.revision <= s.transcript[id].revision
     \/ s.transcript[id].phase = "final" /\ utterance.phase = "partial"

\* Mutant of NewFinal: corrections of a final are not passed on.
NewFinalOnce(s, id, utterance) ==
  utterance.phase = "final" /\ (id \notin DOMAIN s.transcript \/ s.transcript[id].phase = "partial")

NewFinal(s, id, utterance) ==
  /\ utterance.phase = "final"
  /\ id \in DOMAIN s.transcript /\ s.transcript[id].phase = "final" => s.transcript[id].text # utterance.text

\* applyTranscriptEvent
Receive(s, id, utterance) ==
  IF Stale(s, id, utterance) THEN s
  ELSE [s EXCEPT !.transcript = Put(@, id, utterance),
                 !.finals = IF NewFinal(s, id, utterance) THEN Put(@, id, utterance.text) ELSE @]

\* What an analysis may be given: createMinimalUtteranceWindow and the local mock take the
\* newest eight final utterances of the list they are handed, which is the transcript;
\* nothing reads finalForAnalysis.
Given(utterances) == {id \in DOMAIN utterances : utterances[id].phase = "final"}

=============================================================================
