------------------------------ MODULE RowFeed ------------------------------
(***************************************************************************)
(* What the browser may rely on in the row events of a caption worker      *)
(* (docs/specs/teams-caption-source.md, caption event contract): a row is  *)
(* one appearance of a caption, its revisions count its rewrites, it keeps *)
(* its speaker, and once it has disappeared it never comes back.           *)
(***************************************************************************)
EXTENDS Naturals

VARIABLE feed    \* the rows announced so far

Init == feed = [row \in {} |-> 0]

\* A caption appears, or one on the screen is rewritten.
Observe(row) ==
  /\ DOMAIN feed' = DOMAIN feed \cup {row}
  /\ \A other \in DOMAIN feed \ {row} : feed'[other] = feed[other]
  /\ ~feed'[row].gone
  /\ IF row \notin DOMAIN feed THEN feed'[row].revision = 1
     ELSE /\ ~feed[row].gone
          /\ feed'[row].revision = feed[row].revision + 1
          /\ feed'[row].speaker = feed[row].speaker /\ feed'[row].text # feed[row].text

\* Captions leave the screen.
Disappear(rows) == feed' = [row \in DOMAIN feed |->
                              IF row \in rows THEN [feed[row] EXCEPT !.gone = TRUE] ELSE feed[row]]

Next == \/ \E row \in DOMAIN feed' : Observe(row)
        \/ \E rows \in SUBSET DOMAIN feed : Disappear(rows)

Spec == Init /\ [][Next]_feed

=============================================================================
