----------------------------- MODULE EventFeed -----------------------------
(***************************************************************************)
(* What the browser is promised about the events of a Zoom RTMS session    *)
(* (docs/specs/zoom-rtms-source.md): each is heard at most once, in order, *)
(* and when the bounded buffer of the companion had to drop some, the next *)
(* one that is heard is the notice of the loss.                            *)
(***************************************************************************)
EXTENDS Naturals, Sequences

VARIABLE got    \* the events heard so far: their number, and whether each is a notice

Init == got = <<>>

Last(n) == IF n = 0 THEN 0 ELSE got[n].cursor

\* A batch follows what was heard; only a notice may skip numbers.
Hear ==
  /\ Len(got') > Len(got) /\ SubSeq(got', 1, Len(got)) = got
  /\ \A i \in Len(got) + 1..Len(got') :
       LET before == IF i = Len(got) + 1 THEN Last(Len(got)) ELSE got'[i - 1].cursor
       IN IF got'[i].notice THEN got'[i].cursor > before ELSE got'[i].cursor = before + 1

Next == Hear

Spec == Init /\ [][Next]_got

=============================================================================
