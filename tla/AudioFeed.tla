----------------------------- MODULE AudioFeed -----------------------------
(***************************************************************************)
(* What a speech recogniser may rely on: it hears what was recorded from   *)
(* the beginning, in order, without a gap and without repetition, and in   *)
(* whole pieces.  It takes its time from the number of samples it heard,   *)
(* so that a gap would shift every utterance after it.                     *)
(***************************************************************************)
EXTENDS Naturals, Sequences

CONSTANT Piece    \* how many of the recorded units make one that is heard

VARIABLES
  heard,   \* the numbers of the recorded units heard so far
  over     \* the listener was given up: nothing is promised any more

Init == heard = <<>> /\ ~over

Hear ==
  /\ ~over /\ UNCHANGED over
  /\ Len(heard') > Len(heard) /\ (Len(heard') - Len(heard)) % Piece = 0
  /\ heard' = [i \in 1..Len(heard') |-> i]

End == ~over /\ over' /\ UNCHANGED heard

GivenUp == over /\ over'

Next == Hear \/ End \/ GivenUp

Spec == Init /\ [][Next]_<<heard, over>>

=============================================================================
