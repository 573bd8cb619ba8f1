----------------------------- MODULE MCCaptions -----------------------------
EXTENDS Captions

CONSTANTS t1, t2

\* The first worker captures two rows in two frames, the second comes after a pause.
MCRows == <<2, 0>>
MCClock == <<1, 0>>
=============================================================================
