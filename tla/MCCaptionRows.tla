--------------------------- MODULE MCCaptionRows ---------------------------
EXTENDS CaptionRows, TLC

CONSTANTS a, b, c, anon, t1, t2, t3

\* t2 is a likely rewrite of t1 and the other way round, t3 of neither.
MCRewrites == {<<t1, t2>>, <<t2, t1>>}

\* The tracker only asks whether two names are the same.
Symmetry == Permutations({a, b, c})
=============================================================================
