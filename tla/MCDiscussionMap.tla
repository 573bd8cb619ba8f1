--------------------------- MODULE MCDiscussionMap ---------------------------
EXTENDS DiscussionMap, TLC

\* Items and utterances are interchangeable: no property names one of them.
Symmetry == Permutations(Ids) \cup Permutations(Utterances)

=============================================================================
