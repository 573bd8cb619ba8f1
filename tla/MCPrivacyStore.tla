--------------------------- MODULE MCPrivacyStore ---------------------------
EXTENDS PrivacyStore, TLC

\* Sessions are interchangeable: no property names one of them.
Symmetry == Permutations(Ids)

=============================================================================
