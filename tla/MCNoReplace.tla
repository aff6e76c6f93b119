----------------------------- MODULE MCNoReplace -----------------------------
\* Three writers: one publishes, one loses, one comes in between.
EXTENDS NoReplace, TLC

Symmetry == Permutations(Writers)
=============================================================================
