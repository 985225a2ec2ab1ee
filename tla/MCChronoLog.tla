---------------------------- MODULE MCChronoLog ----------------------------
EXTENDS ChronoLog, TLC

Symmetry == Permutations(Id)
=============================================================================
