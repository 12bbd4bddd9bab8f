---------------------------- MODULE MCResultPush ----------------------------
EXTENDS ResultPush, TLC

Symmetry == Permutations(Reports)
=============================================================================
