-------------------------- MODULE MCRunCancellation --------------------------
EXTENDS RunCancellation, TLC

CONSTANTS r1, w1, w2, t1, t2, x1, x2

Symmetry == Permutations(Workers) \cup Permutations(Ticks) \cup Permutations(Executors)

=============================================================================
