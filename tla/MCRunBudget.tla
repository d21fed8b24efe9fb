---------------------------- MODULE MCRunBudget ----------------------------
EXTENDS RunBudget, TLC

CONSTANTS t1, t2, search, look

MCToolTokens == [k \in {search, look} |-> IF k = search THEN 1 ELSE 0]

Symmetry == Permutations({t1, t2})

\* The counters of the run are what its calls say, within their types (harness.py).
CountersTell == TypeOK /\ Accounting

=============================================================================
