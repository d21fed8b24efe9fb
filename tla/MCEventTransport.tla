-------------------------- MODULE MCEventTransport --------------------------
(* Instances of EventTransport for TLC. *)
EXTENDS EventTransport, TLC

CONSTANTS c1, c2, r1, r2

Symmetry == Permutations({c1, c2}) \cup Permutations({r1, r2})

=============================================================================
