------------------------------- MODULE Journals -------------------------------
(***************************************************************************)
(* Rows that are kept under a key: model turns, observations, tool jobs    *)
(* and tasks.                                                              *)
(***************************************************************************)

\* The rows f with v under the key k, whatever was there.
Put(f, k, v) == [x \in DOMAIN f \cup {k} |-> IF x = k THEN v ELSE f[x]]
=============================================================================
