------------------------------ MODULE Elements ------------------------------
(* Counting the elements of a sequence that are of a kind.                  *)
EXTENDS Sequences, FiniteSets

\* How many elements of a sequence are in M.
Among(M, s) == Cardinality({i \in DOMAIN s : s[i] \in M})
=============================================================================
