------------------------------- MODULE MCQdb -------------------------------
(* Small instances of Qdb for TLC.                                          *)
EXTENDS Qdb, TLC

CONSTANTS k1, k2, v1, v2

\* Keys and values are only stored and compared.
Symmetry == Permutations(Key) \cup Permutations(Val)
============================================================================
