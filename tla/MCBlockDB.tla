---------------------------- MODULE MCBlockDB ----------------------------
(* Small instances of BlockDB for TLC. *)
EXTENDS BlockDB, TLC

Symmetry == Permutations(Block \ Bad)
==========================================================================
