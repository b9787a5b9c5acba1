----------------------------- MODULE MCDesktop -----------------------------
(* The module TLC runs: Desktop with the constants of its .cfg files. *)
EXTENDS Desktop, TLC

Symmetry == Permutations(Notes)
=============================================================================
