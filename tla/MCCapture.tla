------------------------------ MODULE MCCapture ------------------------------
(* The module TLC runs: Capture with the constants of its .cfg files. *)
EXTENDS Capture, TLC

Symmetry == Permutations(Notes)
=============================================================================
