------------------------------ MODULE MCOpenNote ------------------------------
(* The module TLC runs: OpenNote with the constants of its .cfg files. *)
EXTENDS OpenNote
=============================================================================
