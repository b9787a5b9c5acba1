---------------------------- MODULE MCStoreFiles ----------------------------
(* The module TLC runs: StoreFiles with the constants of its .cfg files. *)
EXTENDS StoreFiles, TLC

=============================================================================
