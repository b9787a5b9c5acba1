--------------------------- MODULE MCStoreWriters ---------------------------
(* The module TLC runs: StoreWriters with the constants of its .cfg files. *)
EXTENDS StoreWriters, TLC

Processes == Permutations(Clients) \union Permutations(Desktops)

=============================================================================
