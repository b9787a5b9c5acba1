----------------------------- MODULE MCRetrieval -----------------------------
(* The module TLC runs: Retrieval with the constants of its .cfg file.  The  *)
(* worker processes, the notes and the texts with a chunk are each alike.    *)
EXTENDS Retrieval, TLC

Symmetry ==
  Permutations(Workers) \union Permutations(Notes) \union Permutations(Texts \ Blank)

\* Another process files what it made of the notes when they were all alike, or
\* when there were none.
WhenAllWereAlike == {[n \in Notes |-> t] : t \in (Texts \ Blank) \union {Nothing}}

=============================================================================
