------------------------------ MODULE MCTerminal ------------------------------
(* The module TLC runs: Terminal with the constants of its .cfg file, and *)
(* what the store makes of three texts.                                   *)
EXTENDS Terminal, TLC

CONSTANTS n1, n2, empty, words, wordsLine

\* A text and the same with a line end too many are one text to the store.
CanonicalValue == (empty :> empty) @@ (words :> words) @@ (wordsLine :> words)

Symmetry == Permutations({n1, n2})
=============================================================================
