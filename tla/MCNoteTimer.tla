---------------------------- MODULE MCNoteTimer ----------------------------
(* The module TLC runs: NoteTimer with the constants of its .cfg file. *)
EXTENDS NoteTimer, TLC

=============================================================================
