------------------------------ MODULE Notebook ------------------------------
(***************************************************************************)
(* What a store promises of its notes (core/trash.rs, core/atomic_file.rs, *)
(* the module comments): a note is absent, live or in the trash, never two *)
(* of these at once; creating, saving, discarding and restoring it each    *)
(* happen at one instant; discarding and restoring keep its text; and a    *)
(* power loss may only take the notebook back to what it was at an instant *)
(* since the last change known to be on the disk.                          *)
(***************************************************************************)
CONSTANTS Notes,   \* note identifiers
          Texts,   \* what a note may hold
          NoText   \* the text of a note that does not exist

VARIABLES book,    \* where each note is and what it holds
          kept     \* the notebooks a power loss may leave

vars == <<book, kept>>

Absent == [place |-> "absent", text |-> NoText]
Live(t) == [place |-> "live", text |-> t]
Trashed(t) == [place |-> "trashed", text |-> t]

Init ==
  /\ book = [n \in Notes |-> Absent]
  /\ kept = {book}

Put(n, page) ==
  /\ book' = [book EXCEPT ![n] = page]
  /\ kept' = kept \union {book'}

Create(n, t) == book[n] = Absent /\ Put(n, Live(t))

Save(n, t) == book[n].place = "live" /\ Put(n, Live(t))

Discard(n) == book[n].place = "live" /\ Put(n, Trashed(book[n].text))

Restore(n) == book[n].place = "trashed" /\ Put(n, Live(book[n].text))

\* What happened so far will survive a power loss.
Harden == kept' = {book} /\ UNCHANGED book

PowerLoss ==
  /\ book' \in kept
  /\ kept' = {book'}

Next ==
  \/ \E n \in Notes :
       \/ \E t \in Texts : Create(n, t) \/ Save(n, t)
       \/ Discard(n)
       \/ Restore(n)
  \/ Harden
  \/ PowerLoss

Spec == Init /\ [][Next]_vars

=============================================================================
