--------------------------- MODULE WriteRequests ---------------------------
(***************************************************************************)
(* What the writers of one store promise together: what a program that     *)
(* asks for a change may believe of the answer it gets.  No lease, no      *)
(* socket and no process appears here; StoreWriters implements it.         *)
(*                                                                         *)
(* The text of the note is the sequence of what was put in it: the client  *)
(* whose request was performed, or an edit of the reader.  It stands for   *)
(* the file and for its revision.                                          *)
(***************************************************************************)
EXTENDS Naturals, Sequences

CONSTANTS Clients,     \* programs that ask for one change each
          ReaderEdit,  \* an edit made in a window, no client
          NoRevision,  \* a request without a precondition
          MaxEdits     \* number of edits of the reader that may be unsaved together

VARIABLES note,      \* the text in the file
          asked,     \* the clients that asked
          expected,  \* the revision each of them requires
          answer     \* what each was told

requestVars == <<note, asked, expected, answer>>

Answers == {"none", "committed", "refused", "unavailable", "unknown"}
NothingWritten == {"refused", "unavailable"}

Performed(c) == \E i \in DOMAIN note : note[i] = c

Edits(n) == [i \in 1..n |-> ReaderEdit]

\* The precondition of c holds of the text its change is applied to.
RevisionMatches(c, text) == expected[c] \in {NoRevision, text}

Init ==
  /\ note = << >>
  /\ asked = {}
  /\ expected = [c \in Clients |-> NoRevision]
  /\ answer = [c \in Clients |-> "none"]

\* A client asks, on no condition or on the revision it has just read.
Ask(c) ==
  /\ c \notin asked
  /\ asked' = asked \union {c}
  /\ \E r \in {NoRevision, note} : expected' = [expected EXCEPT ![c] = r]
  /\ UNCHANGED <<note, answer>>

\* The change of c takes effect, at most once, on top of everything written
\* before it, and only if c was not told that nothing was written.  Text the
\* reader had not saved yet is committed with it.
Perform(c) ==
  /\ c \in asked
  /\ ~Performed(c)
  /\ answer[c] \notin NothingWritten
  /\ \E n \in 0..MaxEdits :
       /\ RevisionMatches(c, note \o Edits(n))
       /\ note' = Append(note \o Edits(n), c)
  /\ UNCHANGED <<asked, expected, answer>>

\* The reader's edits are saved.
Save ==
  /\ \E n \in 1..MaxEdits : note' = note \o Edits(n)
  /\ UNCHANGED <<asked, expected, answer>>

\* A client is told: that it was written, which is true; that nothing was,
\* which is true and stays true; or that nobody knows.
Answer(c, a) ==
  /\ c \in asked
  /\ answer[c] = "none"
  /\ a = "committed" => Performed(c)
  /\ a \in NothingWritten => ~Performed(c)
  /\ answer' = [answer EXCEPT ![c] = a]
  /\ UNCHANGED <<note, asked, expected>>

Next ==
  \/ \E c \in Clients : Ask(c) \/ Perform(c)
  \/ Save
  \/ \E c \in Clients, a \in Answers \ {"none"} : Answer(c, a)

Spec == Init /\ [][Next]_requestVars

=============================================================================
