------------------------------- MODULE NotePage -------------------------------
(***************************************************************************)
(* The page of a note window: the editor of ui/src/editor/editor.ts, its   *)
(* autosave debounce, and the ExternalWriteBarrier of                      *)
(* ui/src/bridge/externalWrite.ts that freezes it while something outside  *)
(* the window changes the note.                                            *)
(*                                                                         *)
(* A body is the set of the edits it carries (a mark per edit), which is   *)
(* what losing an edit is about.  Host and page exchange messages over two *)
(* first-in first-out channels, as WebKit delivers them.                   *)
(***************************************************************************)
EXTENDS Integers, Sequences, FiniteSets

CONSTANTS
    Notes,         \* the notes that may have a window
    MaxMarks,      \* bound: edits made in a behaviour, typed or written
    MaxRequests,   \* bound: flush and external-write requests
    MaxLooks,      \* bound: appearance changes of a note
    Faults         \* which of "disk", "adopt" and "delivery" may fail

ASSUME PageAssumption ==
    /\ Notes # {} /\ IsFiniteSet(Notes)
    /\ MaxMarks \in Nat
    /\ MaxRequests \in Nat
    /\ MaxLooks \in Nat
    /\ Faults \subseteq {"disk", "adopt", "delivery"}

VARIABLES
    page,      \* page[n]: what the WebView of note n holds
    toPage,    \* messages from the host, oldest first
    toHost,    \* messages from the page, oldest first
    nextMark,  \* the next edit
    typed      \* history: edits the reader made in n that nobody replaced

pageVars == <<page, toPage, toHost, nextMark, typed>>

Marks == 1 .. MaxMarks
Bodies == SUBSET Marks
RequestIds == 1 .. MaxRequests
NoRequest == 0

(* SyncState, with the two phases a page has before it holds a note.       *)
Phases == {"absent", "loading", "idle", "syncing", "slow", "unsynchronised"}

(* A deferred edit is a mark to insert, or the close the reader asked for. *)
CloseAction == 0
Deferred == Marks \cup {CloseAction}

ToPageTypes == {"load_note", "request_flush", "begin_external_write",
                "apply_external_document", "abort_external_write"}
ToHostTypes == {"ready", "content_changed", "paper_changed", "flush_response",
                "save_and_close", "external_write_ready",
                "external_write_applied", "external_write_apply_failed"}

Messages(types) == [type: types, req: RequestIds \cup {NoRequest},
                    gen: Nat, text: Bodies]
Message(type, req, gen, text) ==
    [type |-> type, req |-> req, gen |-> gen, text |-> text]

Pages == [phase: Phases, req: RequestIds \cup {NoRequest}, gen: Nat,
          text: Bodies, dirty: BOOLEAN, queue: Seq(Deferred)]

(* dirty: a save debounce is running.                                      *)
PageIn(phase) ==
    [phase |-> phase, req |-> NoRequest, gen |-> 0, text |-> {},
     dirty |-> FALSE, queue |-> <<>>]

PageTypeOK ==
    /\ page \in [Notes -> Pages]
    /\ toPage \in [Notes -> Seq(Messages(ToPageTypes))]
    /\ toHost \in [Notes -> Seq(Messages(ToHostTypes))]
    /\ nextMark \in 1 .. MaxMarks + 1
    /\ typed \in [Notes -> Bodies]

PageInit ==
    /\ page = [n \in Notes |-> PageIn("absent")]
    /\ toPage = [n \in Notes |-> <<>>]
    /\ toHost = [n \in Notes |-> <<>>]
    /\ nextMark = 1
    /\ typed = [n \in Notes |-> {}]

-----------------------------------------------------------------------------
(* What the barrier answers when it is asked.                              *)

Holds(n) == page[n].phase \notin {"absent", "loading"}
Active(n) == page[n].req # NoRequest
AdoptionFailed(n) == page[n].phase = "unsynchronised"

(* Mutant: a held close counted among the edits. *)
Mutant_HeldItems(queue) == {queue[i] : i \in DOMAIN queue}
Inserted(queue) == {queue[i] : i \in DOMAIN queue} \ {CloseAction}
Before(queue, item) ==
    {queue[i] : i \in {j \in DOMAIN queue :
                          \A k \in 1 .. j : queue[k] # item}}

(* An edit no close follows: closing cancels the debounce.                 *)
EditsLast(queue) ==
    \E i \in DOMAIN queue :
        /\ queue[i] # CloseAction
        /\ \A j \in i .. Len(queue) : queue[j] # CloseAction

(* Mutant: released with the held edits forgotten. *)
Mutant_ReleasedEmptyHanded(p) ==
    [p EXCEPT !.phase = "idle", !.req = NoRequest, !.queue = <<>>]

(* Every way back to editing goes through here: the request is forgotten,  *)
(* the document thawed and the held edits run on it as it now stands, each *)
(* one an ordinary edit that arms the debounce.                            *)
Released(p) ==
    [p EXCEPT !.phase = "idle",
              !.req   = NoRequest,
              !.queue = <<>>,
              !.text  = @ \cup Inserted(p.queue),
              !.dirty = EditsLast(p.queue)]

(* The message a held close sends when it finally runs.                    *)
HeldClose(p) ==
    IF CloseAction \in {p.queue[i] : i \in DOMAIN p.queue}
    THEN <<Message("save_and_close", NoRequest, p.gen,
                   p.text \cup Before(p.queue, CloseAction))>>
    ELSE <<>>

Send(n, messages) == toHost' = [toHost EXCEPT ![n] = @ \o messages]
Receive(n, type) ==
    /\ toPage[n] # <<>>
    /\ Head(toPage[n]).type = type
    /\ toPage' = [toPage EXCEPT ![n] = Tail(@)]

-----------------------------------------------------------------------------
(* What the reader does.                                                   *)

Mark(n) ==
    /\ nextMark \in Marks
    /\ nextMark' = nextMark + 1
    /\ typed' = [typed EXCEPT ![n] = @ \cup {nextMark}]

(* Any edit of a document that is free: a keystroke, a paste, a command.   *)
(* While the document is held the lock refuses the transaction.            *)
Type(n) ==
    /\ Holds(n)
    /\ page[n].phase = "idle"
    /\ Mark(n)
    /\ page' = [page EXCEPT ![n].text  = @ \cup {nextMark},
                            ![n].dirty = TRUE]
    /\ UNCHANGED <<toPage, toHost>>

(* A capture, an imported image or a metadata save that arrives while the  *)
(* document is held: it is the reader's and it waits.                      *)
DeferEdit(n) ==
    /\ Holds(n)
    /\ Active(n)
    /\ Mark(n)
    /\ page' = [page EXCEPT ![n].queue = Append(@, nextMark)]
    /\ UNCHANGED <<toPage, toHost>>

(* The debounce runs out.  Bound: at most one autosave in flight.          *)
Autosave(n) ==
    /\ Holds(n)
    /\ page[n].dirty
    /\ \A i \in DOMAIN toHost[n] : toHost[n][i].type # "content_changed"
    /\ page' = [page EXCEPT ![n].dirty = FALSE]
    /\ Send(n, IF Active(n) THEN <<>>
               ELSE <<Message("content_changed", NoRequest, page[n].gen, page[n].text)>>)
    /\ UNCHANGED <<toPage, nextMark, typed>>

(* The close button.  Bound: one close asked for at a time.                *)
SaveAndClose(n) ==
    /\ Holds(n)
    /\ \A i \in DOMAIN toHost[n] : toHost[n][i].type # "save_and_close"
    /\ \A i \in DOMAIN page[n].queue : page[n].queue[i] # CloseAction
    /\ \/ /\ Active(n)
          /\ page' = [page EXCEPT ![n].queue = Append(@, CloseAction)]
          /\ UNCHANGED toHost
       \/ /\ ~Active(n)
          /\ page' = [page EXCEPT ![n].dirty = FALSE]
          /\ Send(n, <<Message("save_and_close", NoRequest, page[n].gen, page[n].text)>>)
    /\ UNCHANGED <<toPage, nextMark, typed>>

(* The paper changes.  Appearance is not held by the barrier.  Bound: one  *)
(* change in flight.                                                       *)
ChangePaper(n) ==
    /\ Holds(n)
    /\ \A i \in DOMAIN toHost[n] : toHost[n][i].type # "paper_changed"
    /\ Send(n, <<Message("paper_changed", NoRequest, 0, {})>>)
    /\ UNCHANGED <<page, toPage, nextMark, typed>>

-----------------------------------------------------------------------------
(* What the host says.                                                     *)

LoadNote(n) ==
    /\ Receive(n, "load_note")
    /\ page' = [page EXCEPT ![n] = [PageIn("idle") EXCEPT !.gen  = Head(toPage[n]).gen,
                                                          !.text = Head(toPage[n]).text]]
    /\ UNCHANGED <<toHost, nextMark, typed>>

(* A flush is answered with what the editor holds, frozen or not.  A page  *)
(* that has not been given its note has no identifier to answer with.      *)
AnswerFlush(n) ==
    /\ Receive(n, "request_flush")
    /\ \/ /\ Holds(n)
          /\ page' = [page EXCEPT ![n].dirty = FALSE]
          /\ Send(n, <<Message("flush_response", Head(toPage[n]).req,
                               page[n].gen, page[n].text)>>)
       \/ ~Holds(n) /\ UNCHANGED <<page, toHost>>
    /\ UNCHANGED <<nextMark, typed>>

(* Freeze first, then read.  Freezing cancels the running debounce.        *)
Begin(n) ==
    /\ Receive(n, "begin_external_write")
    /\ LET m == Head(toPage[n]) IN
       \/ /\ page[n].phase = "idle"
          /\ m.gen = page[n].gen
          /\ page' = [page EXCEPT ![n].phase = "syncing",
                                  ![n].req   = m.req,
                                  ![n].dirty = FALSE]
          /\ Send(n, <<Message("external_write_ready", m.req, m.gen, page[n].text)>>)
       \/ /\ page[n].phase # "idle" \/ m.gen # page[n].gen
          /\ UNCHANGED <<page, toHost>>
    /\ UNCHANGED <<nextMark, typed>>

(* All the slow notice does is change what the reader is told.             *)
SlowNotice(n) ==
    /\ page[n].phase = "syncing"
    /\ page' = [page EXCEPT ![n].phase = "slow"]
    /\ UNCHANGED <<toPage, toHost, nextMark, typed>>

(* Mutant: adopted without moving to the committed generation. *)
Mutant_AdoptedOnOldGeneration(p, m) == Released([p EXCEPT !.text = m.text])

(* The committed note arrives.  Adopted, the page moves to its generation  *)
(* and is released; not adopted, it stays held for good.                   *)
Adopted(p, m) == Released([p EXCEPT !.text = m.text, !.gen = m.gen])

Apply(n) ==
    /\ Receive(n, "apply_external_document")
    /\ LET m == Head(toPage[n])
           p == page[n]
           Refuse == Send(n, <<Message("external_write_apply_failed", m.req, 0, {})>>)
       IN \/ /\ AdoptionFailed(n)
             /\ UNCHANGED <<page, toHost>>
          \/ /\ ~AdoptionFailed(n)
             /\ p.req # m.req
             /\ Refuse
             /\ UNCHANGED page
          \/ /\ ~AdoptionFailed(n)
             /\ p.req = m.req
             /\ "adopt" \in Faults
             /\ page' = [page EXCEPT ![n].phase = "unsynchronised"]
             /\ Refuse
          \/ /\ ~AdoptionFailed(n)
             /\ p.req = m.req
             /\ page' = [page EXCEPT ![n] = Adopted(p, m)]
             /\ Send(n, HeldClose([p EXCEPT !.text = m.text, !.gen = m.gen])
                        \o <<Message("external_write_applied", m.req, m.gen, {})>>)
    /\ UNCHANGED <<nextMark, typed>>

(* Nothing was written: the document is released exactly as it was.        *)
Abort(n) ==
    /\ Receive(n, "abort_external_write")
    /\ LET releases == page[n].req = Head(toPage[n]).req /\ ~AdoptionFailed(n) IN
       \/ /\ releases
          /\ page' = [page EXCEPT ![n] = Released(@)]
          /\ Send(n, HeldClose(page[n]))
       \/ ~releases /\ UNCHANGED <<page, toHost>>
    /\ UNCHANGED <<nextMark, typed>>

PageHears(n) == LoadNote(n) \/ AnswerFlush(n) \/ Begin(n) \/ Apply(n) \/ Abort(n)
=============================================================================
