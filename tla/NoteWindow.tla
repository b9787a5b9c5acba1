------------------------------ MODULE NoteWindow ------------------------------
(***************************************************************************)
(* The host's half of a note window: the message handlers of               *)
(* src/src/note_window.rs, and the operations of src/src/app.rs that close *)
(* windows (close, hide, quit, trash).  Every action is one turn of the    *)
(* GTK main loop.  The state of the write authority, task, is declared     *)
(* here because a window it waits on outlives its own closing; its actions *)
(* are in DesktopWrites.                                                   *)
(***************************************************************************)
EXTENDS NotePage, Lifecycle

VARIABLES
    file,        \* file[n]: the last document written for note n
    live,        \* notes whose file is in notes/
    trashed,     \* notes with a file in trash/
    win,         \* win[n]: "none", "loading" or "loaded"
    doc,         \* doc[n]: the document the host holds for the window
    hostGen,     \* hostGen[n]: external_generation
    pendingWrite,\* pendingWrite[n]: the external write waiting for its snapshot
    pendingAck,  \* pendingAck[n]: the request waiting for its acknowledgement
    flushes,     \* flushes[n]: flush requests not answered yet
    batch,       \* the FlushBatch of the hide or quit in progress
    task,        \* the request the write authority is serving
    nextReq,     \* the next request id
    running,     \* the application has not quit
    reported,    \* history: marks the page of n answered with, not replaced since
    written,     \* history: marks committed writes put in n, not replaced since
    refused      \* history: marks of the writes that were refused

hostVars == <<file, live, trashed, win, doc, hostGen, pendingWrite, pendingAck,
              flushes, batch, task, nextReq, running, reported, written, refused>>
vars == <<pageVars, lifecycleVars, hostVars>>

Documents == [body: Bodies, look: Nat]

(* What a request asks.  "noop" stands for a mutation that changes nothing *)
(* (a tag the note already has).  replace and discard carry the revision   *)
(* the client read; append and noop carry none.                            *)
Kinds == {"append", "noop", "replace", "discard"}
Conditional(t) == t.kind \in {"replace", "discard"}
BringsText(t) == t.kind \in {"append", "replace"}

(* Where the authority is: nothing to do, a request queued, waiting for    *)
(* the snapshot, snapshot result in hand, waiting for the acknowledgement, *)
(* acknowledgement (or its absence) in hand.                               *)
Stages == {"idle", "queued", "snapshot", "resumed", "ack", "synced"}
Tasks == [stage: Stages, note: Notes, kind: Kinds, mark: Marks \cup {0},
          expected: Documents, req: RequestIds \cup {NoRequest},
          text: Bodies, ok: BOOLEAN]
HeldStages == {"snapshot", "resumed", "ack", "synced"}
IsIdle(t) == t.stage = "idle"

Flushes == [req: RequestIds, why: {"trash", "batch"}]
Batches == [remaining: Nat, failed: BOOLEAN]

EmptyDocument == [body |-> {}, look |-> 0]

WindowTypeOK ==
    /\ PageTypeOK
    /\ LifecycleTypeOK
    /\ file \in [Notes -> Documents]
    /\ live \subseteq Notes
    /\ trashed \subseteq Notes
    /\ win \in [Notes -> {"none", "loading", "loaded"}]
    /\ doc \in [Notes -> Documents]
    /\ hostGen \in [Notes -> Nat]
    /\ pendingWrite \in [Notes -> RequestIds \cup {NoRequest}]
    /\ pendingAck \in [Notes -> RequestIds \cup {NoRequest}]
    /\ flushes \in [Notes -> SUBSET Flushes]
    /\ batch \in Batches
    /\ task \in Tasks
    /\ BringsText(task) => task.mark \in Marks
    /\ nextReq \in 1 .. MaxRequests + 1
    /\ running \in BOOLEAN
    /\ reported \in [Notes -> Bodies]
    /\ written \in [Notes -> Bodies]
    /\ refused \in Bodies

NoTask == [stage |-> "idle", note |-> CHOOSE n \in Notes : TRUE, kind |-> "noop",
           mark |-> 0, expected |-> EmptyDocument, req |-> NoRequest,
           text |-> {}, ok |-> FALSE]

WindowInit ==
    /\ PageInit
    /\ LifecycleInit
    /\ file = [n \in Notes |-> EmptyDocument]
    /\ live = Notes
    /\ trashed = {}
    /\ win = [n \in Notes |-> "none"]
    /\ doc = [n \in Notes |-> EmptyDocument]
    /\ hostGen = [n \in Notes |-> 0]
    /\ pendingWrite = [n \in Notes |-> NoRequest]
    /\ pendingAck = [n \in Notes |-> NoRequest]
    /\ flushes = [n \in Notes |-> {}]
    /\ batch = [remaining |-> 0, failed |-> FALSE]
    /\ task = NoTask
    /\ nextReq = 1
    /\ running = TRUE
    /\ reported = [n \in Notes |-> {}]
    /\ written = [n \in Notes |-> {}]
    /\ refused = {}

-----------------------------------------------------------------------------
(* Pieces the handlers share.                                              *)

Windows == {n \in Notes : win[n] # "none"}

(* The authority's coroutine holds a clone of the window it waits on, so   *)
(* that window's page answers even after the window itself was closed.     *)
HeldByTask(n) ==
    /\ task.note = n
    /\ task.stage \in HeldStages

Outcomes == IF "disk" \in Faults THEN BOOLEAN ELSE {TRUE}

(* Mutant: a save that reports a failure after its rename. *)
Mutant_SaveFailsAfterRename(n, d, ok) ==
    /\ file' = [file EXCEPT ![n] = d]
    /\ live' = live \cup {n}

(* save_note_atomic: the file holds the new document or exactly the old    *)
(* one.  It does not ask whether the note is still in notes/.              *)
SaveDocument(n, d, ok) ==
    /\ file' = IF ok THEN [file EXCEPT ![n] = d] ELSE file
    /\ live' = IF ok THEN live \cup {n} ELSE live

(* Mutant: the host adopts the document before it is written. *)
Mutant_CommitBeforeWritten(n, d, ok) ==
    /\ SaveDocument(n, d, ok)
    /\ doc' = [doc EXCEPT ![n] = d]

(* commit_once_written: the host adopts what was written, and only that.   *)
CommitOnceWritten(n, d, ok) ==
    /\ SaveDocument(n, d, ok)
    /\ doc' = IF ok THEN [doc EXCEPT ![n] = d] ELSE doc

(* Mutant: every generation is accepted. *)
Mutant_AcceptsAnyGeneration(n, quoted) == TRUE

AcceptsGeneration(n, quoted) == quoted = hostGen[n]

(* Windows in gone close.  A page dies with its window unless the          *)
(* authority still holds it.  heard: notes whose oldest page message was   *)
(* taken; told: a message for the page of a note.                          *)
Turn(heard, gone, told) ==
    LET reaped == {n \in gone : ~HeldByTask(n)} IN
    /\ win' = [n \in Notes |-> IF n \in gone THEN "none" ELSE win[n]]
    /\ page' = [n \in Notes |-> IF n \in reaped THEN PageIn("absent") ELSE page[n]]
    /\ toHost' = [n \in Notes |-> IF n \in reaped THEN <<>>
                                  ELSE IF n \in heard THEN Tail(toHost[n])
                                  ELSE toHost[n]]
    /\ toPage' = [n \in Notes |-> IF n \in reaped THEN <<>>
                                  ELSE toPage[n] \o told[n]]

Silence == [n \in Notes |-> <<>>]
Tell(n, message) == [Silence EXCEPT ![n] = <<message>>]
Hears(n, type) == toHost[n] # <<>> /\ Head(toHost[n]).type = type

NewRequest ==
    /\ nextReq \in RequestIds
    /\ nextReq' = nextReq + 1

-----------------------------------------------------------------------------
(* Opening a window, and the messages that carry content back.             *)

(* A window on a closed note: a search result chosen, a summon.  Neither   *)
(* asks the coordinator first.  Bound: not while the authority still holds *)
(* the page of a window that was closed underneath it.                     *)
OpenWindow(n) ==
    /\ running
    /\ n \in live
    /\ win[n] = "none"
    /\ page[n].phase = "absent"
    /\ win' = [win EXCEPT ![n] = "loading"]
    /\ page' = [page EXCEPT ![n] = PageIn("loading")]
    /\ toHost' = [toHost EXCEPT ![n] = <<Message("ready", NoRequest, 0, {})>>]
    /\ doc' = [doc EXCEPT ![n] = file[n]]
    /\ hostGen' = [hostGen EXCEPT ![n] = 0]
    /\ typed' = [typed EXCEPT ![n] = {}]
    /\ reported' = [reported EXCEPT ![n] = {}]
    /\ UNCHANGED <<toPage, nextMark, lifecycleVars, file, live, trashed, pendingWrite,
                   pendingAck, flushes, batch, task, nextReq, running, written, refused>>

Ready(n) ==
    /\ Hears(n, "ready")
    /\ toHost' = [toHost EXCEPT ![n] = Tail(@)]
    /\ toPage' = [toPage EXCEPT ![n] =
                     Append(@, Message("load_note", NoRequest, hostGen[n], doc[n].body))]
    /\ win' = [win EXCEPT ![n] = "loaded"]
    /\ UNCHANGED <<page, nextMark, typed, lifecycleVars, file, live, trashed, doc, hostGen,
                   pendingWrite, pendingAck, flushes, batch, task, nextReq, running,
                   reported, written, refused>>

(* History: the page answered with its text a request to close or flush.   *)
Reports(n) == reported' = [reported EXCEPT ![n] = @ \cup Head(toHost[n]).text]

(* save_content: a body identical to the one held is not written again.    *)
SaveContent(n, text, ok) ==
    IF doc[n].body = text
    THEN ok /\ UNCHANGED <<file, live, doc>>
    ELSE CommitOnceWritten(n, [doc[n] EXCEPT !.body = text], ok)

ContentChanged(n) ==
    /\ Hears(n, "content_changed")
    /\ Turn({n}, {}, Silence)
    /\ \/ /\ AcceptsGeneration(n, Head(toHost[n]).gen)
          /\ \E ok \in Outcomes : SaveContent(n, Head(toHost[n]).text, ok)
       \/ /\ ~AcceptsGeneration(n, Head(toHost[n]).gen)
          /\ UNCHANGED <<file, live, doc>>
    /\ UNCHANGED <<nextMark, typed, lifecycleVars, trashed, hostGen, pendingWrite,
                   pendingAck, flushes, batch, task, nextReq, running, reported, written, refused>>

(* Appearance carries no generation: it changes the document the host      *)
(* holds, whatever the page is showing.                                    *)
PaperChanged(n) ==
    /\ Hears(n, "paper_changed")
    /\ Turn({n}, {}, Silence)
    /\ \E ok \in Outcomes :
          CommitOnceWritten(n, [doc[n] EXCEPT !.look = @ + 1], ok)
    /\ UNCHANGED <<nextMark, typed, lifecycleVars, trashed, hostGen, pendingWrite,
                   pendingAck, flushes, batch, task, nextReq, running, reported, written, refused>>

-----------------------------------------------------------------------------
(* Closing, trashing, hiding and quitting.                                 *)

(* save_and_close then close_note.  A close refused by the coordinator, or *)
(* one whose state could not be persisted, is only logged.                 *)
SaveAndCloseAsked(n) ==
    /\ Hears(n, "save_and_close")
    /\ \E ok, persisted \in Outcomes :
          LET stale == ~AcceptsGeneration(n, Head(toHost[n]).gen)
              closes == /\ stale \/ ok
                        /\ StructuralActionAllowed
                        /\ win[n] # "none"
                        /\ persisted
          IN /\ IF stale THEN UNCHANGED <<file, live, doc>>
                ELSE SaveContent(n, Head(toHost[n]).text, ok)
             /\ Turn({n}, IF closes THEN {n} ELSE {}, Silence)
             /\ IF closes THEN Reports(n) ELSE UNCHANGED reported
    /\ UNCHANGED <<nextMark, typed, lifecycleVars, trashed, hostGen, pendingWrite,
                   pendingAck, flushes, batch, task, nextReq, running, written, refused>>

RequestFlush(notes, why) ==
    /\ flushes' = [n \in Notes |-> IF n \in notes
                                   THEN flushes[n] \cup {[req |-> nextReq, why |-> why]}
                                   ELSE flushes[n]]
    /\ toPage' = [n \in Notes |-> IF n \in notes
                                  THEN Append(toPage[n], Message("request_flush", nextReq, 0, {}))
                                  ELSE toPage[n]]

(* trash_note asks the coordinator now; the move happens when the flush is *)
(* answered.                                                               *)
TrashNote(n) ==
    /\ running
    /\ StructuralActionAllowed
    /\ win[n] # "none"
    /\ NewRequest
    /\ RequestFlush({n}, "trash")
    /\ UNCHANGED <<page, toHost, nextMark, typed, lifecycleVars, file, live, trashed, win,
                   doc, hostGen, pendingWrite, pendingAck, batch, task, running,
                   reported, written, refused>>

(* hide and quit claim the coordinator and flush every window.  With no    *)
(* window the flush completes at once, and so does the operation.          *)
StartFlushAll(operation) ==
    /\ running
    /\ StructuralActionAllowed
    /\ \/ /\ Windows # {}
          /\ BeginLifecycle(operation)
          /\ NewRequest
          /\ RequestFlush(Windows, "batch")
          /\ batch' = [remaining |-> Cardinality(Windows), failed |-> FALSE]
          /\ UNCHANGED running
       \/ /\ Windows = {}
          /\ operation = "Quit"
          /\ running' = FALSE
          /\ UNCHANGED <<lifecycleVars, nextReq, flushes, toPage, batch>>
    /\ UNCHANGED <<page, toHost, nextMark, typed, file, live, trashed, win, doc, hostGen,
                   pendingWrite, pendingAck, task, reported, written, refused>>

(* commit_trash on a flush that ended well, d being what is now on file:   *)
(* move_to_trash refuses a note that is not in notes/ or already in trash/. *)
CommitTrash(n, nowLive, ok) ==
    /\ trashed' = IF ok /\ n \in nowLive /\ n \notin trashed THEN trashed \cup {n} ELSE trashed
    /\ live' = IF trashed' # trashed THEN nowLive \ {n} ELSE nowLive

(* Mutant: only the last answer counts. *)
Mutant_RecordForgetful(ok) ==
    IF batch.remaining = 0 THEN [batch |-> batch, ends |-> FALSE, commits |-> FALSE]
    ELSE [batch   |-> [remaining |-> batch.remaining - 1, failed |-> ~ok],
          ends    |-> batch.remaining = 1,
          commits |-> batch.remaining = 1 /\ ok]

(* FlushBatch::record; the last answer ends the operation.  Hide closes    *)
(* every window there is by then, and quit ends the process.               *)
Record(ok) ==
    LET failed == batch.failed \/ ~ok IN
    IF batch.remaining = 0 THEN [batch |-> batch, ends |-> FALSE, commits |-> FALSE]
    ELSE [batch   |-> [remaining |-> batch.remaining - 1, failed |-> failed],
          ends    |-> batch.remaining = 1,
          commits |-> batch.remaining = 1 /\ ~failed]

(* The callback of one flush request, with ok its result and nowLive the   *)
(* notes in notes/ once its save is done.                                  *)
FlushSettled(n, flush, ok, nowLive, heard, told) ==
    /\ flushes' = [flushes EXCEPT ![n] = @ \ {flush}]
    /\ \/ /\ flush.why = "trash"
          /\ \E moves \in Outcomes :
                /\ CommitTrash(n, nowLive, ok /\ moves)
                /\ Turn(heard, IF trashed' # trashed THEN {n} ELSE {}, told)
          /\ UNCHANGED <<batch, lifecycleVars, running>>
       \/ /\ flush.why = "batch"
          /\ \E persisted \in Outcomes :
                LET r == Record(ok)
                    commits == r.commits /\ persisted
                IN /\ batch' = r.batch
                   /\ IF r.ends THEN FinishLifecycle(active)
                                ELSE UNCHANGED lifecycleVars
                   /\ Turn(heard, IF commits THEN Windows ELSE {}, told)
                   /\ running' = (running /\ ~(commits /\ active = "Quit"))
          /\ live' = nowLive
          /\ UNCHANGED trashed

FlushResponse(n) ==
    /\ Hears(n, "flush_response")
    /\ LET m == Head(toHost[n])
           waiting == {f \in flushes[n] : f.req = m.req}
           saves == doc[n].body # m.text
           d == [doc[n] EXCEPT !.body = m.text]
       IN \/ /\ waiting = {}
             /\ Turn({n}, {}, Silence)
             /\ UNCHANGED <<file, live, trashed, doc, flushes, batch, lifecycleVars, running,
                            reported>>
          \/ \E flush \in waiting :
                /\ ~AcceptsGeneration(n, m.gen)
                /\ FlushSettled(n, flush, FALSE, live, {n}, Silence)
                /\ UNCHANGED <<file, doc, reported>>
          \/ \E flush \in waiting, ok \in Outcomes :
                /\ AcceptsGeneration(n, m.gen)
                /\ file' = IF saves /\ ok THEN [file EXCEPT ![n] = d] ELSE file
                /\ doc' = IF saves /\ ok THEN [doc EXCEPT ![n] = d] ELSE doc
                /\ FlushSettled(n, flush, ok \/ ~saves,
                                IF saves /\ ok THEN live \cup {n} ELSE live, {n}, Silence)
                /\ Reports(n)
    /\ UNCHANGED <<nextMark, typed, hostGen, pendingWrite, pendingAck, task, nextReq,
                   written, refused>>

(* FLUSH_TIMEOUT.                                                          *)
ExpireFlush(n) ==
    /\ \E flush \in flushes[n] : FlushSettled(n, flush, FALSE, live, {}, Silence)
    /\ UNCHANGED <<nextMark, typed, file, doc, hostGen, pendingWrite, pendingAck, task,
                   nextReq, reported, written, refused>>
=============================================================================
