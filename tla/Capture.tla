-------------------------------- MODULE Capture --------------------------------
(***************************************************************************)
(* Clipboard capture in the application: the clipboard handler, its reads, *)
(* the operations of src/src/app.rs that switch the mode or take a window  *)
(* down, and the page (src/ui/src/main.ts) a capture is handed to.         *)
(*                                                                         *)
(* A copy is its number; what it was is in copies.  A page is loaded as    *)
(* soon as its window opens; its autosave, and the way a write from        *)
(* outside ends, are in OpenNote: here such a write freezes a page and     *)
(* frees it.  Quitting is hiding, up to the end of the process.            *)
(***************************************************************************)
EXTENDS AutoPaste, Lifecycle, Sequences, FiniteSets

CONSTANTS
    MaxCopies,     \* bound: things copied
    Kinds,         \* what is copied: words of another application, words of
                   \* Note-it's own, nothing but blanks, an image
    MaxCommands,   \* bound: what the reader asks of Note-it
    MaxWrites,     \* bound: writes from outside that hold a page
    Outcomes       \* what a write or a read may do: TRUE, or TRUE and FALSE

ASSUME CaptureAssumption ==
    /\ Notes # {} /\ IsFiniteSet(Notes)
    /\ Kinds \subseteq {"words", "own", "blank", "image"}
    /\ MaxCopies \in Nat /\ MaxCommands \in Nat /\ MaxWrites \in Nat
    /\ TRUE \in Outcomes /\ Outcomes \subseteq BOOLEAN

VARIABLES
    copies,    \* copies[i]: what the i-th copy was, and the session it met
    watch,     \* the handler of the clipboard's changes is connected
    reads,     \* the clipboard reads in flight
    window,    \* notes with a window
    live,      \* notes in notes/
    file,      \* file[n]: the captures on file
    page,      \* page[n]: the page of note n
    toPage, toHost,
    holding,   \* the note a write from outside holds, if any
    flushes,   \* flushes[n]: flush requests not answered yet
    batch,     \* the FlushBatch of the hide in progress
    commands,  \* what the reader asked so far
    writes,    \* writes from outside so far
    taken,     \* history: taken[n]: captures handed to the page of n
    flushed,   \* history: flushed[n]: the generation the last saved flush covers
    opened     \* history: opened[n]: copies made before its window opened

captureVars == <<copies, watch, reads>>
windowVars == <<window, live, file, page, toPage, toHost, holding, flushes, batch>>
boundVars == <<commands, writes, taken, flushed, opened>>
vars == <<policyVars, lifecycleVars, captureVars, windowVars, boundVars>>

Items == 1 .. MaxCopies
Copies == [session : Sessions \cup {NotArmed}, kind : Kinds]
Reads == [session : Sessions, item : Items]
Pages == [active : BOOLEAN, frozen : BOOLEAN, held : Seq(Items), text : Seq(Items)]
Flushes == [why : {"trash", "batch"}, id : Nat, generation : Nat]
NoFlush == [why |-> "batch", id |-> 0, generation |-> 0]
MessageTypes == {"set_auto_paste", "auto_paste_captured", "request_flush",
                 "begin_external_write", "abort_external_write",
                 "auto_paste_requested", "save_and_close", "flush_response"}
Messages ==
    {m \in [type : MessageTypes, on : BOOLEAN, item : Nat, flush : Flushes, text : Seq(Items)] :
        m.type = "auto_paste_captured" => m.item \in Items}

Elements(s) == {s[i] : i \in DOMAIN s}

Message(type) ==
    [type |-> type, on |-> FALSE, item |-> 0, flush |-> NoFlush, text |-> <<>>]
Switch(on) == [Message("set_auto_paste") EXCEPT !.on = on]
Captured(i) == [Message("auto_paste_captured") EXCEPT !.item = i]
PageOf(text) == [active |-> FALSE, frozen |-> FALSE, held |-> <<>>, text |-> text]

Init ==
    /\ PolicyInit
    /\ LifecycleInit
    /\ copies = <<>>
    /\ watch = FALSE
    /\ reads = {}
    /\ window = Notes
    /\ live = Notes
    /\ file = [n \in Notes |-> <<>>]
    /\ page = [n \in Notes |-> PageOf(<<>>)]
    /\ toPage = [n \in Notes |-> <<>>]
    /\ toHost = [n \in Notes |-> <<>>]
    /\ holding = {}
    /\ flushes = [n \in Notes |-> {}]
    /\ batch = [remaining |-> 0, failed |-> FALSE]
    /\ commands = 0
    /\ writes = 0
    /\ taken = [n \in Notes |-> {}]
    /\ flushed = [n \in Notes |-> 0]
    /\ opened = [n \in Notes |-> 0]

-----------------------------------------------------------------------------
(* Pieces the handlers share.                                              *)

Send(n, message) == toHost' = [toHost EXCEPT ![n] = Append(@, message)]
Hears(n, type) == toHost[n] # <<>> /\ Head(toHost[n]).type = type
Command == commands < MaxCommands /\ commands' = commands + 1

(* Windows in gone close, and their pages with them.  heard: notes whose   *)
(* oldest message was taken; told[n]: what the page of n is told.          *)
Turn(heard, gone, told) ==
    /\ window' = window \ gone
    /\ page' = [n \in Notes |-> IF n \in gone THEN PageOf(<<>>) ELSE page[n]]
    /\ toHost' = [n \in Notes |-> IF n \in gone THEN <<>>
                                  ELSE IF n \in heard THEN Tail(toHost[n]) ELSE toHost[n]]
    /\ toPage' = [n \in Notes |-> IF n \in gone \/ n \notin window THEN <<>>
                                  ELSE toPage[n] \o told[n]]

Silence == [n \in Notes |-> <<>>]

(* publish_autopaste: each of the notes is told whether it is the target.  *)
Published(notes) ==
    [n \in Notes |-> IF n \in notes
                     THEN <<Switch(armed' # NotArmed /\ armed'.note = n)>> ELSE <<>>]

TargetSet == {n \in Notes : IsTarget(n)}

(* disarm_autopaste, if one of these notes is the target.                  *)
DisarmAutopaste(notes) ==
    IF TargetSet \cap notes # {} THEN Disarm /\ watch' = FALSE
    ELSE UNCHANGED <<policyVars, watch>>

-----------------------------------------------------------------------------
(* The clipboard.                                                          *)

(* Somebody copies something, Note-it itself included, and the handler, if *)
(* it is connected, decides.                                               *)
Copy(kind) ==
    /\ Len(copies) < MaxCopies
    /\ copies' = Append(copies, [session |-> armed, kind |-> kind])
    /\ IF watch
       THEN /\ Observe(kind = "own", kind # "image")
            /\ reads' = IF ReadsNow(kind = "own", kind # "image")
                        THEN reads \cup {[session |-> armed, item |-> Len(copies) + 1]}
                        ELSE reads
       ELSE UNCHANGED <<policyVars, reads>>
    /\ UNCHANGED <<lifecycleVars, watch, windowVars, boundVars>>

(* deliver_capture.  A read gives what was on the clipboard when it        *)
(* started; it may fail, and fails on what is not text.  What was queued   *)
(* is read now, from the clipboard as it is now.                           *)
FinishClipboardRead(r) ==
    /\ r \in reads
    /\ FinishRead
    /\ reads' = (reads \ {r}) \cup
                   IF ReadsAgain THEN {[session |-> armed, item |-> Len(copies)]} ELSE {}
    /\ \E readable \in Outcomes :
          LET to == {n \in window : /\ readable
                                    /\ copies[r.item].kind \in {"words", "own"}
                                    /\ Accepts(r.session)
                                    /\ IsTarget(n)}
          IN /\ toPage' = [n \in Notes |-> IF n \in to THEN Append(toPage[n], Captured(r.item))
                                           ELSE toPage[n]]
             /\ taken' = [n \in Notes |-> IF n \in to THEN taken[n] \cup {r.item} ELSE taken[n]]
    /\ UNCHANGED <<lifecycleVars, copies, watch, window, live, file, page, toHost, flushes,
                   batch, holding, commands, writes, flushed, opened>>

-----------------------------------------------------------------------------
(* The page.                                                               *)

AskSwitch(n, on) ==
    /\ Command
    /\ n \in window
    /\ Send(n, [Message("auto_paste_requested") EXCEPT !.on = on])
    /\ UNCHANGED <<policyVars, lifecycleVars, captureVars, window, live, file, page, toPage,
                   flushes, batch, holding, writes, taken, flushed, opened>>

(* Bound: a close asked while the page is frozen is in OpenNote.           *)
SaveAndClose(n) ==
    /\ Command
    /\ n \in window
    /\ ~page[n].frozen
    /\ Send(n, [Message("save_and_close") EXCEPT !.text = page[n].text])
    /\ UNCHANGED <<policyVars, lifecycleVars, captureVars, window, live, file, page, toPage,
                   flushes, batch, holding, writes, taken, flushed, opened>>

(* applyCapture: the mode is asked again when a held capture is filed.     *)
Filed(p, items) == [p EXCEPT !.text = IF p.active THEN @ \o items ELSE @]

PageHears(n) ==
    /\ toPage[n] # <<>>
    /\ toPage' = [toPage EXCEPT ![n] = Tail(@)]
    /\ LET m == Head(toPage[n])
           p == page[n]
       IN \/ /\ m.type = "set_auto_paste"
             /\ page' = [page EXCEPT ![n].active = m.on]
             /\ UNCHANGED toHost
          \/ /\ m.type = "auto_paste_captured"
             /\ page' = [page EXCEPT ![n] =
                            IF p.frozen /\ p.active
                            THEN [p EXCEPT !.held = Append(@, m.item)]
                            ELSE Filed(p, <<m.item>>)]
             /\ UNCHANGED toHost
          \/ /\ m.type = "request_flush"
             /\ Send(n, [Message("flush_response") EXCEPT !.flush = m.flush, !.text = p.text])
             /\ UNCHANGED page
          \/ /\ m.type = "begin_external_write"
             /\ page' = [page EXCEPT ![n].frozen = TRUE]
             /\ UNCHANGED toHost
          \/ /\ m.type = "abort_external_write"
             /\ page' = [page EXCEPT ![n] =
                            [Filed(p, p.held) EXCEPT !.frozen = FALSE, !.held = <<>>]]
             /\ UNCHANGED toHost
    /\ UNCHANGED <<policyVars, lifecycleVars, captureVars, window, live, file, flushes, batch,
                   holding, boundVars>>

-----------------------------------------------------------------------------
(* The host.                                                               *)

(* Mutant: only the note that asked is told. *)
Mutant_ToldAskerOnly(n) == {n}

(* The note that asked, and the one that loses the target to it.           *)
Told(n) == {n} \cup IF Head(toHost[n]).on THEN TargetSet ELSE {}

(* set_autopaste: arming is what connects the handler.                     *)
SwitchAsked(n) ==
    /\ Hears(n, "auto_paste_requested")
    /\ IF Head(toHost[n]).on
       THEN Arm(n) /\ watch' = TRUE
       ELSE DisarmAutopaste({n})
    /\ Turn({n}, {}, Published(Told(n)))
    /\ UNCHANGED <<lifecycleVars, copies, reads, live, file, flushes, batch, holding, boundVars>>

(* set_capture_delimiter pushes the switch with it, to every window.       *)
SetCaptureDelimiter ==
    /\ Command
    /\ UNCHANGED <<policyVars, lifecycleVars, captureVars, live, file, flushes, batch,
                   holding, writes, taken, flushed, opened>>
    /\ Turn({}, {}, Published(window))

(* Bound: not while a write still holds the note's last window.            *)
OpenWindow(n) ==
    /\ Command
    /\ n \in live \ (window \cup holding)
    /\ window' = window \cup {n}
    /\ page' = [page EXCEPT ![n] = PageOf(file[n])]
    /\ flushed' = [flushed EXCEPT ![n] = 0]
    /\ opened' = [opened EXCEPT ![n] = Len(copies)]
    /\ UNCHANGED <<policyVars, lifecycleVars, captureVars, live, file, toPage, toHost,
                   flushes, batch, holding, writes, taken>>

(* save_and_close, then close_note, which disarms before it finds out      *)
(* whether the closed state can be persisted.                              *)
SaveAndCloseAsked(n) ==
    /\ Hears(n, "save_and_close")
    /\ \E saved, persisted \in Outcomes :
          LET disarms == saved /\ StructuralActionAllowed IN
          /\ file' = IF saved THEN [file EXCEPT ![n] = Head(toHost[n]).text] ELSE file
          /\ DisarmAutopaste(IF disarms THEN {n} ELSE {})
          /\ Turn({n}, IF disarms /\ persisted THEN {n} ELSE {},
                  Published(IF disarms THEN TargetSet \cap {n} ELSE {}))
    /\ UNCHANGED <<lifecycleVars, copies, reads, live, flushes, batch, holding, boundVars>>

(* The pages of notes are asked for their text, those of told hear what    *)
(* their switch is now first.                                              *)
RequestFlush(notes, why, told) ==
    LET flush == [why |-> why, id |-> commands', generation |-> nextGeneration']
        message == [Message("request_flush") EXCEPT !.flush = flush]
    IN /\ flushes' = [n \in Notes |-> IF n \in notes THEN flushes[n] \cup {flush}
                                      ELSE flushes[n]]
       /\ Turn({}, {}, [n \in Notes |-> Published(told)[n] \o
                                         IF n \in notes THEN <<message>> ELSE <<>>])

(* Mutant: capture goes on until the windows are gone. *)
Mutant_FlushStillArmed(targets, notes, why) ==
    /\ UNCHANGED <<policyVars, watch>>
    /\ RequestFlush(notes, why, {})

(* Before the flush, and not after it, capture is switched off.            *)
DisarmThenFlush(targets, notes, why) ==
    /\ DisarmAutopaste(targets)
    /\ RequestFlush(notes, why, TargetSet \cap targets)

TrashNote(n) ==
    /\ Command
    /\ StructuralActionAllowed
    /\ n \in window
    /\ DisarmThenFlush({n}, {n}, "trash")
    /\ UNCHANGED <<lifecycleVars, copies, reads, live, file, batch, holding, writes, taken,
                   flushed, opened>>

(* With no window the flush is over at once, and so is the hide.           *)
Hide ==
    /\ Command
    /\ DisarmThenFlush(Notes, window, "batch")
    /\ IF window = {}
       THEN StructuralActionAllowed /\ UNCHANGED <<lifecycleVars, batch>>
       ELSE /\ BeginLifecycle("Hide")
            /\ batch' = [remaining |-> Cardinality(window), failed |-> FALSE]
    /\ UNCHANGED <<copies, reads, live, file, holding, writes, taken, flushed, opened>>

(* The answer to a flush, or its timeout: ok, with everything saved, or    *)
(* not.  A trash moves the note and closes its window; the last answer of  *)
(* a hide closes every window.                                             *)
FlushSettled(n, flush, ok, heard) ==
    /\ flushes' = [flushes EXCEPT ![n] = @ \ {flush}]
    /\ \E committed \in Outcomes :
          LET failed == batch.failed \/ ~ok
              last == flush.why = "batch" /\ batch.remaining = 1
              trashes == flush.why = "trash" /\ ok /\ committed /\ n \in live
          IN /\ live' = IF trashes THEN live \ {n} ELSE live
             /\ batch' = IF flush.why = "batch" /\ batch.remaining > 0
                         THEN [remaining |-> batch.remaining - 1, failed |-> failed]
                         ELSE batch
             /\ IF last THEN FinishLifecycle("Hide") ELSE UNCHANGED lifecycleVars
             /\ Turn(heard,
                     IF trashes THEN {n} ELSE IF last /\ ~failed /\ committed THEN window ELSE {},
                     Silence)

FlushResponse(n) ==
    /\ Hears(n, "flush_response")
    /\ LET m == Head(toHost[n]) IN
       \/ /\ m.flush \in flushes[n]
          /\ \E ok \in Outcomes :
                /\ file' = IF ok THEN [file EXCEPT ![n] = m.text] ELSE file
                /\ flushed' = IF ok THEN [flushed EXCEPT ![n] = m.flush.generation] ELSE flushed
                /\ FlushSettled(n, m.flush, ok, {n})
       \/ /\ m.flush \notin flushes[n]
          /\ Turn({n}, {}, Silence)
          /\ UNCHANGED <<lifecycleVars, live, file, flushes, batch, flushed>>
    /\ UNCHANGED <<policyVars, captureVars, holding, commands, writes, taken, opened>>

ExpireFlush(n) ==
    /\ \E flush \in flushes[n] : FlushSettled(n, flush, FALSE, {})
    /\ UNCHANGED <<policyVars, captureVars, file, holding, boundVars>>

-----------------------------------------------------------------------------
(* A write from outside: it freezes the page of an open note, and frees it *)
(* or, when it is a discard, closes it.                                    *)

HoldNote(n) ==
    /\ writes < MaxWrites
    /\ writes' = writes + 1
    /\ n \in window
    /\ holding = {}
    /\ BeginExternalWrite
    /\ holding' = {n}
    /\ Turn({}, {}, [Silence EXCEPT ![n] = <<Message("begin_external_write")>>])
    /\ UNCHANGED <<policyVars, captureVars, live, file, flushes, batch, commands, taken,
                   flushed, opened>>

FreeNote(n) ==
    /\ n \in holding
    /\ holding' = {}
    /\ FinishExternalWrite
    /\ Turn({}, {}, [Silence EXCEPT ![n] = <<Message("abort_external_write")>>])
    /\ UNCHANGED <<policyVars, captureVars, live, file, flushes, batch, boundVars>>

(* discard_note, the frozen text and the file being what its caller read:  *)
(* capture is switched off before the move.                                *)
DiscardNote(n) ==
    /\ n \in holding \cap window
    /\ page[n].frozen
    /\ page[n].text = file[n]
    /\ holding' = {}
    /\ FinishExternalWrite
    /\ DisarmAutopaste({n})
    /\ \E moved \in Outcomes :
          /\ live' = IF moved THEN live \ {n} ELSE live
          /\ Turn({}, IF moved THEN {n} ELSE {},
                  [Silence EXCEPT ![n] = Published({n} \cap TargetSet)[n]
                                         \o <<Message("abort_external_write")>>])
    /\ UNCHANGED <<copies, reads, file, flushes, batch, boundVars>>

-----------------------------------------------------------------------------
ReaderActs(n) ==
    \/ \E on \in BOOLEAN : AskSwitch(n, on)
    \/ SaveAndClose(n)
    \/ TrashNote(n)
    \/ OpenWindow(n)

HostHears(n) == SwitchAsked(n) \/ SaveAndCloseAsked(n) \/ FlushResponse(n) \/ ExpireFlush(n)

WriteFromOutside(n) == HoldNote(n) \/ FreeNote(n) \/ DiscardNote(n)

ClipboardReadEnds == \E r \in reads : FinishClipboardRead(r)

Next ==
    \/ \E n \in Notes : ReaderActs(n) \/ PageHears(n) \/ HostHears(n) \/ WriteFromOutside(n)
    \/ \E kind \in Kinds : Copy(kind)
    \/ ClipboardReadEnds
    \/ SetCaptureDelimiter
    \/ Hide

Spec == Init /\ [][Next]_vars

(* A read of the clipboard ends, one way or another.                       *)
FairSpec == Spec /\ WF_vars(ClipboardReadEnds)

-----------------------------------------------------------------------------
TypeOK ==
    /\ PolicyTypeOK
    /\ LifecycleTypeOK
    /\ copies \in Seq(Copies)
    /\ watch \in BOOLEAN
    /\ reads \subseteq Reads
    /\ window \subseteq Notes
    /\ live \subseteq Notes
    /\ holding \subseteq Notes
    /\ file \in [Notes -> Seq(Items)]
    /\ page \in [Notes -> Pages]
    /\ toPage \in [Notes -> Seq(Messages)]
    /\ toHost \in [Notes -> Seq(Messages)]
    /\ flushes \in [Notes -> SUBSET Flushes]
    /\ batch \in [remaining : Nat, failed : BOOLEAN]
    /\ commands \in Nat
    /\ writes \in Nat
    /\ taken \in [Notes -> SUBSET Items]
    /\ flushed \in [Notes -> Nat]
    /\ opened \in [Notes -> Nat]

(* What is on its way to the page of n, or in it and not yet in its text.  *)
Coming(n) ==
    Elements(page[n].held)
        \cup {toPage[n][i].item : i \in {j \in DOMAIN toPage[n] :
                                              toPage[n][j].type = "auto_paste_captured"}}

(* Nothing is read but what was copied in the very session that reads it:  *)
(* what was on the clipboard before the mode was switched on, or was       *)
(* copied for a note that lost it, is never asked for (autopaste.rs, arm   *)
(* and finish_read).                                                       *)
ReadsOnlyWhatItSaw == \A r \in reads : copies[r.item].session = r.session

(* A capture handed to a page was copied while that note was the target,   *)
(* and in the run of the mode that is on when it is handed over: no read   *)
(* outlives its session (autopaste.rs, accept).                            *)
DeliveredInItsSession ==
    [][\A n \in Notes : \A i \in taken'[n] \ taken[n] :
          IsTarget(n) /\ copies[i].session = armed]_vars

(* Off means off: the handler is connected only while some note captures.  *)
OffObservesNothing == watch => IsArmed

(* Each copy is filed once, in the order of the copies, through any number *)
(* of sessions, hides and reopened windows.                                *)
FiledInOrder ==
    \A n \in Notes : LET text == page[n].text IN
        \A i, j \in DOMAIN text : i < j => text[i] < text[j]

(* A page that says it captures and has heard everything is the target:    *)
(* a note that lost it is told, whoever took it and however.               *)
NoPageClaimsInVain ==
    \A n \in window : toPage[n] = <<>> /\ page[n].active => IsTarget(n)

(* Capture is off before a flush is asked for: once the answer is saved,   *)
(* whatever the sessions up to then handed to the page is on file, and a   *)
(* window that goes with that flush takes none of it away.                 *)
FlushCoversCaptures ==
    \A n \in window : \A i \in Elements(page[n].text) \cup Coming(n) :
        copies[i].session.generation <= flushed[n] => i \in Elements(file[n])

Due(i, n) ==
    /\ i = Len(copies) /\ copies[i].kind = "words" /\ i > opened[n]
    /\ n \in window /\ IsTarget(n) /\ copies[i].session = armed

(* The last thing copied is taken while its session and its window last,   *)
(* whatever was being read when it was copied.                             *)
LastCopyIsTaken ==
    \A i \in Items, n \in Notes : Due(i, n) ~> i \in taken[n] \/ ~Due(i, n)

-----------------------------------------------------------------------------
(* What the proofs of the properties above rest on: whatever is being read *)
(* or waits to be was copied in the session that reads it, and nobody      *)
(* listens for a session that is over.                                     *)
SessionsAccounted ==
    /\ watch => IsArmed
    /\ Len(copies) <= MaxCopies
    /\ \A r \in reads : r.item <= Len(copies) /\ copies[r.item].session = r.session
    /\ queued => /\ IsArmed
                 /\ copies # <<>>
                 /\ copies[Len(copies)].session = armed
=============================================================================
