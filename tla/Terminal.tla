------------------------------- MODULE Terminal -------------------------------
(***************************************************************************)
(* The terminal editor (noteit-tui/src/app.rs, editor.rs): one process     *)
(* that reads the store without asking anybody and writes it through the   *)
(* lease like every other process.  An event is handled to its end before  *)
(* the next, so a handler is one step; other processes write in between.   *)
(* A handler that reads or writes may come out in several ways: it is the  *)
(* set of situations it can leave.                                         *)
(*                                                                         *)
(* Recent notes and pending tasks are one panel, since both list live      *)
(* notes.  A list is as old as its last reload: a row may name any note.   *)
(***************************************************************************)
EXTENDS Naturals, FiniteSets

CONSTANTS Notes,
          Texts,
          Canonical,    \* what the store makes of a text
          Nothing,      \* no note, no draft, no question
          MaxRevision,  \* bound: changes of one note
          Clicks        \* bound: what the reader may click on

ASSUME CanonicalAssumption ==
  /\ Canonical \in [Texts -> Texts]
  /\ \A t \in Texts : Canonical[Canonical[t]] = Canonical[t]
ASSUME NothingAssumption == MaxRevision \in Nat /\ Nothing \notin Texts
ASSUME ClicksAssumption == Clicks \subseteq {"notes", "trash", "search", "row", "task"}

VARIABLES store,    \* the notes, as any process finds them
          app,      \* App
          outside,  \* the session of the external editor
          left      \* texts the last event left in files, which nothing removes

vars == <<store, app, outside, left>>

Files == [place : {"absent", "live", "trash"}, text : Texts, rev : 0..MaxRevision]

\* LoadedDocument: what was read, with its revision.
Loaded == [id : Notes, text : Texts, rev : 0..MaxRevision, trash : BOOLEAN]
Live == {d \in Loaded : ~d.trash}

\* EditorSession: what the external editor was given, and its file.
Session == [doc : Live, text : Texts]

ASSUME NothingIsNoRecord == Nothing \notin Loaded \union Session

App == [up : BOOLEAN, panel : {"notes", "trash"},
        focus : {"list", "search", "reader", "editor"},
        current : Loaded \union {Nothing},
        draft : Texts \union {Nothing},
        on : Live \union {Nothing},        \* what the draft was opened on
        prompt : {"none", "pending", "conflict"},
        asked : Live \union {Nothing},     \* discard_confirmation
        click : Clicks \union {Nothing},   \* pending_mouse_action
        leaving : BOOLEAN,                 \* exit_requested
        quit : BOOLEAN,
        told : BOOLEAN]                    \* that the draft could not be kept

Closed == [up |-> FALSE, panel |-> "notes", focus |-> "list", current |-> Nothing,
           draft |-> Nothing, on |-> Nothing, prompt |-> "none", asked |-> Nothing,
           click |-> Nothing, leaving |-> FALSE, quit |-> FALSE,
           told |-> FALSE]

Texting == [note : Notes, text : Texts]

\* Every field has its type, and only a note in notes/ is edited, discarded or
\* given to the external editor, whatever was selected meanwhile.
TypeOK ==
  /\ store \in [Notes -> Files]
  /\ app \in App
  /\ outside \in Session \union {Nothing}
  /\ left \in SUBSET Texting

Init ==
  /\ store \in [Notes -> [place : {"absent", "live"}, text : {Canonical[t] : t \in Texts},
                          rev : {0}]]
  /\ app = Closed
  /\ outside = Nothing
  /\ left = {}

-----------------------------------------------------------------------------
(* Reading.  A situation is [app, store, left].                            *)

Now == [app |-> app, store |-> store, left |-> {}]
Becomes(situations) ==
  \E s \in situations : app' = s.app /\ store' = s.store /\ left' = s.left

\* Handlers one after the other.
Then(situations, Handler(_)) == UNION {Handler(s) : s \in situations}

\* read_note, read_trash_note: nothing when the note is not there, or when
\* the read fails.
Read(s, n, inTrash) ==
  {Nothing} \union
  {d \in {[id |-> n, text |-> s.store[n].text, rev |-> s.store[n].rev, trash |-> inTrash]} :
     s.store[n].place = IF inTrash THEN "trash" ELSE "live"}

Shows(a, n, inTrash) == a.current # Nothing /\ a.current.id = n /\ a.current.trash = inTrash

\* What is on screen already is not read again, however old.
LoadNote(s, n) ==
  IF Shows(s.app, n, FALSE) THEN {s}
  ELSE {[s EXCEPT !.app.current = d] : d \in Read(s, n, FALSE)}

LoadAnyNote(s) == UNION {LoadNote(s, n) : n \in Notes}

ReloadNote(s, n) == LoadNote([s EXCEPT !.app.current = Nothing], n)

\* The selected row of the trash is read, unless it is on screen or force.
LoadSelectedTrash(s, force) ==
  {[s EXCEPT !.app.current = Nothing]} \union
  UNION {IF ~force /\ Shows(s.app, n, TRUE) THEN {s}
         ELSE {[s EXCEPT !.app.current = d] : d \in Read(s, n, TRUE)} : n \in Notes}

OnPanelSwitched(s) ==
  IF s.app.panel = "trash" THEN LoadSelectedTrash(s, FALSE) ELSE {s} \union LoadAnyNote(s)

\* A mutant: the preview is refreshed whatever has the focus.
Mutant_PreviewUnderTheDraft(s) ==
  IF s.app.panel = "trash" THEN LoadSelectedTrash(s, FALSE) ELSE {s}

\* What handle_key does last, whatever the key was.
Preview(s) ==
  IF s.app.panel = "trash" /\ s.app.focus \notin {"search", "editor"}
  THEN LoadSelectedTrash(s, FALSE) ELSE {s}

Keyed(situations) == Becomes(Then(situations, Preview))

-----------------------------------------------------------------------------
(* Writing.                                                                *)

\* A mutant: the write asks for no revision.
Mutant_AtItsRevision(s, doc) == TRUE

AtItsRevision(s, doc) == s.store[doc.id].rev = doc.rev

\* perform_at, for an operation on doc as it was read that leaves file: the
\* situations it can leave and its answer.  A change may be made and the
\* answer lost.
Perform(s, doc, file) ==
  LET there == s.store[doc.id].place = IF doc.trash THEN "trash" ELSE "live"
      done == [s EXCEPT !.store[doc.id] = file]
  IN {[to |-> s, answer |-> "refused"]} \union
     CASE there /\ AtItsRevision(s, doc) /\ file \in Files ->
            {[to |-> done, answer |-> "ok"], [to |-> done, answer |-> "refused"]}
       [] there /\ ~AtItsRevision(s, doc) -> {[to |-> s, answer |-> "conflict"]}
       [] OTHER -> {}

\* MutateNote with a new body.
Rewritten(s, doc, text) ==
  [place |-> "live", text |-> Canonical[text], rev |-> s.store[doc.id].rev + 1]

Moved(s, doc, place) == [s.store[doc.id] EXCEPT !.place = place]

\* mutation_error: after a conflict the note is read again, without another
\* try; after any other refusal nothing is.
MutationError(r, doc) ==
  CASE r.answer = "refused" -> {r.to}
    [] r.answer = "conflict" ->
         IF doc.trash THEN LoadSelectedTrash(r.to, TRUE) ELSE ReloadNote(r.to, doc.id)

\* A write that is confirmed is followed by Ok.
Mutate(s, doc, file, Ok(_)) ==
  UNION {IF r.answer = "ok" THEN Ok(r.to) ELSE MutationError(r, doc) : r \in Perform(s, doc, file)}

\* pending_text is Some.
Pending(a) ==
  /\ a.current # Nothing
  /\ a.draft # Nothing
  /\ Canonical[a.draft] # Canonical[a.current.text]

Editable(a) == a.current # Nothing /\ ~a.current.trash

-----------------------------------------------------------------------------
(* The draft.                                                              *)

StartEditing(s) ==
  IF Editable(s.app)
  THEN {[s EXCEPT !.app.draft = s.app.current.text, !.app.on = s.app.current,
                  !.app.prompt = "none", !.app.focus = "editor"]}
  ELSE {[s EXCEPT !.app.focus = "reader"]}

\* reseat_draft: the draft continues from the note as it is now.
Reseat(s) ==
  {[s EXCEPT !.app.draft = IF s.app.current = Nothing THEN Nothing ELSE s.app.current.text,
             !.app.on = s.app.current]}

CloseEditor(s) ==
  [s EXCEPT !.app.draft = Nothing, !.app.on = Nothing, !.app.prompt = "none",
            !.app.focus = "reader"]

LeaveAfterAnswer(s) ==
  [CloseEditor(s) EXCEPT !.app.quit = s.app.quit \/ s.app.leaving, !.app.leaving = FALSE]

SaveDraft(s) ==
  IF ~Editable(s.app) \/ ~Pending(s.app) THEN {s}
  ELSE LET doc == s.app.current
       IN UNION {CASE r.answer = "ok" -> Then(ReloadNote(r.to, doc.id), Reseat)
                   [] r.answer = "conflict" -> {[r.to EXCEPT !.app.prompt = "conflict"]}
                   [] r.answer = "refused" -> {r.to}
                 : r \in Perform(s, doc, Rewritten(s, doc, s.app.draft))}

RereadIntoEditor(s) ==
  IF s.app.current = Nothing THEN {s} ELSE Then(ReloadNote(s, s.app.current.id), Reseat)

Preserved(s) ==
  [s EXCEPT !.left = @ \union {[note |-> s.app.current.id, text |-> s.app.draft]}]

\* The draft is reread only once it is in the recovery directory.
PreserveAndReread(s) ==
  IF Pending(s.app)
  THEN RereadIntoEditor(Preserved(s)) \union {[s EXCEPT !.app.prompt = "conflict"]}
  ELSE {s}

-----------------------------------------------------------------------------
(* Operations on the note that is shown.                                   *)

\* toggle_task: the body with one task completed or reopened.
ToggleTask(s) ==
  IF ~Editable(s.app) THEN {s}
  ELSE LET doc == s.app.current
           Ok(t) == ReloadNote(t, doc.id)
       IN {s} \union UNION {Mutate(s, doc, Rewritten(s, doc, text), Ok) : text \in Texts}

\* Focus goes to the list, and the first panel shows its selected note.
Discarded(s) ==
  OnPanelSwitched([s EXCEPT !.app.current = Nothing, !.app.panel = "notes",
                            !.app.focus = "list"])

\* The question is about the note as it was when it was asked.  A draft that was
\* opened meanwhile stays as it is, whatever comes on screen.
Discard(s, doc) == Mutate(s, doc, Moved(s, doc, "trash"), Discarded)

RestoreSelected(s) ==
  IF s.app.current = Nothing \/ Editable(s.app) THEN {s}
  ELSE LET Ok(t) == LoadSelectedTrash(t, TRUE)
       IN Mutate(s, s.app.current, Moved(s, s.app.current, "live"), Ok)

Made(s, n, text) ==
  [s EXCEPT !.store[n] = [place |-> "live", text |-> Canonical[text], rev |-> 0]]

\* A new, empty note, opened for editing.  It may be made and the answer lost.
CreateNote(s) ==
  {s} \union
  UNION {{Made(s, n, text)} \union Then(LoadNote(Made(s, n, text), n), StartEditing)
         : n \in {m \in Notes : s.store[m].place = "absent"}, text \in Texts}

PerformClick(s, click) ==
  LET listed == [s EXCEPT !.app.focus = "list"] IN
  CASE click \in {"notes", "trash"} -> OnPanelSwitched([listed EXCEPT !.app.panel = click])
    [] click = "search" -> {[s EXCEPT !.app.focus = "search"]}
    [] click = "row" /\ s.app.panel = "notes" ->
         {listed} \union Then(LoadAnyNote(listed), StartEditing)
    [] click = "row" /\ s.app.panel = "trash" ->
         {listed} \union {[t EXCEPT !.app.focus = "reader"] : t \in LoadSelectedTrash(listed, FALSE)}
    [] click = "task" -> Then({listed} \union LoadAnyNote(listed), ToggleTask)

\* The click the open question was holding, if there is one.
HeldClick(s) ==
  IF s.app.click = Nothing THEN {s}
  ELSE PerformClick([s EXCEPT !.app.click = Nothing], s.app.click)

-----------------------------------------------------------------------------
(* The keyboard: handle_key.                                               *)

Running == app.up /\ outside = Nothing /\ ~app.quit

\* Ctrl+C is answered before any question that is open.
CtrlC ==
  /\ Running
  /\ app' = IF app.focus = "editor" /\ Pending(app)
            THEN [app EXCEPT !.leaving = TRUE, !.prompt = "pending"]
            ELSE [app EXCEPT !.quit = TRUE]
  /\ left' = {}
  /\ UNCHANGED <<store, outside>>

AnswerDiscard ==
  /\ Running
  /\ app.asked # Nothing
  /\ LET s == [Now EXCEPT !.app.asked = Nothing] IN
       Becomes({s} \union Discard(s, app.asked))
  /\ UNCHANGED outside

Key(focus) == Running /\ app.asked = Nothing /\ app.focus = focus
Typing == Key("editor") /\ app.prompt = "none"
Asking(prompt) == Key("editor") /\ app.prompt = prompt

\* Tab, 1, 2, 3 in the list and in the reader.
SwitchPanel ==
  /\ Key("list") \/ Key("reader")
  /\ \E panel \in {"notes", "trash"} :
       Keyed(OnPanelSwitched([Now EXCEPT !.app.panel = panel, !.app.focus = "list"]))
  /\ UNCHANGED outside

\* The arrows; in the reader they scroll.
Select ==
  /\ Key("list") \/ Key("reader")
  /\ Keyed(IF app.focus = "list" /\ app.panel = "notes" THEN LoadAnyNote(Now) ELSE {Now})
  /\ UNCHANGED outside

OpenRow ==
  /\ Key("list")
  /\ Keyed(IF app.panel = "notes" THEN Then(LoadAnyNote(Now), StartEditing)
           ELSE {[Now EXCEPT !.app.focus = "reader"]})
  /\ UNCHANGED outside

Create ==
  /\ Key("list")
  /\ app.panel = "notes"
  /\ Keyed(CreateNote(Now))
  /\ UNCHANGED outside

Toggle ==
  /\ app.panel = "notes"
  /\ \/ Key("list") /\ Keyed(Then({Now} \union LoadAnyNote(Now), ToggleTask))
     \/ Key("reader") /\ Keyed(ToggleTask(Now))
  /\ UNCHANGED outside

Restore ==
  /\ Key("list") \/ Key("reader")
  /\ app.panel = "trash"
  /\ Keyed(RestoreSelected(Now))
  /\ UNCHANGED outside

AskDiscard ==
  /\ Key("reader")
  /\ app.panel = "notes"
  /\ Editable(app)
  /\ app' = [app EXCEPT !.asked = app.current]
  /\ left' = {}
  /\ UNCHANGED <<store, outside>>

EditShown ==
  /\ Key("reader")
  /\ app.panel = "notes"
  /\ Keyed(StartEditing(Now))
  /\ UNCHANGED outside

Search ==
  /\ Key("list") \/ Key("reader")
  /\ Keyed({[Now EXCEPT !.app.focus = "search"]})
  /\ UNCHANGED outside

\* Enter opens the selected result, whichever panel is behind; Esc gives up.
SearchEnds ==
  /\ Key("search")
  /\ Keyed({[Now EXCEPT !.app.focus = "list"]} \union Then(LoadAnyNote(Now), StartEditing))
  /\ UNCHANGED outside

Back ==
  /\ Key("reader")
  /\ Keyed({[Now EXCEPT !.app.focus = "list"]})
  /\ UNCHANGED outside

Quit ==
  /\ Key("list") \/ Key("reader")
  /\ Keyed({[Now EXCEPT !.app.quit = TRUE]})
  /\ UNCHANGED outside

\* Typing, deleting, undo, redo and the styles make another text of the draft.
\* The style menu, once open, takes the mouse over any question and wherever
\* the focus has gone, and in the editor the keyboard too.
Type ==
  /\ Running
  /\ app.draft # Nothing
  /\ \E text \in Texts : app' = [app EXCEPT !.draft = text]
  /\ left' = {}
  /\ UNCHANGED <<store, outside>>

Save ==
  /\ Typing
  /\ Becomes(SaveDraft(Now))
  /\ UNCHANGED outside

Escape ==
  /\ Typing
  /\ Keyed({IF Pending(app) THEN [Now EXCEPT !.app.prompt = "pending"] ELSE CloseEditor(Now)})
  /\ UNCHANGED outside

-----------------------------------------------------------------------------
(* The questions of the editor: answer_prompt.                             *)

\* A question is taken down before its answer is carried out.
Taken == [Now EXCEPT !.app.prompt = "none"]

AnswerSave ==
  /\ Asking("pending")
  /\ LET Leave(s) == IF s.app.prompt = "none" THEN HeldClick(LeaveAfterAnswer(s))
                     ELSE {[s EXCEPT !.app.leaving = FALSE]}
     IN Keyed(Then(SaveDraft(Taken), Leave))
  /\ UNCHANGED outside

AnswerDrop ==
  /\ Asking("pending")
  /\ Keyed(HeldClick(LeaveAfterAnswer(Taken)))
  /\ UNCHANGED outside

AnswerPreserve ==
  /\ Asking("conflict")
  /\ Keyed(PreserveAndReread(Taken))
  /\ UNCHANGED outside

AnswerReread ==
  /\ Asking("conflict")
  /\ Keyed(RereadIntoEditor(Taken))
  /\ UNCHANGED outside

AnswerResume ==
  /\ Asking("pending") \/ Asking("conflict")
  /\ Keyed({[Taken EXCEPT !.app.leaving = FALSE, !.app.click = Nothing]})
  /\ UNCHANGED outside

-----------------------------------------------------------------------------
(* The mouse: handle_mouse.  No question stands in its way but the one     *)
(* about text that is not saved.                                           *)

\* A mutant: the click does not ask.
Mutant_RequestClick(s, click) ==
  PerformClick(IF s.app.focus = "editor" THEN CloseEditor(s) ELSE s, click)

RequestClick(s, click) ==
  IF s.app.focus = "editor" /\ Pending(s.app)
  THEN {[s EXCEPT !.app.click = click, !.app.prompt = "pending"]}
  ELSE PerformClick(IF s.app.focus = "editor" THEN CloseEditor(s) ELSE s, click)

ClickOn(click) ==
  /\ Running
  /\ click = "task" => app.panel = "notes"
  /\ Becomes(RequestClick(Now, click))
  /\ UNCHANGED outside

Click == \E click \in Clicks : ClickOn(click)

\* Three rows up or down, as the arrows would; the preview does not follow.
Wheeled(s) ==
  LET listed == [s EXCEPT !.app.focus = "list"]
      Row(t) == {t} \union LoadAnyNote(t)
  IN IF s.app.panel = "notes" THEN Then(Then(Row(listed), Row), Row) ELSE {listed}

\* The wheel over the list.  The click a question was holding stays held.
WheelList ==
  /\ Running
  /\ Becomes(IF app.focus = "editor" /\ Pending(app)
             THEN {[Now EXCEPT !.app.prompt = "pending"]}
             ELSE Wheeled(IF app.focus = "editor" THEN CloseEditor(Now) ELSE Now))
  /\ UNCHANGED outside

\* The wheel over the reader; over the editor it only moves the caret.
WheelReader ==
  /\ Running
  /\ app.focus # "editor"
  /\ Becomes({[Now EXCEPT !.app.focus = "reader"]})
  /\ UNCHANGED outside

-----------------------------------------------------------------------------
(* The external editor: open_editor, which holds the process until it ends.*)

\* EditorSession::prepare.
OpenOutside ==
  /\ Key("reader")
  /\ app.panel = "notes"
  /\ Editable(app)
  /\ outside' = [doc |-> app.current, text |-> app.current.text]
  /\ left' = {}
  /\ UNCHANGED <<store, app>>

TypeOutside ==
  /\ outside # Nothing
  /\ \E text \in Texts : outside' = [outside EXCEPT !.text = text]
  /\ left' = {}
  /\ UNCHANGED <<store, app>>

\* The temporary file is left where it is.
LeftBehind(s) ==
  [s EXCEPT !.left = @ \union {[note |-> outside.doc.id, text |-> outside.text]}]

\* finish, after an editor that ended well: whether the conflicting text goes
\* to the recovery directory or stays where it is, it can be found.
Finish(s) ==
  IF Canonical[outside.text] = Canonical[outside.doc.text] THEN {s}
  ELSE UNION {CASE r.answer = "ok" -> ReloadNote(r.to, outside.doc.id)
                [] r.answer = "conflict" -> ReloadNote(LeftBehind(r.to), outside.doc.id)
                [] r.answer = "refused" -> {LeftBehind(r.to)}
              : r \in Perform(s, outside.doc, Rewritten(s, outside.doc, outside.text))}

CloseOutside ==
  /\ outside # Nothing
  /\ Keyed(Finish(Now))
  /\ outside' = Nothing

\* It failed, was interrupted or left something that is not text.  A terminal
\* that does not come back, or a signal, ends the program.
FailOutside ==
  /\ outside # Nothing
  /\ \E quit \in BOOLEAN : Becomes({[LeftBehind(Now) EXCEPT !.app.quit = quit]})
  /\ outside' = Nothing

-----------------------------------------------------------------------------
(* The process, and the others.                                            *)

\* App::new_at.
Start ==
  /\ ~app.up
  /\ Becomes(LoadAnyNote([Now EXCEPT !.app = [Closed EXCEPT !.up = TRUE]]) \union
             {[Now EXCEPT !.app = [Closed EXCEPT !.up = TRUE]]})
  /\ UNCHANGED outside

\* run, after its loop: a draft that never reached the store.
Settled(s) == IF Pending(s.app) THEN Preserved(s) ELSE s

\* The loop ends because the reader asked, on a signal, or because a frame
\* could not be drawn.  A recovery file that cannot be written is announced.
Exit ==
  /\ app.up
  /\ outside = Nothing
  /\ Becomes({[Settled(Now) EXCEPT !.app = Closed]} \union
             (IF Pending(app) THEN {[Now EXCEPT !.app = [Closed EXCEPT !.told = TRUE]]} ELSE {}))
  /\ UNCHANGED outside

AnotherProcess ==
  /\ \E n \in Notes :
       \/ /\ store[n].place = "live"
          /\ store[n].rev < MaxRevision
          /\ \E t \in Texts : store' = [store EXCEPT ![n].text = Canonical[t], ![n].rev = @ + 1]
       \/ store[n].place = "live" /\ store' = [store EXCEPT ![n].place = "trash"]
       \/ store[n].place = "trash" /\ store' = [store EXCEPT ![n].place = "live"]
  /\ left' = {}
  /\ UNCHANGED <<app, outside>>

Keyboard ==
  \/ CtrlC \/ AnswerDiscard \/ SwitchPanel \/ Select \/ OpenRow \/ Create
  \/ Toggle \/ Restore \/ AskDiscard \/ EditShown \/ Search \/ SearchEnds
  \/ Back \/ Quit \/ Type \/ Save \/ Escape
  \/ AnswerSave \/ AnswerDrop \/ AnswerPreserve \/ AnswerReread \/ AnswerResume

Next ==
  \/ Keyboard
  \/ Click \/ WheelList \/ WheelReader
  \/ OpenOutside \/ TypeOutside \/ CloseOutside \/ FailOutside
  \/ Start \/ Exit \/ AnotherProcess

Spec == Init /\ [][Next]_vars

-----------------------------------------------------------------------------
(* Properties.                                                             *)

\* A draft and the note on screen belong together while it is that note, as it
\* was when the draft was opened, and the editor shows it: save_draft writes the
\* one with the identity and the revision of the other.
Together(a) == a.draft # Nothing => a.focus = "editor" /\ a.current = a.on

\* No preview, panel, search, click, wheel or answer puts another note, or a
\* fresher reading of the same one, under a draft, and none leaves it behind in
\* the list: only a discard that is confirmed over an editor opened since it was
\* asked does, and then nothing holds that the comments say of drafts.
DraftOnItsNote ==
  [][Together(app) => Together(app') \/ (AnswerDiscard /\ app.focus = "editor")]_vars

\* Text that is not in the note it was written for is still in the draft, is in
\* that note, can be found in a file, was changed by the reader, or was given up
\* by an answer: `d`, `r` and an `s` whose save is refused, which is then the
\* same step as `d`, short of an exit that says it could not keep it.  A draft
\* that a discard has parted from its note goes without a word once it is left
\* behind or says nothing new to the note on screen; until then it goes where
\* that note goes.  What the external editor was left with is not lost in any
\* way.
Unsaved == app.draft # Nothing /\ Canonical[app.draft] # Canonical[app.on.text]
Found(n) == store'[n].text = Canonical[app.draft] \/ [note |-> n, text |-> app.draft] \in left'
DraftKept ==
  Unsaved =>
    \/ app'.draft = app.draft /\ app'.on = app.on
    \/ Found(app.on.id)
    \/ Type \/ AnswerDrop \/ AnswerReread
    \/ app.click = "task" /\ AnswerSave   \* which it then completes
    \/ app'.told
    \/ ~Together(app) /\ (app.focus # "editor" \/ ~Pending(app) \/ Found(app.current.id))
OutsideKept ==
  outside # Nothing /\ outside' = Nothing =>
    \/ Canonical[outside.text] = Canonical[outside.doc.text]
    \/ store'[outside.doc.id].text = Canonical[outside.text]
    \/ [note |-> outside.doc.id, text |-> outside.text] \in left'
TextKept == [][DraftKept /\ OutsideKept]_vars

\* A task that is completed from the list, by its key, by a click or by a click
\* that a question held, is read again first.
ReadsFirst ==
  \/ app.focus = "list" /\ Toggle
  \/ app.click = "task" /\ (AnswerSave \/ AnswerDrop)
  \/ ClickOn("task")

\* Whatever else the terminal editor replaces, moves to the trash or brings
\* back is what its reader was shown for it: a draft replaces what it was opened
\* on, a discard moves what it was asked about, the external editor replaces
\* what it was given, and a task of the reader or a note of the trash is the one
\* on screen.  A draft that a discard has parted from its note replaces the note
\* that was read since, which no draft was opened on.
WasThere(n) == [id |-> n, text |-> store[n].text, rev |-> store[n].rev,
                trash |-> store[n].place = "trash"]
ShownFor(n) ==
  \/ /\ WasThere(n) = app.on \/ (~Together(app) /\ WasThere(n) = app.current)
     /\ Save \/ AnswerSave
  \/ WasThere(n) = app.asked /\ AnswerDiscard
  \/ WasThere(n) = app.current /\ (Toggle \/ Restore)
  \/ CloseOutside /\ WasThere(n) = outside.doc
NothingUnseen ==
  [][\A n \in Notes :
       store[n].place # "absent" /\ store'[n] # store[n] =>
         AnotherProcess \/ ShownFor(n) \/ ReadsFirst]_vars
=============================================================================
