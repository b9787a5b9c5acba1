# Note-it: verification project

TLA+ models of Note-it, the TLC runs that check them on small instances, and
TLAPS proofs of what matters most for every instance. Every definition is
translated from the source; `PROJECT.json` ("map") names the lines behind each
one. Paths below are relative to the repository's root; `core/` abbreviates
`noteit-core/src/`.

## 1. The system

Note-it keeps notes as Markdown files in a directory. A GTK desktop application
shows each open note in a WebKit page; a command line, an MCP server and a
terminal editor read and write the same directory. One process at a time writes:
whoever holds the *writer lease* (`core/coordination.rs`). The desktop holds it
while it runs and serves the others over a socket, because it alone knows the
text its editors hold and have not saved yet.

```
 reader ── page (ui/src) ══ messages ══ NoteWindow ┐
                                                   ├─ AppContext ── LifecycleCoordinator
 CLI/MCP/TUI ── control socket ── write authority ─┘        │
        └────────── writer lease ── StorageManager (notes/, trash/, backups/)
```

### Components

| component | state it keeps | operations | hard behaviour | what makes it correct | modelled |
|---|---|---|---|---|---|
| Page and external-write barrier (`ui/src/main.ts`, `editor/editor.ts`, `bridge/externalWrite.ts`) | text, generation, debounce, frozen request, queue of held edits | type, autosave, close, flush, freeze, adopt, abort, hold an edit | a freeze in the middle of a debounce, adoption that fails, edits that arrive while frozen | nothing the reader made is lost; an editable page is current | `NotePage` |
| Note window (`src/note_window.rs`) | document in memory, external generation, pending write / ack, pending flushes | save, appearance, close, flush answer, snapshot, acknowledgement, three timeouts | answers that are late, stale or never come; a write that fails | memory describes the file; an old text never overwrites a newer one | `NoteWindow`, `DesktopWrites` |
| Lifecycle coordinator (`src/app.rs`) | operation in progress, external writes in flight | begin, finish, ask | claims that leak or overlap | exclusion; every claim given back | `Lifecycle` |
| Application (`src/app.rs`) | windows, flush batch | open, close, trash, hide, quit, create, restore, summon | several windows flushed at once, one of them failing | no window closes over an answer that is not saved | `NoteWindow`, `OpenNote`, `Desktop` |
| Write authority (`src/write_authority.rs`) | request being served, remembered answers, socket | mutate open / closed note, discard | two awaits per request, with everything else running in between | all or nothing; a refusal means nothing changed, ever | `DesktopWrites`, `StoreWriters` |
| Writer lease and control protocol (`core/coordination.rs`, `control.rs`, `authority.rs`) | lock file, socket, request ids | acquire, retry, ask, answer, time out | lost and late answers, a desktop that dies or starts in between | a request is performed at most once; an answer is true | `StoreWriters` |
| Note store (`core/storage.rs`, `atomic_file.rs`, `trash.rs`, `write.rs`) | files | create, save, trash, restore | crash points between rename, link and unlink | a note is whole, in one place, and never overwritten by another | `StoreFiles`, `Notebook` |
| Backups (`core/backup.rs`) | snapshots, scratch directory | create, retain, prune, schedule | clock moved back, another process's scratch | a backup that was answered as made is there, and whole | `StoreFiles` |
| Clipboard capture (`core/autopaste.rs`, `src/app.rs`) | target, generation, read in flight, queued change | arm, disarm, change, finish, deliver | a read that finishes after its target went | what was copied goes to the note it was armed for | `AutoPaste`, `Capture` |
| Window and layer state (`core/state.rs`, `src/app.rs`) | state file, dirty flag, debounce | change, write later, write now | a state file that cannot be read, several saves in one handler, a summon that lifts the windows for a while | the file says what the application knows; the windows share one layer | `Desktop` |
| Settings (`core/settings.rs`) | settings file | read, write | same as above | same as above | not modelled |
| Timer (`ui/src/timer/engine.ts`, `core/timer.rs`) | run, deadline, cycle | start, pause, tick, reset, skip, restore | suspension, deadlines passed while closed, a record that is refused | paused time is not spent; an alarm is neither early nor late | `NoteTimer` |
| Study (`core/study.rs`, `ui/src/flashcards`) | cards, boxes | grade, review | answer shown against a commit that failed | the ladder moves by its rule | not modelled |
| Semantic index (`core/semantic.rs`, `noteit-mcp`) | vectors by revision; one file for every process | build, search, drop, save | a note edited, trashed or brought back while a question runs; a listing that leaves one out; a cache that could not be written, or is written over | a vector speaks only for the text it was made of, and is paid for once | `Retrieval` |
| Remote embedding worker (`noteit-embedding-remote`, `noteit-embed`) | worker process, socket file | ensure, spawn, drop | several processes sharing one socket path, each removing what is there | nobody's worker or socket is left behind | `EmbedWorker` |
| Terminal editor (`noteit-tui`) | what is shown, draft, question asked, click set aside | edit, save, search, discard, restore, click, external editor | other processes write between any two keys; a question answered in another place than it was asked | what parts a draft from its note is known and said; what is overwritten was shown for it | `Terminal` |
| Agent bridge (`noteit-agent-bridge`) | child process, reader thread | start, cancel, read | the reader waits for the child under the lock | cancelling stops the child | not modelled |
| Tasks, metadata, revisions, search, local embedding, CLI, MCP server, panels, packaging | none between calls | text and ranking functions, presentation | parsing | the repository's own corpora test it | not modelled |

`PROJECT.json` lists every component with its status, and under "hazards" each
place where this code is hard to test, at its line.

## 2. Modules

| module | contents |
|---|---|
| `Lifecycle` | `LifecycleCoordinator`: the claims of hide, quit and external writes |
| `NotePage` | the page: editor, debounce, barrier, and the two FIFO channels between page and host |
| `NoteWindow` | the host's message handlers and the application operations that open and close windows |
| `DesktopWrites` | the write authority, from a request taken off the queue to its answer |
| `OpenNote` | the composition: `Next`, fairness, every property |
| `MCOpenNote` | the module TLC runs |
| `OpenNoteProofs` | TLAPS proofs |
| `AutoPaste` | the policy of clipboard capture: arm, disarm, observe, finish_read, accept |
| `Capture` | the application around it: the clipboard handler and its reads, the page a capture is handed to, and every operation that switches the mode or takes a window down |
| `MCCapture` | the module TLC runs for capture |
| `CaptureProofs` | TLAPS proofs |
| `WriteRequests` | abstract specification: what a program that asks for a change may believe of its answer |
| `StoreWriters` | the processes that write one store: clients (`perform_at`), desktops (`claim`, `serve`, quit), the lease, the socket path and one connection per client |
| `MCStoreWriters` | the module TLC runs for it |
| `StoreWritersProofs` | TLAPS proofs, with the refinement of `WriteRequests` |
| `Notebook` | abstract specification: a note is absent, live or in the trash, and a power loss goes back to an instant since the last sync |
| `StoreFiles` | the directories of a store and the calls that change them: notes, trash, pictures, backups, with failures, kills, power losses and a clock that is set back |
| `Desktop` | the windows, the layer they sit on and the state file: every command, close, trash, restore, search result, and the debounced write |
| `NoteTimer` | the timer and Pomodoro of one note, its way to the state file and back |
| `Terminal` | the terminal editor: keyboard, mouse, questions, external editor, with another process writing the same notes |
| `EmbedWorker` | the processes that need an embedding worker, the worker processes, and the one socket path |
| `Retrieval` | a question with the semantic channel on: the index, its cache, the two passes |
| `MCStoreFiles`, `MCDesktop`, `MCNoteTimer`, `MCTerminal`, `MCRetrieval` | the modules TLC runs for them |
| `StoreFilesProofs`, `DesktopProofs`, `NoteTimerProofs`, `TerminalProofs`, `RetrievalProofs` | TLAPS proofs, with the refinement of `Notebook`; `RetrievalProofs` covers `EmbedWorker` too |

There are several compositions. In `OpenNote`, each component EXTENDS the ones below
it, so one state is shared, as it is in the process; `OpenNote` adds no state of
its own. `Capture` composes `AutoPaste` with `Lifecycle` and with a coarser view
of windows and pages, in which the text of a note is the captures filed in it.
`StoreWriters` looks at the same write authority from outside the process: all
that `OpenNote` says of one request is here the pair `CommitRequest` /
`RejectRequest`, and a desktop may die between any two steps. `Desktop` and
`NoteTimer` extend `Lifecycle`: to both, an external write is a claim that comes and
goes. `StoreFiles` is what the holder of the lease does with the disk, one level
below `StoreWriters`, where a save is one step; `Terminal` is one of the clients of
`StoreWriters`, seen from its keyboard. `Retrieval` extends `EmbedWorker`: a request is
made of the worker's steps, and how it ends decides what becomes of the question.

### State and code

* A document is what can be told apart: `body`, a set of *marks* (one per edit
  of the reader or of a client), and `look`, a count of appearance changes.
  Equality of documents stands for equality of files and of revisions. Two
  writers' edits commute, so a body that is a set loses only the order of lines.
* `page[n]` is the page's JavaScript state. `phase` is `"absent"` with no page,
  `"loading"` before `load_note`, then the barrier's `SyncState`.
  `queue` holds deferred edits, and a deferred close at its end if any.
* `toPage[n]`, `toHost[n]` are the `evaluate_javascript` and script-message
  channels: FIFO per page, as WebKit delivers them.
* `doc`, `hostGen`, `pendingWrite`, `pendingAck`, `flushes` are the fields of
  `NoteWindow`; `batch` is the `FlushBatch` shared by the callbacks of a hide or
  a quit; `active` and `externalWrites` are the coordinator.
* `task` is the authority's coroutine: it serves one request at a time, and its
  stages are the two awaits of `mutate_open_note` (snapshot, acknowledgement)
  with a "resumed" and a "synced" stage between the wake-up and the turn in which
  the coroutine runs: other main-loop turns come in between, as in GLib.
* `reported`, `written`, `refused`, `typed` are history variables; no action
  reads them in a guard.

In `Capture`:

* `armed`, `nextGeneration`, `reading`, `queued` are the fields of `AutoPaste`.
* A copy is its number. `copies[i]` says what it was (words of another
  application, words of Note-it's own, blanks, an image) and in which session it
  was made. `reads` are the asynchronous reads in flight, each with the session it
  was started under and the number of the copy that was on the clipboard then.
* `page[n]` is the page: `active` is its `autoPasteActive`, `held` the captures
  waiting behind an external write, `text` the captures filed, `file[n]` those on
  disk.
* `taken`, `flushed` and `opened` are history variables.

In `StoreWriters`:

* The text of the note is the sequence of what was put in it: the client whose
  request was performed, or an edit of the reader. It stands for the file and for
  its revision, so two equal texts are one revision.
* `lease` is the process that holds the `flock`; `socket` the desktop that bound
  the file at the socket path, alive or not; a connection succeeds while that
  process listens (`Listening`).
* `pc[c]` is where a client is in `perform_at`; `base[c]` the text it read under
  the lease; `answer[c]` what the call returned: `"unavailable"` is
  `AuthorityUnavailable`, `"unknown"` is `Indeterminate`, `"refused"` every other
  error.
* `wire[c]` is its connection as `serve_connection` leaves it, `job[c]` its
  envelope in the main loop's queue, `reply[c]` the answer that was sent. The two
  are separate because the worker's deadline closes the connection and leaves the
  envelope in the queue.
* `desk[d]` is how far a desktop is between start and exit, `live[d]` the text of
  its window, which its reader's edits reach before the file.

In `StoreFiles`:

* `disk` is what every process sees, `survivors` what the machine may come back
  with: every state of the directories since the last directory sync that
  succeeded. `Change` adds to it, `Sync` empties it.
* `op` is the operation in progress; `op.step` names the next call. `scratch` is
  `backups/.tmp.*`, `doomed` what `apply_retention` has still to remove, `schedule`
  the `BackupSchedule`. `clock` may be set to any time between two operations.
* A text is a model value; `Illustrated` texts show a picture of their note.

In `Desktop`:

* `ctx` is `AppContext`: the state as it would be saved, the windows with their own
  copy of an entry, `summon_restore`, `can_persist_state`, whether the debouncer
  holds a write. `disk` is the notes, the trash and the state file; `behind` is a
  history variable: a save has failed and none has succeeded since.
* A *situation* is a pair of both. A handler that saves twice, each save failing or
  not, is the set of situations it can leave, composed as the code calls its parts
  (`Persisted`, `MarkedOpen`, `Instantiated`, `Restored`).

In `NoteTimer`:

* `page.timer` is `TimerEngine`, with `due` its deadline when running and what
  remains when paused; `wire` the geometry messages posted and not taken; `host`
  the window's copy of the record and the application's entry; `file` the record
  saved. `paid` (how long the run has been going, or since when) and `host.lost` (a
  change was refused, or its save failed) are history variables.

In `Terminal`:

* `app` is `App`: what is shown (`current`, a `LoadedDocument` with its revision),
  the draft, the question asked, the click that waits for its answer. `on`, the
  reading the draft was opened on, and `told` are history variables; no operator clears
  `on` but where the draft itself goes. `left` is the files the last event left (recovery
  copies and files of the external editor).
* `Clicks` is what the reader may click on. The wheel over the list (`WheelList`) closes
  an editor, or asks about its text, as a click does, but holds no click; over the
  reader it takes the focus.
* `Perform` is `perform_at`, with all its answers: refused, in conflict, done, and
  done with the answer lost. A list is as old as its last reload, so a row may name
  any note.

In `EmbedWorker` and `Retrieval`:

* `handle[p]` is a process's `WorkerHandle`, with how far `ensure` is; `worker[w]` how far
  a `noteit-embed` process is, between `SocketPath::validate` and `bind` too; `path` the
  worker that bound the file at the socket path. The members of `Sessions` are followed
  from start to end, again and again, any number of them at once. The others, any number
  of them too, are seen through what they do to workers and path (`Elsewhere`) and to
  the index file (`AnotherFiles`), and `keeper` says who would stop each worker.
* `session[p]` is the server's `SemanticState`, or the locals of one command
  (`command`), with how far the question is; `cache` the one index file of all of them,
  which is read whole and saved whole (`Persist`), with no lock and no merge. A vector is the
  text it was made of, so two equal texts are one revision; a blank text has no chunk.
* `past` is a history variable: which vectors the process obtained and had no reason to
  drop, what was changed or missed while the question ran, and whether another process
  has filed its index since this one read or filed its own.
* A listing succeeds without an entry it could not examine (`Listing`); such a note is
  gone to whoever asked for the listing.

### Steps and code

One action is one turn of the GTK main loop (a script message handler, a timer,
a resumed coroutine) or one turn of a page's event loop. Nothing is atomic across
an `await`. A failing disk, a failing `adopt` and a script that does not run are
choices made available by `Faults`. A window that is closed while the coroutine
still holds it keeps its page alive (`HeldByTask`), since the coroutine holds a clone of
the `Rc`; the page dies when the coroutine ends (`LetGo`).

In `StoreWriters` a step is one system call, or one turn of the desktop's main
loop. A process runs once, so a desktop that is started again is another member
of `Desktops`. Leaving is three steps, in the order of the drops: the last flush,
the removal of the socket file, the release of the lease. `Crash` and `Kill` take
none of them: the kernel lets go of the lock and closes the connections, the
socket file stays. A request already sent stays readable after its client has
gone. The four deadlines (`BUSY_RETRY_WINDOW`, `AUTHORITY_TIMEOUT`,
`REQUEST_TIMEOUT`, `REPLY_TIMEOUT`) may pass at any time: nothing the properties
say depends on their lengths, nor on the inequality the comment at
`core/coordination.rs:93` states between them.

In `StoreFiles` a step is one filesystem call that changes a directory, or one
decision of the code between two of them; in `Desktop`, `NoteTimer` and `Terminal` it
is one event handled to its end, since all three are event loops of one thread.
What makes several steps of an operation is what it waits for: a flush, the
debouncer, the answer to a question, the external editor. In `Retrieval` a step is one
reading of the store, one system call on worker or socket, or one decision between two
of them, since the processes share nothing but the disk and the socket.

## 3. Runs

| run | instance | shows |
|---|---|---|
| `OpenNote_one` | one note, two marks, two requests, one appearance change, all faults | the eight properties of a single open note |
| `OpenNote_two` | two notes, one mark, two requests, failing disk | exclusion, and that windows closed together close over saved answers |
| `OpenNote_fair` | one note, one mark, two requests, all faults, fairness | claims released, requests answered |
| `Capture_one` | one note, two copies of any kind, three commands, one external write, fairness of reads | captures are filed once and in order; the last copy is taken |
| `Capture_two` | two notes, two copies of words, three commands, one external write, reads, saves and moves that fail | the target passed between notes with a read in flight and a change queued; a saved flush covers the sessions before it |
| `Store_two` | two clients, two desktops, two edits, symmetry of processes | nothing is overwritten, the socket leads to the desktop that serves, and `WriteRequests` is implemented |
| `Store_fair` | two clients, one desktop, one edit, fairness of clients | every call returns |
| `Files` | one note, two texts, one of them illustrated; one snapshot kept, four operations, two faults | answers and backups hold through failing calls, kills and power losses; `Notebook` is implemented |
| `Windows` | two notes, both shapes, one fault, two starts, symmetry of notes | the state file says what the application knows; one layer |
| `Terminal` | two notes, three texts, one change of each note by whoever makes it, symmetry of notes | only a discard confirmed over an open editor parts a draft from its note, text is lost only where an answer or that discard gives it up, and what is overwritten was shown for it |
| `Timer` | one note, clock 0..4, focus of 2, breaks of 1, six operations, one refused or failed save | paused time is not spent, alarms ring in time, a note reopens with the run it had |
| `Retrieval` | two notes, one named at a time; a blank text and two others; one process, two workers; one change of a note or filing of another process, one fault; symmetry | nobody's worker is left behind; an answer keeps up with the notes; nothing is paid for twice, and what was paid for is filed until another process files over it |

Why the bounds are enough. Two marks let the reader and a client each have text
of their own in the same note, and let the reader type twice around a freeze. Two
requests let one be late while the next is served: a snapshot answered after its
timeout meets the *other* request's wait. Two notes let a batch have one success
and one failure, in both orders. Message queues are unbounded but in practice are
limited by the marks and requests. Bounds are in guards: `MaxMarks` (edits),
`MaxRequests` (request ids: external writes, flushes and snapshots share the
count), `MaxLooks` (appearance). In the capture runs, two copies are a read in
flight and a change queued behind it; three commands are a target switched on,
taken away and switched on again, or switched on, lost with its window and met
again in a new one. In `Capture_one` nothing fails, since a read that fails takes
nothing; failures are in `Capture_two`, which leaves to `Capture_one` what is
copied and not text. Their bounds are `MaxCopies`, `MaxCommands` (what the reader
asks: switch, close, trash, hide, open, choose a delimiter) and `MaxWrites`
(external writes). In `Store_two` two desktops are one that leaves or has left its
socket behind and the one that comes after it, and two clients are one that writes
by itself and one that asks, or two requests queued at one desktop; edits are
bounded by `MaxEdits`, and nothing else grows. `Store_fair` needs one desktop: a
client waits for one holder at a time.

In `Files` two faults are a call that fails followed by a crash or a power loss, which
is what separates a sync that failed from one that succeeded; four operations are
create, discard and restore with a backup or a second save between them; `Interval` 2
and `Retry` 1 on a clock of three values are a backup that is due, not yet due, and
due again after the clock was set back. Keeping one snapshot makes retention act on
the second; two were checked as well, and five operations, with the same result. In
`Windows` two notes are one open and one closed, or two windows of which one fails to
open; one fault is enough since `behind` discharges the promise until a save succeeds,
and two starts let what was saved be read. In `Terminal` the three texts are two that
the store takes for one (`Canonical`) and another; one revision is enough for whoever
holds the older reading to be in conflict. The clicks are on a row, a task and the tab of
the trash; of the other two, the tab of the notes differs from it in the panel alone and
the search line only moves the focus, which `/` does too. In `Timer` four units of time let a run be
paused, closed and reopened before or after its deadline; crashes are not bounded. In
`Retrieval` two notes of which the question names one are a vector that is found stale
and one that is not looked at, and let the second pass name another note than the
first; one change is an edit, a discard or a restore anywhere in either pass, or an index
filed by another process anywhere between this one's reading, filing and killing; two
workers are two that start at once, or one that is dying while its socket is taken over;
one fault is a killed process, a dead worker, a reading, a listing or a write that
fails. `WhenAllWereAlike` are the indexes others file: of notes that were all alike, or
of none, so that a file may be newer or older than what is known, or empty. Two
processes over one note and one worker, without faults, were checked as well, with the
same result. The processes not followed are not bounded. The bounds are `MaxOps`,
`MaxFaults`, `MaxTime` (`StoreFiles`), `MaxFaults`, `MaxSessions` and `Shapes` (`Desktop`),
`MaxRevision` and `Clicks` (`Terminal`), `MaxTime`, `MaxWire`, `MaxOperations` and `MaxFaults`
(`NoteTimer`), `MaxChanges`, `MaxFaults`, `Filings` and `MaxHits` (`Retrieval`; the
last is the code's own limit, 50 there).

`CHECK_DEADLOCK FALSE`, because quitting stops the application and a reader who
has used every mark, or every command, has no more to do; in `StoreWriters` every
process ends; in `Files` and `Windows` the operations and the starts are used up, and in
`Retrieval` nothing is asked while no process runs.
`Terminal` and `Timer` check deadlock: there is always something to do in them.

### Properties

`TypeOK` is defined in every module. The runs of `StoreFiles`, `Desktop`, `NoteTimer`,
`Terminal` and `Retrieval` list only what takes several steps to break; their
`TypeOK` is a theorem.

* `HostDescribesFile`: the document in memory is the one on file, so "already
  saved" is true. Threatened by every failed write.
* `EditablePageIsCurrent`: an editable page is on the host's generation.
* `CommittedWriteStands`: what a client was told is written is never overwritten
  by text composed earlier.
* `TypedTextKept`: freezing, adopting and releasing keep the reader's text.
* `RefusedNeverLands`: a client told "nothing was changed" may repeat.
* `AppearanceKept`, `DiscardTakesWhatWasRead`: bases are read after the await.
* `LifecycleExclusion`, `SavedBeforeClosed`: several windows at once.
* `ClaimsReleased`, `RequestAnswered`: under fairness, nothing waits for good.
* `DeliveredInItsSession`: a capture is handed over only to the note it was copied
  for, in the run of the mode it was copied in.
* `ReadsOnlyWhatItSaw`: no read is started for a copy made before the session, or
  for a note that lost the target.
* `OffObservesNothing`: the handler is connected only while some note captures
  (a theorem; no run repeats it).
* `FiledInOrder`: each copy once, in order, whatever happens to the window.
* `FlushCoversCaptures`: a saved flush has on file every capture of the sessions
  before it. It is what disarming before the flush is for.
* `NoPageClaimsInVain`: a page that has heard everything and shows the mode on is
  the target.
* `LastCopyIsTaken`: under fairness, a change during a read is not forgotten.
* `BasesAreCurrent`: whoever is about to write has seen what is on file; a desktop
  that serves shows the file and its reader's unsaved edits, nothing else.
* `ServingIsReachable`: the file at the socket path belongs to the desktop that
  serves. It is what removing the socket before the lease is released is for, and
  binding only after it is taken.
* `KeepsItsWord`: `WriteRequests!Spec`. A request takes effect at most once, as a
  whole, on top of everything written before, on the revision it requires; after
  `"refused"` or `"unavailable"` it never does, after `"committed"` it has, and
  after `"unknown"` it may have, or may yet.
* `EveryCallReturns`: a caller is never left waiting.
* `AnswersHold`: whichever call failed, done means that the note is where it was to
  be brought, an error that it is where it was; and what was done without trouble
  survives a power loss, with everything before it.
* `BackupKept`: a backup answered as made is there, whole, unless as many as are kept
  carry a later date; what is listed as whole has the pictures of its texts.
* `DayIsCovered`: nothing is created, overwritten or discarded without a recent
  snapshot or a recent attempt at one.
* `IsNotebook`: `Notebook!Spec`. Each operation takes effect in one of its calls.
* `NothingForgotten`: unless the last save failed, the state file says what the
  application knows: the layer, the notes closed and the notes collapsed.
* `OneLayerKept`: the windows share one layer after every handler, whichever of its
  reads and saves failed; the exception is a hide that could not save.
* `DraftOnItsNote`: an editor shows its draft, and the note on screen is the reading the
  draft was opened on. No preview, search, click, wheel or answer ends that, except a
  discard confirmed over an editor that was opened since it was asked.
* `TextKept`: text that is not in its note is in the draft or in a file, or was given up
  by an answer; what the external editor was left with is never lost. A draft that such
  a discard has parted from its note is the exception: the property says when it goes
  without a word.
* `NothingUnseen`: a draft replaces what it was opened on, a discard moves what it was
  asked about, the external editor replaces what it was given, a task of the reader
  and a restore change what is on screen, and a task completed from the list is read
  again first. A parted draft, again, replaces what came on screen since.
* `TimeIsPaid`: however often it was paused, closed or killed, a run has been going
  for exactly what it has been paid.
* `RingsInTime`: an alarm is not early, and not news of a run that ended while nobody
  was there.
* `ReopensAsItWas`: the record gives back what the page shows, unless a change was
  refused or its save failed.
* `NothingLeftBehind`: whatever worker runs, and whatever socket is at the path, belongs
  to a process that will stop it, unless that process was killed.
* `AnswersKeepUp`: of a note nobody changed meanwhile, an answer says what the note says;
  and unless something was missed, it leaves no stale vector among those it was about.
* `PaidOnce`: no text is sent for a vector the process has, or was given and had no
  reason to drop. A note that a listing left out is one it had a reason to drop.
* `PaidForIsFiled`: what the index holds after a question is on disk, or owed to it,
  until another process files its own index over it.

### Where the code and what is said of it part

Each was met while modelling. The models do what the code does; where that touches a
property, the property says so.

Of the desktop's pages and windows:

* a refused write leaves the frozen text with no autosave pending
  (`ui/src/editor/editor.ts:162`);
* a page that failed to adopt cannot be closed from its own window
  (`docs/features.md:855`);
* a trash begun before an external write closes its window (`src/app.rs:67`);
* a queued read takes Note-it's own words (`core/autopaste.rs:210`), and capture
  switched on between a flush and its answer outlives the window (`src/app.rs:624`,
  `docs/features.md:693`);
* text typed in a page that has answered the flush of a hide goes with its window
  (`src/app.rs:818`); a discard closes a page with the edits it was holding
  (`src/write_authority.rs:436`); a capture held during an external write is dropped
  when the mode is off by the time it is filed (`ui/src/main.ts:429`); a close held
  during an external write is sent before the acknowledgement, so the host refuses it
  while the claim is held (`ui/src/bridge/externalWrite.ts:294`, `src/app.rs:623`); a
  capture handed over after the page composed its closing text goes with its window
  (`src/app.rs:626`).

Of layers and state:

* a window's own copy of its entry may say closed for a note that is open
  (`src/app.rs:652`, `1738`; the comment at 1015 has it otherwise);
* a search result opened while a summon has lifted the windows overwrites the
  preference that was to be restored (`src/app.rs:1085`);
* the debounced write does not ask `can_persist_state`, which the immediate one does
  (`src/app.rs:990`, `core/state.rs:400`);
* a hide that could not save forgets what the summon was to restore
  (`src/app.rs:808`).

Of the store:

* a session that could not read the backups directory takes the day for uncovered and
  makes a second automatic snapshot (`core/storage.rs:540`, `core/backup.rs:44`);
* after the clock was set back, a backup made by hand may be the one retention removes
  (`core/backup.rs:740`, `139`); `BackupKept` allows for it;
* a crash between the link and the removal of a restore leaves a live note that is
  listed in the trash too (`core/trash.rs:216`, `17`); `PageOf` reads it as live.

Of the timer: a start or a pause posted while a hide is flushing or another process
is writing is refused (`src/app.rs:645`), and if the window then goes, the time it was
paused for is spent (`docs/features.md:709`); `host.lost` is this case.

Of the terminal editor: answering `s` to the question about unsaved text leaves the
editor even when the save was refused for another reason than a conflict, and the
draft goes with it (`noteit-tui/src/app.rs:1652`; the comment above says that only a
settled save leaves): to `TextKept` that is giving the text up, as `d` does; a click set
aside survives the conflict its save ran into (`1658`); a draft given up in visual mode leaves Escape with nothing to
leave (`901`); undo may hold more than its budget (`noteit-tui/src/draft.rs:503`).

Of the discard question, which does not keep the mouse from opening an editor
(`noteit-tui/src/app.rs:1486`). Say the reader has note A on screen and presses `d`,
clicks on the row of B and, while another process changes A, answers `y` (`405`):

* the discard meets a conflict, and `mutation_error` (`2026`) brings the fresh A on screen
  with the focus still in the editor and B's text still in the draft. Ctrl+S (`1789`)
  writes B's text over A, at a revision nobody was shown. With a click on A itself, what
  the other process wrote is lost under the older text;
* the discard goes well, and the focus goes to the list with the draft left behind: the
  next editor replaces it without a word, and the end of the program keeps it in a file
  named for whatever note is on screen then, if it is not dropped for saying what that
  note says (`2246`);
* the reading of A fails, and the draft is over nothing: it is not pending any more, and
  any way out of the editor drops it.

That is not what is said at `426` ("a draft must never be replaced by a preview under
it"), at `1804` ("this is the revision the pane was opened on"), at
`docs/tui.md:1262` (a save requires the revision read when the pane was opened) and
`1287` ("O rascunho só existe com o foco no editor"), or at `docs/roadmap.md:1500`
(discarding is out of reach with a draft pending). The model has every one of these steps;
`DraftOnItsNote`, `TextKept` and `NothingUnseen` name the case instead of leaving
it out, and hold of every other step.

Of semantic retrieval: the index of a space is one file for every process, read whole and
saved whole without a lock (`noteit-embedding-remote/src/cache.rs:189`, `217`). A command
that read it before a server filed, and saves after, takes the server's vectors off
disk, and the server, whose `cache_dirty` is clear (`noteit-mcp/src/semantic.rs:396`), does
not write them again until its own index changes: if it stops first, they are paid for
again. `PaidForIsFiled` therefore ends where another process files. A listing leaves
out an entry it cannot examine and succeeds (`core/storage.rs:610`), and `synchronise`
forgets the vectors of what is not listed (`core/semantic.rs:531`): they too are paid for
again. `remove_if_socket` says it removes a socket this process left
behind and nothing else (`noteit-embedding-remote/src/worker.rs:328`), and removes
whatever socket is at the path, another process's live one too; two workers started at
once leave one of them without its socket. The owner of such a worker finds its child
alive and keeps asking a path where nobody listens (`worker.rs:195`). When the
question names fewer notes than are stale, the second pass may name a note the first
did not and forget it, so the answer lags an edit after all
(`noteit-mcp/src/semantic.rs:334`); `AnswersKeepUp` allows for it. Beside these, what
is forgotten while a question is answered does not count as a change of the cache
(`noteit-mcp/src/semantic.rs`, `cache_dirty`); a blank note makes every question write
the cache; an edited note is found stale only if its old vector is among the first 50
hits (`core/context.rs:108`, `docs/semantic-retrieval.md`). Of the agent bridge: the
reader thread waits for the child under the lock that cancelling needs
(`noteit-agent-bridge/src/session.rs:118`).

### Fairness

`FairSpec` assumes weak fairness of four things per note: the page takes its
messages and runs its debounce, the main loop takes the page's messages, timers
that were started run out, and a coroutine that was woken runs. These are what
WebKit's and GLib's event loops do. Nobody is bound to type, click or ask, and no
fault is bound to occur. A page that never answers is covered by the timers alone
(`TimerFires`), and `DeliveryFails` has no fairness.

The `FairSpec` of `Capture` assumes that a clipboard read in flight ends: GDK calls
back with the text or with an error. Nothing else is assumed: `LastCopyIsTaken`
speaks of a session and a window that last, so whatever ends one discharges the
promise, and it does not need pages or the coordinator to make progress.

The `FairSpec` of `StoreWriters` assumes weak fairness of each client's steps, and
strong fairness of its giving up: the check of the deadline comes around in every
turn of the retry loop (`core/authority.rs:151`), and once the deadline has passed it
stays passed. That `LoseAnswer` is among the client's steps is the read timeout of
the connection. Nothing at all is assumed of a desktop, which may hang with the
lease in its hands.

`StoreFiles`, `Desktop`, `NoteTimer`, `Terminal` and `Retrieval` state no fairness:
what they promise is what may never happen, and their users may stop at any point.

## 4. Proofs

All for every set of notes and every bound, assuming only what the modules
declare of the constants (`Notes` finite and not empty, bounds natural numbers).

* `TypeCorrect`: `TypeOK`. The one part that is not a typing,
  `BringsText(task) => task.mark \in Marks`, is what makes the text a write adds
  a mark.
* `ClaimsAlwaysAccounted`: `ClaimsAccounted` is the inductive strengthening behind
  exclusion. `LifecycleExclusion` alone is not inductive: it does not say that the
  count is one exactly while a request holds a note, nor that a pending snapshot
  or acknowledgement belongs to that request, without which a late answer could
  move the stage. `LifecycleNeverOverlaps` follows from it.
* `PagesAlwaysAccounted`: `PagesAccounted` adds that a page exists exactly while
  its window does or the coroutine holds it. It is needed for
  `HostAlwaysDescribesFile`, because a window that closed under a coroutine has its
  document committed later, through the same clone.
* `AppearanceAlwaysKept`: the action property, from `HostDescribesFile` of every
  present page: a save writes `doc[n]` with at most its `look` advanced.
* `BarrierAlwaysHolds`: the strengthening behind everything that depends on messages in
  flight. `RequestsToldApart`: every number in a queue is below `nextReq`, the answer that
  is waited for is the one of the request that is served, and a request that is still
  queued was told to nobody. `BarrierHolds` says four things of each page:
    - `LoadingPage`: until a page has been given its note it has said only that it is
      ready, and was asked only for flushes.
    - `DocumentsAwaited`: at most one document is on its way to it, of the host's
      generation, and the page is loading or frozen for just that document.
    - `PageGeneration`: an idle page is on the host's generation (this is
      `EditablePageIsCurrent`, which is not inductive alone: what makes it so is that a
      frozen page behind the host's generation will never be aborted).
    - `SnapshotsHold`: the snapshot the host waits for is of a page still frozen, with the
      text and generation it still has; and so until the coroutine takes it.
* The proofs about messages do not speak of actions. `PageStep(n)` and `HostStep(n)` say
  what any step may do to one note, in six and ten cases; `EveryStep` shows that each step
  of `Next` is one of them, and every invariant is proved of these cases.
* `CommittedWriteAlwaysStands`: `WrittenCarried` extends `CommittedWriteStands` to every
  text of the present generation: in the page, in a document on its way to it, in a save on
  its way from it. A text of an older generation may lack what was written, and is
  refused.
* `TypedTextAlwaysKept`: `TypedIsHeld` adds that a document on its way to a page has what
  was typed before the freeze, and the queue the rest.
* `RefusedNeverInFile`: `MarksAccounted` says of every place a text can be, both files,
  page, held edits and both queues, that no mark of a refused request is there, nor one of a
  request that may still be refused.
* `DiscardAlwaysTakesWhatWasRead`: the action property, from `SnapshotsHold`: the text
  compared with what the caller had read is the text the page still has.
* `AnswersAlwaysSaved`: the action property `SavedBeforeClosed`, from two more invariants.
  `AnswersAccounted` speaks of the *order* of a queue (`Ordered`): the texts of the host's
  generation grow from one message to the next up to the page's own (`TextsGrow`); a close
  on its way is of that generation, because none follows a snapshot the host still waits
  for (`ClosesCurrent`); and what was answered is in every later text (`ReportedCarried`),
  so that saving the last answer loses no earlier one. `BatchCounted` and `BatchSaved`
  speak of a hide or a quit: it waits for as many answers as windows owe one, and a window
  that owes none has everything it answered on file and nothing more on its way. The latter
  needs `LastAsked`: an older flush, of a trash the reader asked for first, may still be
  unanswered when the batch asks, and is then answered before it. The windows a
  commit closes are closed on that; each of the other ways to close saves, or compares, the
  text of the window it closes.

For clipboard capture, in `CaptureProofs`, for every set of notes, every kind of
copy and every bound (`CaptureAssumption`):

* `CaptureTyped`: `TypeOK`. It is not inductive alone: a queued change becomes a
  read of copy `Len(copies)` under `armed`, which has the type of a read only if
  something was copied and some note is armed.
* `SessionsAlwaysAccounted`: `SessionsAccounted`, inductive together with the
  types. It says of the *queue* what `ReadsOnlyWhatItSaw` says of reads: a queued
  change means that some note is armed and that the last copy was made in its
  session. That is what arming and disarming must clear the queue for, and what
  makes the read started by `finish_read` honest.
* `NeverReadsWhatItDidNotSee` and `OffAlwaysObservesNothing` follow from it.
* `AlwaysDeliveredInItsSession`: `accept` compares the session of the read with the
  session armed; with `SessionsAccounted` that is the session of the copy.
* `NoPageEverClaimsInVain`, `AlwaysFiledInOrder` and `FlushAlwaysCoversCaptures` speak of a
  window and a page joined by two queues. Their inductive invariants say what each side
  may rely on at every point of a queue, so they share an operator, `Before(s, start, k,
  sets, clears)`: what a reader of the queue `s` that began with `start` believes when it
  comes to the message `k`. All three rest on `Grounds`: a closed window is silent, the
  writes announced are those asked for, and generations only grow.
    - `SwitchesTold`: the last word about the switch, the latest message on its way
      or else the page's own flag, says on only to the target. `NoPageClaimsInVain`
      speaks of a page that has nothing on its way; with something on its way the page
      may rightly be wrong.
    - `ReadsInTurn`: at most one read runs, and of a copy later than any handed over.
      `CapturesInOrder`: text, held captures, captures on their way and captures in a
      document on its way or on file, each continue the one before.
    - `FlushesWhileFree`: no page comes to a flush while an external write freezes it. A
      page that is asked then holds captures back, so its answer would miss them.
      `FlushesAccounted`: of a flush that is saved, answered or only asked, every capture
      of the generations it closes is on file, in the answer, or before the request in
      the page's queue.

For the writers of the store, in `StoreWritersProofs`, for any disjoint sets of
clients and desktops (`ProcessesAssumption`) and any number of edits
(`EditsAssumption`):

* `StoreInvariant`: the inductive invariant, four parts beside `TypeOK` and
  `BasesAreCurrent`. `WritersHold`: whoever is between taking and releasing the
  lease holds it, so there is one at a time; `BasesAreCurrent` is not inductive
  without it. `PathIsBound`: the file at the path is the holder's own from bind to
  removal, which `ServingIsReachable` says only of a desktop that serves. `RequestStages`: how
  `pc`, `wire`, `job` and `reply` of one client go together, such as that a request
  that is in a queue was sent and not written directly. `EffectsKnown`: as long
  as the change of a client may still be made it is not in the file, and a client or
  a desktop that knows how the request ended knows the truth of the file. This is
  what makes at-most-once and the truth of answers inductive, since an answer given
  up as unknown may still be followed by its effect.
* `StoreTypes`, `NothingIsOverwritten` and `AuthorityIsReachable` follow from it.
* `StoreKeepsItsWord`: `Spec => KeepsItsWord`, the refinement. `asked` is mapped to
  the clients past `"idle"`; each step is a step of `WriteRequests` or leaves its
  variables alone, one lemma per action that is not a stutter.

For the directories of a store, in `StoreFilesProofs`, for any notes, texts, spans, number
of snapshots kept and clock (the assumptions of `StoreFiles`):

* `StoreFilesInvariant`: the inductive invariant. Of every disk a power loss may leave, not
  only of the one at work (`DisksHold`), that pictures are there for the texts that show
  them and that a listed snapshot that is not whole is one in excess; otherwise retention,
  cut short, could leave too few. Of the schedule, that what it takes for a backup is one
  (`SuccessIsDated`). Of the operation at work (`OpInv`), where its note is at each step
  (`Committed`), which steps are beyond a power loss (`Synced`), which snapshot it is
  making and which names it is to remove (`Making`, `Dooming`), and that a mutation is
  committed within the spans (`Allowed`).
* `AnswersAlwaysHold`, `BackupsAreKept` and `EveryDayIsCovered` follow from it. That
  retention keeps as many whole snapshots as it should counts finite sets by the
  theorems of the library.
* `DirectoriesAreTheNotebook`: `Spec => IsNotebook`, the refinement. The commit of each
  operation is a step of `Notebook`, every other call a stutter or a `Sync`; of a power
  loss, each possible survivor is the notebook at an instant since the last sync.

The attempt to prove `AnswersHold` corrected it: it was a `CASE` with guards that overlap, of
which TLC takes the first and logic either; it is now a nested `IF`.

For the timer, in `NoteTimerProofs`, for every length of the phases, choice of minutes and
number of sessions:

* `TimerInvariant`: `TimeIsPaid` looks at one record, and the next record may come from the
  page, the host or the file, so the invariant says of every record there is, on its way
  too, that it is sound (`RecordsAreSound`). `CopiesAgree` says that while nothing is lost
  host and file have one record, and `PageHasSpoken` that the last record on its way is the
  page's but for what the page changes without a word: minutes chosen while idle, and a
  run that ends before its alarm is taken.
* `TimeIsNeverLost`, `NothingIsForgotten` and the action property `AlarmsAreInTime`.

For the terminal editor, in `TerminalProofs`, for any notes, texts and revisions, any
idempotent `Canonical`, with `Nothing` outside the records (`NothingIsNoRecord`):

* `TerminalInvariant`: every reading the program has is `Known` to the store: the note was
  there, its revision is no later, and if it is the same the text is the same. With it
  a write that asks for a revision replaces exactly what was read. A draft has the reading
  it was opened on (`HasItsNote`), the external editor is never open over an editor, and
  a program that does not run has no draft. None of this says that a draft is on its
  note: that is a property of steps, since one of them ends it.
* The handlers are relations between situations, so the lemmas are about those: what reads
  leaves all but the screen (`Reads`), what writes leaves every note but one, which was as
  it was read (`Works`). There is one lemma per operator, then one per action. A handler that
  begins with a draft on its note ends with one, or with none (`Good`); the one answer
  that does not is the confirmed discard, for which only `Fit` is shown.
* The action properties `DraftsStayOnTheirNotes`, `NoTextIsLost` and
  `NothingIsReplacedUnseen`.

For semantic retrieval and its workers, in `RetrievalProofs`, for any notes, texts,
processes and workers (`NothingIsNoDocument` keeps `Nothing` outside the records):

* `RetrievalInvariant`: of the workers (`HandlesHold`), that the step a process is at
  and the child it has go together and that a child has one owner, which
  `NothingLeftBehind` needs to be inductive. Of each question, five parts: how far it is
  (`InOrder`), what it has still to verify of what it found (`Claimed`), what the index
  lacks at most (`UpToDate`), what it obtained and has (`Obtained`), and that an index
  which owes nothing is the cache, until another process files (`Filed`). It is kept for
  any number of processes at once: what one files is the end of `Filed` for all others.
* `NobodyIsLeftBehind`, `VectorsAreFiled`, and the action properties `NothingIsPaidTwice`
  and `AnswersKeepUpWithNotes`.

For windows, the layer and the state file, in `DesktopProofs`, for any notes and
bounds and any shapes of windows the code allows (`ShapesAssumption`,
`BoundsAssumption`):

* `DesktopInvHolds`: `TypeOK /\ DesktopInv`. `NothingForgotten` is not inductive: it lets
  a file lag whenever a write is due, and a write that comes due later must find notes and
  layer in step. `NotesFiled` has the notes filed, a pending write or not, since
  all that closes, restores or creates a note saves at once; `LayerFiled` has the layer
  filed unless its debounced write is pending or the start was hidden. `CopiesAgree`
  joins a window's own copy with the state: no window that says open is marked as
  not coming back. `HiddenIsEmpty` says that a hidden application shows no
  window and has no layer to go back to from an elevation, which is what lets its file
  name another layer. `IdleIsEmpty` says the same until the first command, because
  a start in the background hides by setting the mode alone.
* A handler is a set of situations (what the process knows and what is on disk), so
  the lemmas are about operators on situations, and each is read by every handler
  that calls it. `Coherent` names the parts such an operator keeps while the layer's
  write is in whatever state.
* One lemma per action ends in `Lands(apart)`: the step ends in a situation that keeps
  the invariant, and in which the windows are on one layer if they were before, unless
  `apart`. Only `HideAborts` is `apart`. `EveryStepLands` puts them together, so the
  invariant and the action property come from the same lemmas.
* `NeverForgotten` (`NothingForgotten`) and `LayerAlwaysKept` (the action property
  `OneLayerKept`).

Each invariant was checked by TLC, on the run's instance, before it was proved.

Of the properties the runs check, every safety invariant, every action property and
both refinements are stated by a theorem. Only model-checked are the four liveness
properties, `ClaimsReleased`, `RequestAnswered`, `LastCopyIsTaken` and
`EveryCallReturns`: they rest on fairness and ENABLED, which are out of the prover's
reach.

## 5. What is left out

Of `OpenNote`:

* The metadata panel's save and geometry: same path as the appearance change.
* `RequestContent`: the page answers it, the host never sends it.
* Reloading a page or a web process that crashes: the code handles neither.
* A window reopened while the coroutine still holds the old one: `OpenWindow` states
  the bound in its guard. Creating a note and restoring one are in `Desktop`.
* The remembered answers (`recall`, `remember`): no client of the repository
  repeats a request with the same id.
* Formatting of Markdown: a body is its set of edits.

Of `Capture`:

* The load of a page: it is loaded as soon as its window opens. A switch cannot be
  asked from a page that is not loaded.
* Autosave, document generations and the commit of an external write: they are in
  `OpenNote`. Here such a write freezes a page and frees it, or discards its note.
* A close held by a frozen page (`OpenNote`), and reopening a note whose last
  window an external write still holds: both are bounds stated in the guards.
* Quitting after its flush: up to there it is a hide; then the process ends.
* A missing display, where the handler cannot be connected, and the layout of a
  capture in the document (`ui/src/capture/autoPaste.ts`).

Of `StoreWriters`:

* The checks of the runtime directories (`prepare`), the refusal of another protocol
  version and the framing: they end a call before anything is written, as
  `"unavailable"` or `"refused"` do.
* The remembered answers, as above, and the order of the queue, which is left open.
* A request that changes nothing and is answered as such: here a change changes.
* What a request does inside the desktop, and several windows: `OpenNote`.
* Power loss: a save is one step, as the rename is to a running process. It is in
  `StoreFiles`.

Of `StoreFiles`: a leftover scratch directory that could not be removed, which stays
until a later backup removes it, and into which the next one would be built only if its
process had the same number; listing notes with its warnings, the stale temporary files of an atomic
write, the checks of an addressed commit (they are a refusal of the commit) and the
refusal of links and special files while copying (a copy that fails).

Of `Desktop`: `--background` sent to an application that runs, which the desktop entry
does not do (`README.md:432`, `docs/niri.md:34`); the contents of the configuration;
positions, sizes and zoom, which go the way of `collapsed`; pages and their text
(`OpenNote`).

Of `Terminal`: the visual mode's projection, the format menu, undo and its budget and
scrolling in the editor, which to the model are other ways to another draft; a process that is
killed. Recent notes and tasks are one panel, as both list live notes.

Of `NoteTimer`: a clock that is set back; `sanitize`, which clamps a record nobody here
wrote; other saves of the state, which only make a lost record be saved sooner; minutes
chosen while no run has begun, which are stored with the next event. Quitting is a hide
and then a start.

Of `EmbedWorker` and `Retrieval`: the wire format and the credentials; the provider behind
the worker, whose errors are a request without an answer; the provider that runs in the
process, which keeps no cache and starts nothing; a provider or model changed while the
server runs, which begins a new index; a process killed within the write of the cache
(the rename is one step, `StoreFiles` has the calls of such a write); several chunks of
one note, which are replaced together; two questions at once, since the second waits
for the first. That a question ends is not claimed: nothing bounds how often `ensure` is
asked, once for each note.

Not modelled:

* Settings are read once and written whole by the rule `Desktop` models for the
  state file. Study grades a card by a pure function of one rating, and writes its
  file whole, as a note is.
* Tasks, metadata, search, context, local embedding: functions of a text or of a scan
  of the store, with no state between two calls.
* The command line is argument parsing around the client of `StoreWriters`, and the
  MCP server another such client with the semantic index as its only state.
* The agent bridge is used by no other crate of the workspace.
* Panels, styles, packaging: presentation and installation.

## 6. Plan

All that was planned is done: the modules of section 2, and of every safety invariant,
action property and refinement a run checks, a theorem. What is left:

1. The four liveness properties are checked on small instances only.
2. The parts that are not modelled, and of those modelled partly what section 5 lists.
   Most of the lines outside the map are presentation (`noteit-tui/src/ui.rs`,
   `projection.rs`, `noteit-cli/src/output.rs`), parsing, and the wiring of GTK and
   WebKit in `note_window.rs` and `webview_bridge.rs`.
3. The hazards without a property, each with its note in `PROJECT.json`.
