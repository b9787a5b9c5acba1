------------------------------- MODULE Desktop -------------------------------
(***************************************************************************)
(* The windows of the desktop application, the layer they sit on and the   *)
(* file that remembers both (src/src/app.rs, core/state.rs).               *)
(*                                                                         *)
(* Everything runs on the one main loop, so a handler is one step; what    *)
(* makes several is the flush a hide, a quit or a move to the trash waits  *)
(* for, and the debounced write of the layer.  A handler may save the      *)
(* state more than once and each save may fail: a handler is the set of    *)
(* situations it can leave.  The pages and their text are in OpenNote.     *)
(***************************************************************************)
EXTENDS Lifecycle, FiniteSets

CONSTANTS Notes,
          Shapes,       \* bound: which values of `collapsed` occur
          MaxFaults,    \* bound: reads and writes that fail, files spoiled
          MaxSessions   \* bound: starts of the application

ASSUME ShapesAssumption == Shapes \subseteq BOOLEAN /\ FALSE \in Shapes
ASSUME BoundsAssumption == MaxFaults \in Nat /\ MaxSessions \in Nat

VARIABLES ctx,      \* AppContext: what the process knows
          disk,     \* notes/, trash/ and the state file
          sessions  \* starts so far

vars == <<ctx, disk, sessions, lifecycleVars>>

Modes == {"overlay", "desktop", "hidden"}
Nowhere == "none"

\* The windows' state as it is saved: AppState, reduced to the layer, the
\* notes that are not to come back, and the notes that are a header bar.
AppState == [mode: Modes, closed: SUBSET Notes, collapsed: SUBSET Notes]
DefaultState == [mode |-> "overlay", closed |-> {}, collapsed |-> {}]

\* A window holds a copy of its note's entry, taken when it was built.
Window == [layer: Modes \union {Nowhere}, open: BOOLEAN, collapsed: BOOLEAN]
Gone == [layer |-> Nowhere, open |-> FALSE, collapsed |-> FALSE]

Context == [up: BOOLEAN, activated: BOOLEAN, canPersist: BOOLEAN, state: AppState,
            windows: [Notes -> Window], restore: {"desktop", Nowhere},
            due: BOOLEAN,               \* the debouncer holds a pending write
            trashing: SUBSET Notes]     \* moves to the trash that wait for a flush
Stopped == [up |-> FALSE, activated |-> FALSE, canPersist |-> TRUE,
            state |-> DefaultState, windows |-> [n \in Notes |-> Gone],
            restore |-> Nowhere, due |-> FALSE, trashing |-> {}]

\* behind: a save has failed and none has succeeded since.
Disk == [live: SUBSET Notes, trash: SUBSET Notes, kind: {"absent", "spoiled", "state"},
         state: AppState, behind: BOOLEAN, faults: 0..MaxFaults]

Init ==
  /\ ctx = Stopped
  /\ disk = [live |-> {}, trash |-> {}, kind |-> "absent", state |-> DefaultState,
             behind |-> FALSE, faults |-> 0]
  /\ sessions = 0
  /\ LifecycleInit

-----------------------------------------------------------------------------
(* What the handlers are made of.  A situation is [ctx, disk].             *)

Now == [ctx |-> ctx, disk |-> disk]
Becomes(situations) == \E s \in situations : ctx' = s.ctx /\ disk' = s.disk

Showing(c) == {n \in Notes : c.windows[n] # Gone}
Fresh(d) == Notes \ (d.live \union d.trash)

\* The situations a failing call leads to: none once the bound is reached.
Failing(s) ==
  IF s.disk.faults < MaxFaults THEN {[s EXCEPT !.disk.faults = @ + 1]} ELSE {}

Effective(c) == IF c.restore # Nowhere THEN "overlay" ELSE c.state.mode
Visible(mode) == IF mode = "hidden" THEN "overlay" ELSE mode
Toggled(mode) == IF mode = "overlay" THEN "desktop" ELSE "overlay"

\* A mutant: the pass over the windows stops at the first that changed.
Mutant_RaisedOne(c, mode) ==
  LET lower == {n \in Notes : c.windows[n] # Gone /\ c.windows[n].layer # mode}
  IN IF lower = {} THEN c
     ELSE [c EXCEPT !.windows[CHOOSE n \in lower : TRUE].layer = mode]

Raised(c, mode) ==
  [c EXCEPT !.windows = [n \in Notes |->
     IF c.windows[n] = Gone THEN Gone ELSE [c.windows[n] EXCEPT !.layer = mode]]]

\* A window hands its own copy of the entry to the state.
Inserted(c, changed) ==
  [c EXCEPT
     !.state.closed = (@ \ changed) \union {n \in changed : ~c.windows[n].open},
     !.state.collapsed = (@ \ changed) \union {n \in changed : c.windows[n].collapsed}]

\* AppState::save_to_file: the whole state or nothing.  An existing file that
\* is no state file is preserved first; that failing, or the file not being
\* readable, refuses the save like a failed write.
Saved(s) == [s EXCEPT !.disk.kind = "state", !.disk.state = s.ctx.state, !.disk.behind = FALSE]
NotSaved(s) == {[f EXCEPT !.disk.behind = TRUE] : f \in Failing(s)}

Settled(s) == [s EXCEPT !.ctx.due = FALSE]

\* persist_state_now, when it answers Ok and when it does not.
PersistedOk(s) == {IF s.ctx.canPersist THEN Saved(Settled(s)) ELSE Settled(s)}
PersistFailed(s) == IF s.ctx.canPersist THEN NotSaved(Settled(s)) ELSE {}
Persisted(s) == PersistedOk(s) \union PersistFailed(s)

\* A window takes what the state says of its note.
Built(s, n, mode) == [layer |-> mode, open |-> n \notin s.ctx.state.closed,
                      collapsed |-> n \in s.ctx.state.collapsed]

\* instantiate_note_by_id for each note: one that cannot be read gets no window.
Instantiated(s, wanted, mode) ==
  LET missing == wanted \ Showing(s.ctx)
      With(t, read) ==
        [t EXCEPT !.ctx.windows = [n \in Notes |->
           IF n \in read THEN Built(s, n, mode) ELSE s.ctx.windows[n]]]
  IN {With(s, missing)}
     \union {With(f, read) : f \in Failing(s), read \in (SUBSET missing) \ {missing}}

\* A mutant: nothing is written.
Mutant_MarkedOpenUnsaved(s, wanted, mode) ==
  {[s EXCEPT !.ctx.state.mode = mode, !.ctx.state.closed = @ \ wanted]}

MarkedOpen(s, wanted, mode) ==
  Persisted([s EXCEPT !.ctx.state.mode = mode, !.ctx.state.closed = @ \ wanted])

\* The note is shown on the layer the others are on; the preference is left
\* alone while a summon has elevated them.
WithNote(s, n) ==
  LET mode == Visible(Effective(s.ctx))
      state == [s.ctx.state EXCEPT
                  !.closed = @ \ {n}, !.collapsed = @ \ {n},
                  !.mode = IF s.ctx.restore # Nowhere THEN @ ELSE mode]
      windows == [s.ctx.windows EXCEPT
                    ![n] = [layer |-> mode, open |-> TRUE, collapsed |-> FALSE]]
  IN [s EXCEPT !.ctx = [@ EXCEPT !.windows = windows, !.state = state],
               !.disk.live = @ \union {n}]

\* create_new_note: the note is made before the state is saved.
Created(s) ==
  IF ~StructuralActionAllowed THEN {s}
  ELSE Failing(s) \union UNION {Persisted(WithNote(s, n)) : n \in Fresh(s.disk)}

\* plan_startup over the notes that were listed, and what it asks for: the
\* notes not closed, else the one used last, else a new one.
Restored(s, listed, mode) ==
  LET open == listed \ s.ctx.state.closed
      wanted == IF open # {} THEN {open} ELSE {{n} : n \in listed}
  IN IF listed = {} THEN Created(s)
     ELSE UNION {UNION {MarkedOpen(t, w, mode) : t \in Instantiated(s, w, mode)}
                   : w \in wanted}

\* list_notes: what does not list counts as a store without notes.
RestoredSaved(s, mode) ==
  Restored(s, s.disk.live, mode) \union UNION {Restored(f, {}, mode) : f \in Failing(s)}

RestoredIn(s, mode) ==
  {[r EXCEPT !.ctx = Raised(r.ctx, mode)] : r \in RestoredSaved(s, Visible(s.ctx.state.mode))}

-----------------------------------------------------------------------------
(* The session                                                             *)

Running == ctx.up
Acting == Running /\ UNCHANGED <<sessions, lifecycleVars>>
Structural == Acting /\ StructuralActionAllowed
Handled(situations) ==
  Becomes({[s EXCEPT !.ctx.activated = TRUE] : s \in situations})

\* load_detailed and resolve_startup_state: a state that cannot be read, or
\* is spoiled and cannot be preserved, is not to be overwritten.
Begun(s, state, can) ==
  [s EXCEPT !.ctx.up = TRUE, !.ctx.canPersist = can, !.ctx.state = state,
            !.disk.behind = FALSE]
Loaded(s) ==
  {Begun(s, IF s.disk.kind = "state" THEN s.disk.state ELSE DefaultState, TRUE)}
    \union {Begun(f, DefaultState, FALSE) :
              f \in IF s.disk.kind = "absent" THEN {} ELSE Failing(s)}

Start ==
  /\ ~Running /\ sessions < MaxSessions /\ sessions' = sessions + 1
  /\ Becomes(Loaded(Now)) /\ UNCHANGED lifecycleVars

\* The process is killed: what was pending goes with it.
Crash ==
  /\ Running /\ sessions < MaxSessions
  /\ ctx' = Stopped /\ active' = NoOperation /\ externalWrites' = 0
  /\ UNCHANGED <<disk, sessions>>

\* Somebody else spoils the state file while the application is not there.
Spoil ==
  /\ ~Running /\ disk.kind = "state" /\ sessions < MaxSessions
  /\ Becomes({[f EXCEPT !.disk.kind = "spoiled", !.disk.state = DefaultState] : f \in Failing(Now)})
  /\ UNCHANGED <<sessions, lifecycleVars>>

-----------------------------------------------------------------------------
(* Commands                                                                *)

\* `note-it --background`: how a desktop session starts the application.
Background ==
  /\ Acting /\ ~ctx.activated
  /\ Handled({[Now EXCEPT !.ctx.state.mode = "hidden"]})

\* `note-it`: a running application is elevated without its preference.
Elevated(s) ==
  UNION {Persisted([r EXCEPT !.ctx.state.mode = "desktop", !.ctx.restore = "desktop"])
           : r \in RestoredIn(s, "overlay")}

Summon ==
  /\ Acting
  /\ Handled(IF ctx.state.mode = "desktop" /\ ctx.activated THEN Elevated(Now)
             ELSE RestoredIn(Now, Visible(ctx.state.mode)))

NewNote == Acting /\ Handled(Created(Now))

\* set_layer_mode to a visible layer: an explicit choice ends the elevation,
\* and its write is left to the debouncer.
Scheduled(s) == [s EXCEPT !.ctx.due = TRUE]

ChosenLayer(s, mode) ==
  LET chosen == [s EXCEPT !.ctx.restore = Nowhere, !.ctx.state.mode = mode]
  IN IF \/ active # NoOperation \/ externalWrites > 0    \* is_active
        \/ Showing(s.ctx) # {} /\ s.ctx.restore = Nowhere /\ s.ctx.state.mode = mode
     THEN {s}
     ELSE {Scheduled(r) : r \in IF Showing(s.ctx) = {} THEN RestoredSaved(chosen, mode)
                                ELSE {[chosen EXCEPT !.ctx = Raised(@, mode)]}}

Toggle == Acting /\ Handled(ChosenLayer(Now, Toggled(Effective(ctx))))
Show == Acting /\ Handled(ChosenLayer(Now, "overlay"))

\* The debounce runs out.  Unlike persist_state_now it does not ask whether
\* the file may be overwritten.
DebounceExpires ==
  /\ Acting /\ ctx.due
  /\ Becomes({Saved(Settled(Now))} \union NotSaved(Settled(Now)))

\* All collapsed, or all expanded when they already are.
ToggleCollapseAll ==
  /\ Structural /\ Showing(ctx) # {} /\ Shapes = BOOLEAN
  /\ LET expanded == {n \in Showing(ctx) : ~ctx.windows[n].collapsed}
         changed == IF expanded # {} THEN expanded ELSE Showing(ctx)
         turned == [ctx EXCEPT !.windows = [n \in Notes |->
                      IF n \in changed THEN [@[n] EXCEPT !.collapsed = expanded # {}] ELSE @[n]]]
     IN Handled(Persisted([Now EXCEPT !.ctx = Inserted(turned, changed)]))

\* A new interface scale moves the bars of the collapsed notes.
SetUiScale ==
  LET bars == {n \in Showing(ctx) : ctx.windows[n].collapsed}
  IN Acting /\ bars # {} /\ Becomes(Persisted([Now EXCEPT !.ctx = Inserted(ctx, bars)]))

-----------------------------------------------------------------------------
(* Hiding and quitting                                                     *)

\* commit_hidden_transition: the state is saved before any window closes.
AllClosed(s) ==
  [s EXCEPT !.ctx.windows = [n \in Notes |-> Gone], !.ctx.state.mode = "hidden"]

CommittedHide(s) ==
  LET quiet == [Settled(s) EXCEPT !.ctx.restore = Nowhere]
      hidden == AllClosed(quiet)
  IN IF ~s.ctx.canPersist THEN {hidden} ELSE {Saved(hidden)} \union NotSaved(quiet)

\* commit_quit: a state that cannot be saved keeps the application open.
CommittedQuit(s) ==
  {[p EXCEPT !.ctx = Stopped] : p \in PersistedOk(s)} \union PersistFailed(s)

Hide ==
  /\ Running /\ active = NoOperation /\ externalWrites = 0
  /\ IF Showing(ctx) = {} THEN Handled(CommittedHide(Now)) /\ UNCHANGED active
     ELSE Handled({Now}) /\ active' = "Hide"
  /\ UNCHANGED <<sessions, externalWrites>>

Quit ==
  /\ Running /\ active = NoOperation /\ externalWrites = 0
  /\ IF Showing(ctx) = {} THEN Becomes(CommittedQuit(Now)) /\ UNCHANGED active
     ELSE Handled({Now}) /\ active' = "Quit"
  /\ UNCHANGED <<sessions, externalWrites>>

\* Every window has answered the flush.
FlushedAll(operation, committed) ==
  /\ Running /\ active = operation
  /\ \/ Becomes(committed)        \* all are saved
     \/ UNCHANGED <<ctx, disk>>   \* one of them is not
  /\ FinishLifecycle(operation) /\ UNCHANGED sessions

HideFlushed == FlushedAll("Hide", CommittedHide(Now))
QuitFlushed == FlushedAll("Quit", CommittedQuit(Now))

-----------------------------------------------------------------------------
(* What a page asks for, and what others write                             *)

\* close_note: nothing has happened when the state cannot be saved.
Close(n) ==
  /\ Structural /\ n \in Showing(ctx)
  /\ LET closed == [Now EXCEPT !.ctx.state.closed = @ \union {n}]
     IN Becomes({[p EXCEPT !.ctx.windows[n] = Gone] : p \in PersistedOk(closed)}
                \union {[f EXCEPT !.ctx.state = ctx.state] : f \in PersistFailed(closed)})

\* Dragged, resized, zoomed, collapsed: the window's copy changes and is
\* handed to the state, which refuses it while something else holds on.
Moved(s, n) ==
  IF StructuralActionAllowed THEN Persisted([s EXCEPT !.ctx = Inserted(s.ctx, {n})]) ELSE {s}

Geometry(n) ==
  /\ Acting /\ n \in Showing(ctx)
  /\ \E shape \in Shapes : Becomes(Moved([Now EXCEPT !.ctx.windows[n].collapsed = shape], n))

\* open_search_result: shown on the layer of the others, and expanded.
OpenSearchResult(n) ==
  /\ Acting /\ Showing(ctx) # {} /\ n \in disk.live
  /\ LET layer == Effective(ctx)
         built == IF n \in Showing(ctx) THEN {Now} ELSE Instantiated(Now, {n}, layer)
         Known(s) == IF n \in Showing(ctx) \/ n \notin Showing(s.ctx) THEN {s}
                     ELSE MarkedOpen(s, {n}, layer)
         Expanded(s) == IF ~s.ctx.windows[n].collapsed THEN {s}
                        ELSE Moved([s EXCEPT !.ctx.windows[n].collapsed = FALSE], n)
     IN Becomes(UNION {Expanded(s) : s \in UNION {Known(b) : b \in built}})

\* trash_note asks its page for a flush first.
Trash(n) ==
  /\ Structural /\ n \in Showing(ctx)
  /\ ctx' = [ctx EXCEPT !.trashing = @ \union {n}] /\ UNCHANGED disk

\* commit_trash: past the move nothing turns it into a failure.
Discarded(s, n) ==
  LET moved == [s EXCEPT !.disk.live = @ \ {n}, !.disk.trash = @ \union {n},
                         !.ctx.state.closed = @ \union {n}]
  IN {[p EXCEPT !.ctx.windows[n] = Gone] : p \in Persisted(moved)}

TrashFlushed(n) ==
  /\ Acting /\ n \in ctx.trashing
  /\ LET answered == [Now EXCEPT !.ctx.trashing = @ \ {n}]
     IN Becomes({answered} \union
                IF n \in disk.live THEN Discarded(answered, n) ELSE {})

\* restore_note: the file moves back, and no window opens.
RestoreNote(n) ==
  /\ Acting /\ Showing(ctx) # {} /\ n \in disk.trash
  /\ disk' = [disk EXCEPT !.trash = @ \ {n}, !.live = @ \union {n}] /\ UNCHANGED ctx

\* Another process writes through this one (DesktopWrites): it makes a note,
\* or moves one to the trash with the window that shows it.
BeginWrite == /\ Running /\ externalWrites = 0 /\ BeginExternalWrite
              /\ UNCHANGED <<ctx, disk, sessions>>
FinishWrite == /\ Running /\ externalWrites = 1 /\ FinishExternalWrite
               /\ UNCHANGED <<ctx, disk, sessions>>

WrittenCreate(n) ==
  /\ Acting /\ externalWrites = 1 /\ n \in Fresh(disk)
  /\ disk' = [disk EXCEPT !.live = @ \union {n}] /\ UNCHANGED ctx

WrittenDiscard(n) ==
  /\ Acting /\ externalWrites = 1 /\ n \in disk.live
  /\ Becomes(IF n \in Showing(ctx) THEN Discarded(Now, n)
             ELSE {[Now EXCEPT !.disk.live = @ \ {n}, !.disk.trash = @ \union {n}]})

Next ==
  \/ Start \/ Crash \/ Spoil
  \/ Background \/ Summon \/ NewNote \/ Toggle \/ Show \/ ToggleCollapseAll \/ SetUiScale
  \/ DebounceExpires \/ Hide \/ Quit \/ HideFlushed \/ QuitFlushed
  \/ BeginWrite \/ FinishWrite
  \/ \E n \in Notes :
       \/ Close(n) \/ Geometry(n) \/ OpenSearchResult(n) \/ Trash(n) \/ TrashFlushed(n)
       \/ RestoreNote(n) \/ WrittenCreate(n) \/ WrittenDiscard(n)

Spec == Init /\ [][Next]_vars

-----------------------------------------------------------------------------
(* Properties                                                              *)

TypeOK ==
  /\ ctx \in Context
  /\ disk \in Disk
  /\ sessions \in 0..MaxSessions
  /\ LifecycleTypeOK

\* Nothing is forgotten.  The file says what the application knows, unless a
\* write is pending, has failed or is forbidden; a start in the background is
\* hidden without saying so.  And a window whose own copy says open comes back
\* after a crash at any time, a pending write or not.
Remembered(d) == IF d.kind = "state" THEN d.state ELSE DefaultState
NothingForgotten ==
  Running /\ ctx.canPersist /\ ~disk.behind =>
    LET file == Remembered(disk)
    IN /\ \/ ctx.due
          \/ file = ctx.state
          \/ ctx.state = [file EXCEPT !.mode = "hidden"] /\ Showing(ctx) = {}
       /\ \A n \in Showing(ctx) : ctx.windows[n].open => n \notin file.closed

\* All windows sit on one layer, the one toggling starts from.
OneLayer == \A n \in Showing(ctx) : ctx.windows[n].layer = Effective(ctx)

\* Only a hide that could not save the state parts the two.
HideAborts == active = "Hide" /\ active' = NoOperation /\ ctx'.restore # ctx.restore
OneLayerKept == [][OneLayer /\ ~HideAborts => OneLayer']_vars

=============================================================================
