------------------------------ MODULE NoteTimer ------------------------------
(***************************************************************************)
(* The timer of one note: the engine in its page (ui/src/timer/engine.ts), *)
(* the panel that offers its operations (ui/src/ui/timerPanel.ts), and the *)
(* record that brings a run back after its window, or the application, was *)
(* gone (core/timer.rs, note_window.rs, app.rs).                           *)
(*                                                                         *)
(* A running timer is the instant it ends and a paused one what is left;   *)
(* the clock passes whether anybody reads it or not.                       *)
(***************************************************************************)
EXTENDS Lifecycle, Sequences

CONSTANTS FocusTime, ShortBreakTime, LongBreakTime,  \* lengths of the phases
          Minutes,         \* the durations the reader chooses from
          DefaultMinutes,  \* the one of them a note begins with
          FocusSessions,   \* of one cycle
          MaxTime,         \* bound: how far the clock is followed
          MaxWire,         \* bound: messages of the page on their way
          MaxOperations,   \* bound: what the reader does
          MaxFaults        \* bound: saves that fail

ASSUME LengthsAssumption ==
  /\ {FocusTime, ShortBreakTime, LongBreakTime} \subseteq Nat \ {0}
  /\ Minutes \subseteq Nat \ {0} /\ DefaultMinutes \in Minutes
  /\ FocusSessions \in Nat \ {0, 1}
ASSUME BoundsAssumption == MaxTime \in Nat /\ MaxWire \in Nat
                         /\ MaxOperations \in Nat /\ MaxFaults \in Nat

VARIABLES now,     \* the wall clock
          page,    \* the engine, while there is a window
          wire,    \* what the page has posted and the host has not taken
          host,    \* the window's copy of the record, and the application's
          file,    \* the record in state.json
          operations   \* of the reader, so far

vars == <<now, page, wire, host, file, operations, lifecycleVars>>

States == {"idle", "running", "paused", "finished"}
Phases == {"focus", "shortBreak", "longBreak"}
Time == 0..MaxTime

\* TimerSnapshot.  due is its deadline while it runs and its remainder while
\* it is paused.  paid is not in the code: while the run is paused what it has
\* run so far, and while it runs the instant at which it would have begun had
\* it never been paused.
Snapshot == [mode: {"timer", "pomodoro"}, state: States, minutes: Minutes, due: Nat,
             phase: Phases, completed: 0..FocusSessions, paid: Nat]

\* The long break comes after the last focus session and only then, a short
\* one after some other.
InCycle(t) ==
  /\ (t.phase = "longBreak") <=> (t.completed = FocusSessions)
  /\ t.phase = "shortBreak" => t.completed > 0

\* A note without a timer; nothing is stored for it.
NoTimer == [mode |-> "timer", state |-> "idle", minutes |-> DefaultMinutes, due |-> 0,
            phase |-> "focus", completed |-> 0, paid |-> 0]

\* What a page posts: the record, and the end of a run.
Message == [type: {"timer_changed", "timer_finished"}, timer: Snapshot]
Changed(t) == [type |-> "timer_changed", timer |-> t]
Rung == [type |-> "timer_finished", timer |-> NoTimer]

Page == [open: BOOLEAN, timer: Snapshot]
NoPage == [open |-> FALSE, timer |-> NoTimer]

\* lost: the last change of the record was refused or could not be saved.
Host == [up: BOOLEAN, window: Snapshot, entry: Snapshot, lost: BOOLEAN, faults: 0..MaxFaults]

Init ==
  /\ now = 0 /\ page = NoPage /\ wire = <<>> /\ file = NoTimer
  /\ host = [up |-> TRUE, window |-> NoTimer, entry |-> NoTimer, lost |-> FALSE, faults |-> 0]
  /\ operations = 0
  /\ LifecycleInit

-----------------------------------------------------------------------------
(* The engine                                                              *)

Longest(a, b) == IF a >= b THEN a ELSE b

Duration(t) ==
  IF t.mode = "timer" THEN t.minutes
  ELSE [focus |-> FocusTime, shortBreak |-> ShortBreakTime,
        longBreak |-> LongBreakTime][t.phase]

Remaining(t) ==
  CASE t.state = "running" -> Longest(0, t.due - now)
    [] t.state = "paused" -> t.due
    [] t.state = "finished" -> 0
    [] t.state = "idle" -> Duration(t)

Stopped(t, state) == [t EXCEPT !.state = state, !.due = 0, !.paid = 0]
Begun(t) == [t EXCEPT !.state = "running", !.due = now + Duration(t), !.paid = now]

\* advancePomodoro: what follows a phase, left or skipped.
Advanced(t) ==
  LET completed == t.completed + 1
      next == IF t.phase = "focus"
              THEN IF completed >= FocusSessions THEN <<"longBreak", FocusSessions>>
                   ELSE <<"shortBreak", completed>>
              ELSE <<"focus", IF t.phase = "longBreak" THEN 0 ELSE t.completed>>
  IN [Stopped(t, "idle") EXCEPT !.phase = next[1], !.completed = next[2]]

\* A mutant: the run goes on, and rings.
Mutant_Restored(t) == t

\* restore: a run whose end has passed comes back finished, and rings no more.
Restored(t) ==
  IF t.state = "running" /\ now >= t.due THEN Stopped(t, "finished") ELSE t

\* emitChange: what there is to store goes to the host.
Posts(t) == wire' = Append(wire, Changed(t))
Becomes(t) == page' = [page EXCEPT !.timer = t] /\ Posts(t)

Timer == page.timer
PageActs == /\ page.open /\ Len(wire) < MaxWire
            /\ UNCHANGED <<now, host, file, lifecycleVars>>
Offered == PageActs /\ operations < MaxOperations /\ operations' = operations + 1

SetMode(mode) ==
  /\ Offered /\ Timer.state \in {"idle", "finished"} /\ mode # Timer.mode
  /\ Becomes([Stopped(Timer, "idle") EXCEPT !.mode = mode])

\* A choice of minutes is no event: it is stored with the next one.
SetMinutes(minutes) ==
  /\ Offered /\ Timer.mode = "timer" /\ Timer.state = "idle" /\ minutes # Timer.minutes
  /\ page' = [page EXCEPT !.timer.minutes = minutes]
  /\ UNCHANGED wire

\* The primary button; in the timer it takes what is in the field first.
Start ==
  /\ Offered
  /\ \/ Timer.state = "idle"
     \/ Timer.state = "finished" /\ Timer.mode = "timer"
  /\ Becomes(Begun(Timer))

Pause ==
  /\ Offered /\ Timer.state = "running"
  /\ Becomes([Timer EXCEPT !.state = "paused", !.due = Remaining(Timer),
                           !.paid = now - Timer.paid])

\* finish: the one completion.
Finishes(t) ==
  LET finished == Stopped(t, "finished") IN
  /\ page' = [page EXCEPT !.timer = finished]
  /\ wire' = wire \o <<Changed(finished), Rung>>

\* A mutant: the run begins again.
Mutant_Resume ==
  /\ Offered /\ Timer.state = "paused"
  /\ IF Timer.due = 0 THEN Finishes(Timer)
     ELSE Becomes([Timer EXCEPT !.state = "running", !.due = now + Duration(Timer),
                                !.paid = now - Timer.paid])

\* Paused with nothing left is over.
Resume ==
  /\ Offered /\ Timer.state = "paused"
  /\ IF Timer.due = 0 THEN Finishes(Timer)
     ELSE Becomes([Timer EXCEPT !.state = "running", !.due = now + Timer.due,
                                !.paid = now - Timer.paid])

\* The secondary button.
Cancel ==
  /\ Offered /\ Timer.state # "idle"
  /\ Timer.state = "finished" => Timer.mode = "timer"
  /\ Becomes(Stopped(Timer, "idle"))

Reset ==
  /\ Offered /\ Timer.state = "finished" /\ Timer.mode = "pomodoro"
  /\ Becomes([NoTimer EXCEPT !.mode = Timer.mode, !.minutes = Timer.minutes])

\* A mutant: the host is not told.
Mutant_Skip ==
  /\ Offered /\ Timer.mode = "pomodoro" /\ Timer.state # "finished"
  /\ page' = [page EXCEPT !.timer = Advanced(Timer)]
  /\ UNCHANGED wire

\* The next phase, and no alarm for the one left.
Skip ==
  /\ Offered /\ Timer.mode = "pomodoro" /\ Timer.state # "finished"
  /\ Becomes(Advanced(Timer))

\* "Start the break": the next phase begins.
Advance ==
  /\ Offered /\ Timer.mode = "pomodoro" /\ Timer.state = "finished"
  /\ Becomes(Begun(Advanced(Timer)))

\* The redraw reads the clock, however late it comes.
Tick ==
  /\ PageActs /\ Timer.state = "running" /\ Remaining(Timer) = 0
  /\ Finishes(Timer) /\ UNCHANGED operations

-----------------------------------------------------------------------------
(* The host                                                                *)

\* persist_state_now of the application's entry.
Persists(entry, window) ==
  \/ /\ host' = [host EXCEPT !.window = window, !.entry = entry, !.lost = FALSE]
     /\ file' = entry
  \/ /\ host.faults < MaxFaults
     /\ host' = [host EXCEPT !.window = window, !.entry = entry, !.lost = TRUE, !.faults = @ + 1]
     /\ UNCHANGED file

\* update_geometry: the window hands its copy over, and is refused while
\* the application hides or another process writes.
HandsOver(window) ==
  IF StructuralActionAllowed THEN Persists(window, window)
  ELSE host' = [host EXCEPT !.window = window, !.lost = TRUE] /\ UNCHANGED file

\* The host takes a message: the record as sanitize leaves it, or the bell.
Takes ==
  /\ wire # <<>> /\ wire' = Tail(wire)
  /\ IF Head(wire) = Rung \/ Head(wire).timer = host.window THEN UNCHANGED <<host, file>>
     ELSE HandsOver(Head(wire).timer)
  /\ UNCHANGED <<now, page, operations, lifecycleVars>>

\* The window moves, and takes the record along.
Geometry ==
  /\ page.open /\ HandsOver(host.window)
  /\ UNCHANGED <<now, page, wire, operations, lifecycleVars>>

\* A window opens with the application's entry, and its page takes it.
Open ==
  /\ host.up /\ ~page.open
  /\ page' = [open |-> TRUE, timer |-> Restored(host.entry)]
  /\ host' = [host EXCEPT !.window = host.entry]
  /\ UNCHANGED <<now, wire, file, operations, lifecycleVars>>

\* The window goes, with whatever its page has still posted.
WindowGone == page' = NoPage /\ wire' = <<>>

\* close_note: the page asked, after all it had posted; the entry is saved
\* with the note marked closed, or the window stays.
Close ==
  /\ page.open /\ wire = <<>> /\ StructuralActionAllowed
  /\ file' = host.entry /\ WindowGone
  /\ host' = [host EXCEPT !.lost = FALSE]
  /\ UNCHANGED <<now, operations, lifecycleVars>>

StartHide ==
  /\ page.open /\ BeginLifecycle("Hide")
  /\ UNCHANGED <<now, page, wire, host, file, operations>>

\* commit_hidden_transition saves the entry the application has.
HideFlushed ==
  /\ active = "Hide" /\ FinishLifecycle("Hide")
  /\ \/ /\ file' = host.entry /\ WindowGone
        /\ host' = [host EXCEPT !.lost = FALSE]
     \/ UNCHANGED <<page, wire, host, file>>
  /\ UNCHANGED <<now, operations>>

\* Another process writes the note.
BeginWrite == /\ host.up /\ externalWrites = 0 /\ BeginExternalWrite
              /\ UNCHANGED <<now, page, wire, host, file, operations>>
FinishWrite == /\ externalWrites = 1 /\ FinishExternalWrite
               /\ UNCHANGED <<now, page, wire, host, file, operations>>

Crash ==
  /\ host.up
  /\ WindowGone /\ active' = NoOperation /\ externalWrites' = 0
  /\ host' = [host EXCEPT !.up = FALSE, !.window = NoTimer, !.entry = NoTimer,
                          !.lost = FALSE]
  /\ UNCHANGED <<now, file, operations>>

StartApplication ==
  /\ ~host.up
  /\ host' = [host EXCEPT !.up = TRUE, !.entry = file]
  /\ UNCHANGED <<now, page, wire, file, operations, lifecycleVars>>

Passes ==
  /\ now < MaxTime /\ now' = now + 1
  /\ UNCHANGED <<page, wire, host, file, operations, lifecycleVars>>

Next ==
  \/ \E mode \in {"timer", "pomodoro"} : SetMode(mode)
  \/ \E minutes \in Minutes : SetMinutes(minutes)
  \/ Start \/ Pause \/ Resume \/ Cancel \/ Reset \/ Skip \/ Advance \/ Tick
  \/ Takes \/ Geometry \/ Open \/ Close
  \/ StartHide \/ HideFlushed \/ BeginWrite \/ FinishWrite
  \/ Crash \/ StartApplication \/ Passes

Spec == Init /\ [][Next]_vars

-----------------------------------------------------------------------------
(* Properties                                                              *)

(* Every field has its type, and a Pomodoro is at a place of its cycle,    *)
(* however the phases before it were left (engine.ts, advancePomodoro).    *)
TypeOK ==
  /\ now \in Time
  /\ page \in Page
  /\ InCycle(page.timer)
  /\ wire \in Seq(Message)
  /\ host \in Host
  /\ file \in Snapshot
  /\ operations \in 0..MaxOperations
  /\ LifecycleTypeOK

(* What a run has been going for is what it has been paid: however often   *)
(* it was paused, its window closed or the application gone, no time is    *)
(* spent while it is paused and none is gained (engine.ts, "nothing        *)
(* accumulates across a pause/resume cycle").                              *)
TimeIsPaid ==
  page.open =>
    /\ Timer.state = "running" => Timer.due = Timer.paid + Duration(Timer)
    /\ Timer.state = "paused" => Timer.due = Longest(0, Duration(Timer) - Timer.paid)

(* An alarm comes when the time of its run is over, not before, and for an *)
(* end that is not in the past when the note opens (engine.ts, finish and  *)
(* restore).                                                               *)
Rings == Len(wire') > Len(wire) /\ wire'[Len(wire')] = Rung
Ran(t) == IF t.state = "running" THEN now - t.paid ELSE t.paid
Opens == ~page.open /\ page'.open
RingsInTime ==
  [][/\ Rings => Ran(Timer) >= Duration(Timer)
     /\ Opens /\ Timer'.state = "running" => Timer'.due > now]_vars

(* A note comes back with the run it had: unless a change was refused or   *)
(* could not be saved, the record gives what the page shows, but for the   *)
(* minutes chosen for a run that has not begun.                            *)
Shown(t) == LET r == Restored(t) IN
  IF r.state = "idle" THEN [r EXCEPT !.minutes = DefaultMinutes] ELSE r
ReopensAsItWas ==
  page.open /\ wire = <<>> /\ ~host.lost => Shown(file) = Shown(Timer)

=============================================================================
